---------------------------- MODULE StorageProofs ----------------------------
(* What protects the files of the launcher: the operation guards that exclude each      *)
(* other within and across processes (OperationLock), for any number of processes and   *)
(* tasks, and the files of utils/json.rs, which implement the document a load promises  *)
(* (JsonStore, AtomicDocument), for any number of documents, writes and crashes; and    *)
(* what the observation and benchmark stores record (RunRecords), for any number of     *)
(* launches, runs and commands at once.                                                 *)
EXTENDS JsonStore, OperationLock, RunRecords, FiniteSetTheorems, TLAPS

-----------------------------------------------------------------------------
(* --------------------------- operation guards --------------------------- *)

(* The tasks of a process that hold a guard of one mode. *)
Having(p, mode) == {t \in Tasks : guard[p][t] = mode}

(* What LockState counts is what the guards of its process are. *)
RegistryCounts(p) ==
    /\ registry[p].readers = Cardinality(Having(p, "shared"))
    /\ registry[p].writer <=> Having(p, "exclusive") # {}
    /\ \A t, u \in Having(p, "exclusive") : t = u
    /\ registry[p].writer => registry[p].readers = 0
(* The record lock of a process is the strongest guard in it; there is a file
   exactly while there is a guard. *)
KernelFollows(p) ==
    /\ registry[p].file <=> ~Unused(registry[p])
    /\ kernel[p] = (IF registry[p].writer THEN "exclusive"
                    ELSE IF registry[p].readers > 0 THEN "shared" ELSE NoLock)
KernelExcludes ==
    \A p, q \in Processes : p # q /\ kernel[p] = "exclusive" => kernel[q] = NoLock

LockInv ==
    /\ LockTypeOK
    /\ \A p \in Processes : RegistryCounts(p) /\ KernelFollows(p)
    /\ KernelExcludes

(* A set of tasks has a size, and is empty when that is zero. *)
LEMMA TaskSets ==
    ASSUME NEW S \in SUBSET Tasks
    PROVE  IsFiniteSet(S) /\ Cardinality(S) \in Nat /\ (Cardinality(S) = 0 <=> S = {})
  BY TasksAssumption, FS_Subset, FS_CardinalityType, FS_EmptySet

(* The invariant says of guards what the property asks. *)
LEMMA InvExcludes == LockInv => GuardsExclude
  <1> SUFFICES ASSUME LockInv, NEW p \in Processes, NEW q \in Processes, NEW t \in Tasks,
                      NEW u \in Tasks, guard[p][t] = "exclusive", <<p, t>> # <<q, u>>
               PROVE  guard[q][u] = NoLock
    BY DEF GuardsExclude
  <1>1. registry[p].writer /\ kernel[p] = "exclusive"
    BY DEF LockInv, RegistryCounts, KernelFollows, Having
  <1>2. Having(q, "shared") \in SUBSET Tasks
    BY DEF Having
  <1>3. guard[q][u] \in {"shared", "exclusive", NoLock}
    BY DEF LockInv, LockTypeOK, Modes
  <1>4. CASE p = q
    <2>1. registry[q].readers = 0
      BY <1>1, <1>4 DEF LockInv, RegistryCounts
    <2>2. Having(q, "shared") = {}
      BY <2>1, <1>2, TaskSets DEF LockInv, RegistryCounts
    <2>3. guard[q][u] # "shared"
      BY <2>2 DEF Having
    <2>4. guard[q][u] # "exclusive"
      BY <1>4 DEF LockInv, RegistryCounts, Having
    <2> QED BY <2>3, <2>4, <1>3
  <1>5. CASE p # q
    <2>1. kernel[q] = NoLock
      BY <1>1, <1>5 DEF LockInv, KernelExcludes
    <2>2. ~registry[q].writer /\ ~(registry[q].readers > 0)
      BY <2>1 DEF LockInv, KernelFollows, NoLock
    <2>3. Having(q, "shared") = {} /\ Having(q, "exclusive") = {}
      BY <2>2, <1>2, TaskSets DEF LockInv, RegistryCounts
    <2> QED BY <2>3, <1>3 DEF Having
  <1> QED BY <1>4, <1>5

(* One more guard of a process, or one fewer. *)
LEMMA HavingAfter ==
    ASSUME LockTypeOK, NEW p \in Processes, NEW t \in Tasks, NEW mode \in Modes \union {NoLock},
           guard' = [guard EXCEPT ![p][t] = mode]
    PROVE  /\ \A q \in Processes \ {p}, m \in Modes : Having(q, m)' = Having(q, m)
           /\ \A m \in Modes : Having(p, m)' = IF m = mode THEN Having(p, m) \union {t}
                                               ELSE Having(p, m) \ {t}
  BY DEF LockTypeOK, Having, Modes, NoLock

(* A guard that is taken joins the guards of its process and of no other. *)
LEMMA AcquireStep ==
    ASSUME LockInv, NEW p \in Processes, NEW t \in Tasks, NEW mode \in Modes,
           Acquire(p, t, mode), LockTypeOK'
    PROVE  LockInv'
  <1> USE DEF LockInv
  <1>1. /\ \A q \in Processes \ {p}, m \in Modes : Having(q, m)' = Having(q, m)
        /\ Having(p, mode)' = Having(p, mode) \union {t}
        /\ \A m \in Modes \ {mode} : Having(p, m)' = Having(p, m)
    <2>1. /\ \A q \in Processes \ {p}, m \in Modes : Having(q, m)' = Having(q, m)
          /\ \A m \in Modes : Having(p, m)' = IF m = mode THEN Having(p, m) \union {t}
                                              ELSE Having(p, m) \ {t}
      <3>1. LockTypeOK /\ mode \in Modes \union {NoLock} /\ guard' = [guard EXCEPT ![p][t] = mode]
        BY DEF Acquire
      <3> QED BY <3>1, HavingAfter
    <2>2. \A m \in Modes : t \notin Having(p, m)
      BY DEF Acquire, Having, Modes, NoLock
    <2> QED BY <2>1, <2>2
  <1>2. \A m \in Modes : Having(p, m) \in SUBSET Tasks /\ t \notin Having(p, m)
    BY DEF Acquire, Having, Modes, NoLock
  <1>3. /\ registry'[p] = [readers |-> registry[p].readers + (IF mode = "shared" THEN 1 ELSE 0),
                           writer |-> mode = "exclusive", file |-> TRUE]
        /\ \A q \in Processes \ {p} : registry'[q] = registry[q] /\ kernel'[q] = kernel[q]
        /\ kernel'[p] = IF registry[p].file THEN kernel[p] ELSE mode
    BY DEF Acquire, LockTypeOK
  <1>4. registry[p].readers \in Nat /\ ~registry[p].writer
        /\ (mode = "exclusive" => registry[p].readers = 0)
    BY DEF LockTypeOK, Acquire, Busy, Unavailable
  <1> DEFINE fields == /\ registry'[p].file /\ (registry'[p].writer <=> mode = "exclusive")
                       /\ registry'[p].readers = registry[p].readers
                                                 + (IF mode = "shared" THEN 1 ELSE 0)
  <1>f. fields
    <2>1. registry'[p].file
      BY <1>3
    <2>2. registry'[p].writer = (mode = "exclusive")
      BY <1>3
    <2>3. registry'[p].readers = registry[p].readers + (IF mode = "shared" THEN 1 ELSE 0)
      BY <1>3
    <2> QED BY <2>1, <2>2, <2>3
  <1>5. RegistryCounts(p)'
    <2>1. CASE mode = "shared"
      <3>1. /\ Having(p, "shared")' = Having(p, "shared") \union {t}
            /\ Having(p, "exclusive")' = {}
        BY <2>1, <1>1, <1>4 DEF Modes, RegistryCounts
      <3>2. Cardinality(Having(p, "shared") \union {t}) = Cardinality(Having(p, "shared")) + 1
        BY <1>2, TaskSets, FS_AddElement DEF Modes
      <3> QED BY <3>1, <3>2, <2>1, <1>f DEF RegistryCounts
    <2>2. CASE mode = "exclusive"
      <3>1. Having(p, "exclusive") = {} /\ Having(p, "shared") = {}
        BY <2>2, <1>2, <1>4, TaskSets DEF Modes, RegistryCounts
      <3>2. Having(p, "exclusive")' = {t} /\ Having(p, "shared")' = {}
        BY <3>1, <2>2, <1>1 DEF Modes
      <3>3. registry'[p].readers = 0 /\ registry'[p].writer
        BY <2>2, <1>f, <1>4
      <3>4. Cardinality(Having(p, "shared")') = 0
        BY <3>2, FS_EmptySet
      <3> QED BY <3>2, <3>3, <3>4 DEF RegistryCounts
    <2> QED BY <2>1, <2>2 DEF Modes
  <1>6. KernelFollows(p)'
    <2>2. registry[p].file => mode = "shared" /\ kernel[p] = "shared"
      BY <1>4 DEF KernelFollows, Unused, Modes
    <2>3. kernel'[p] = mode
      BY <2>2, <1>3
    <2> QED BY <1>f, <2>3, <1>4 DEF KernelFollows, Unused, Modes
  <1>7. \A q \in Processes \ {p} : RegistryCounts(q)' /\ KernelFollows(q)'
    BY <1>1, <1>3 DEF RegistryCounts, KernelFollows, Unused, Modes
  <1>8. KernelExcludes'
    <2>1. CASE registry[p].file
      BY <2>1, <1>3 DEF KernelExcludes
    <2>2. CASE ~registry[p].file
      <3>1. \A q \in Processes \ {p} :
               kernel[q] # "exclusive" /\ (mode = "exclusive" => kernel[q] = NoLock)
        BY <2>2 DEF Acquire, Busy, KernelRefuses
      <3> QED BY <3>1, <2>2, <1>3 DEF KernelExcludes
    <2> QED BY <2>1, <2>2
  <1> QED BY <1>5, <1>6, <1>7, <1>8

(* A guard that is dropped leaves; the last of a process takes its lock along. *)
LEMMA DropStep ==
    ASSUME LockInv, NEW p \in Processes, NEW t \in Tasks, DropGuard(p, t), LockTypeOK'
    PROVE  LockInv'
  <1> USE DEF LockInv
  <1> DEFINE mode == guard[p][t]
             left == Dropped(registry[p], mode)
  <1>1. mode \in Modes /\ t \in Having(p, mode)
    BY DEF DropGuard, LockTypeOK, Having
  <1>2. /\ \A q \in Processes \ {p}, m \in Modes : Having(q, m)' = Having(q, m)
        /\ \A m \in Modes : Having(p, m)' = Having(p, m) \ {t}
    <2>1. NoLock \in Modes \union {NoLock} /\ \A m \in Modes : m # NoLock
      BY DEF Modes, NoLock
    <2>2. LockTypeOK /\ guard' = [guard EXCEPT ![p][t] = NoLock]
      BY DEF DropGuard
    <2>3. /\ \A q \in Processes \ {p}, m \in Modes : Having(q, m)' = Having(q, m)
          /\ \A m \in Modes : Having(p, m)' = IF m = NoLock THEN Having(p, m) \union {t}
                                              ELSE Having(p, m) \ {t}
      BY <2>2, HavingAfter
    <2> QED BY <2>1, <2>3
  <1>3. \A m \in Modes : Having(p, m) \in SUBSET Tasks /\ (m # mode => t \notin Having(p, m))
    BY DEF Having
  <1>4. /\ registry'[p] = IF Unused(left) THEN NoOwner ELSE left
        /\ kernel'[p] = IF Unused(left) THEN NoLock ELSE kernel[p]
        /\ \A q \in Processes \ {p} : registry'[q] = registry[q] /\ kernel'[q] = kernel[q]
    BY DEF DropGuard, LockTypeOK
  <1>5. /\ left.readers = Cardinality(Having(p, "shared")')
        /\ Having(p, "exclusive")' = {}
        /\ ~left.writer /\ left.readers <= registry[p].readers
        /\ left.file <=> registry[p].file
    <2>1. registry[p].readers \in Nat
      BY DEF LockTypeOK
    <2>2. /\ left.readers = IF mode = "shared" THEN registry[p].readers - 1
                            ELSE registry[p].readers
          /\ left.writer = (registry[p].writer /\ mode # "exclusive")
          /\ left.file = registry[p].file
      BY DEF Dropped, LockTypeOK
    <2>3. CASE mode = "shared"
      <3>1. Cardinality(Having(p, "shared") \ {t}) = Cardinality(Having(p, "shared")) - 1
        BY <2>3, <1>1, <1>3, TaskSets, FS_RemoveElement
      <3>2. Having(p, "exclusive")' = Having(p, "exclusive")
        BY <2>3, <1>2, <1>3 DEF Modes
      <3>3. Having(p, "shared") # {}
        BY <2>3, <1>1
      <3>4. ~registry[p].writer
        BY <3>3, <1>3, TaskSets DEF RegistryCounts, Modes
      <3>5. Having(p, "exclusive") = {}
        BY <3>4 DEF RegistryCounts
      <3>6. Having(p, "shared")' = Having(p, "shared") \ {t}
        BY <1>2 DEF Modes
      <3>7. left.readers = Cardinality(Having(p, "shared")')
        BY <3>1, <3>6, <2>2, <2>3 DEF RegistryCounts
      <3>8. left.readers <= registry[p].readers
        BY <2>1, <2>2, <2>3
      <3>9. ~left.writer
        BY <3>4, <2>2
      <3> QED BY <3>2, <3>5, <3>7, <3>8, <3>9, <2>2
    <2>4. CASE mode = "exclusive"
      <3>1. Having(p, "exclusive") = {t}
        BY <2>4, <1>1 DEF RegistryCounts
      <3>2. Having(p, "shared")' = Having(p, "shared")
        BY <2>4, <1>2, <1>3 DEF Modes
      <3>3. Having(p, "exclusive")' = {}
        BY <3>1, <1>2 DEF Modes
      <3>4. left.readers = Cardinality(Having(p, "shared")')
        BY <3>2, <2>2, <2>4 DEF RegistryCounts
      <3>8. left.readers <= registry[p].readers
        BY <2>1, <2>2, <2>4
      <3>9. ~left.writer
        BY <2>2, <2>4
      <3> QED BY <3>3, <3>4, <3>8, <3>9, <2>2
    <2> QED BY <2>3, <2>4, <1>1 DEF Modes
  <1>6. RegistryCounts(p)' /\ KernelFollows(p)'
    <2>1. CASE Unused(left)
      BY <2>1, <1>4, <1>5 DEF Unused, NoOwner, RegistryCounts, KernelFollows
    <2>2. CASE ~Unused(left)
      <3>1. registry[p].file <=> ~Unused(registry[p])
        BY DEF KernelFollows
      <3>2. ~Unused(registry[p]) /\ kernel[p] = "shared" /\ ~left.writer /\ left.readers > 0
        <4>1. left.readers \in Nat /\ registry[p].readers \in Nat
              /\ left.readers <= registry[p].readers
          <5>1. Having(p, "shared")' \in SUBSET Tasks
            BY <1>2, <1>3 DEF Modes
          <5> QED BY <5>1, <1>5, TaskSets DEF LockTypeOK
        <4>2. left.readers # 0 /\ ~left.writer
          BY <2>2, <1>5 DEF Unused
        <4>3. registry[p].readers > 0
          BY <4>1, <4>2
        <4> QED BY <4>1, <4>2, <4>3 DEF Unused, KernelFollows, RegistryCounts
      <3> QED BY <3>1, <3>2, <2>2, <1>4, <1>5 DEF Unused, RegistryCounts, KernelFollows
    <2> QED BY <2>1, <2>2
  <1>7. \A q \in Processes \ {p} : RegistryCounts(q)' /\ KernelFollows(q)'
    BY <1>2, <1>4 DEF RegistryCounts, KernelFollows, Unused, Modes
  <1>8. KernelExcludes'
    BY <1>4 DEF KernelExcludes, NoLock
  <1> QED BY <1>6, <1>7, <1>8

(* The kernel takes the locks of a process that ends. *)
LEMMA DiesStep ==
    ASSUME LockInv, NEW p \in Processes, ProcessDies(p), LockTypeOK'
    PROVE  LockInv'
  <1> USE DEF LockInv
  <1>1. /\ \A m \in Modes : Having(p, m)' = {}
        /\ \A q \in Processes \ {p}, m \in Modes : Having(q, m)' = Having(q, m)
        /\ registry'[p] = NoOwner /\ kernel'[p] = NoLock
        /\ \A q \in Processes \ {p} : registry'[q] = registry[q] /\ kernel'[q] = kernel[q]
    BY DEF ProcessDies, LockTypeOK, Having, Modes, NoLock
  <1>2. RegistryCounts(p)' /\ KernelFollows(p)'
    BY <1>1, FS_EmptySet DEF RegistryCounts, KernelFollows, Unused, NoOwner, Modes
  <1>3. \A q \in Processes \ {p} : RegistryCounts(q)' /\ KernelFollows(q)'
    BY <1>1 DEF RegistryCounts, KernelFollows, Unused, Modes
  <1>4. KernelExcludes'
    BY <1>1 DEF KernelExcludes, NoLock
  <1> QED BY <1>2, <1>3, <1>4

(* The steps that only wait move no guard and no lock. *)
LEMMA WaitStep ==
    ASSUME LockInv, UNCHANGED <<registry, kernel, guard>>, LockTypeOK'
    PROVE  LockInv'
  BY DEF LockInv, RegistryCounts, KernelFollows, KernelExcludes, Having, Unused

(* Every step keeps the types; a guard that is dropped was counted. *)
LEMMA LockTypeStep ==
    ASSUME LockInv, LockNext
    PROVE  LockTypeOK'
  <1> USE DEF LockInv, LockTypeOK
  <1>1. ASSUME NEW p \in Processes, NEW t \in Tasks, NEW mode \in Modes, Acquire(p, t, mode)
        PROVE  /\ registry' \in [Processes -> [readers : Nat, writer : BOOLEAN, file : BOOLEAN]]
               /\ kernel' \in [Processes -> Modes \union {NoLock}]
               /\ guard' \in [Processes -> [Tasks -> Modes \union {NoLock}]]
    BY <1>1 DEF Acquire
  <1>2. ASSUME NEW p \in Processes, NEW t \in Tasks, NEW mode \in Modes, TryAcquire(p, t, mode)
        PROVE  LockTypeOK'
    BY <1>1, <1>2 DEF TryAcquire
  <1>3. ASSUME NEW p \in Processes, NEW t \in Tasks, AcquireFor(p, t)
        PROVE  LockTypeOK'
    BY <1>3, AttemptsAssumption DEF AcquireFor
  <1>4. ASSUME NEW p \in Processes, NEW t \in Tasks, RetryAcquire(p, t)
        PROVE  LockTypeOK'
    <2>1. CASE Acquire(p, t, "exclusive") /\ waiting' = [waiting EXCEPT ![p][t] = 0]
      BY <1>1, <1>4, <2>1, AttemptsAssumption DEF RetryAcquire, Modes
    <2>2. CASE waiting' = [waiting EXCEPT ![p][t] = @ - 1] /\ UNCHANGED <<registry, kernel, guard>>
      <3>1. waiting[p][t] - 1 \in 0..MaxAttempts
        BY <1>4, AttemptsAssumption DEF RetryAcquire
      <3> QED BY <1>4, <2>2, <3>1 DEF RetryAcquire
    <2> QED BY <1>4, <2>1, <2>2 DEF RetryAcquire
  <1>5. ASSUME NEW p \in Processes, NEW t \in Tasks, DropGuard(p, t)
        PROVE  LockTypeOK'
    <2>1. guard[p][t] = "shared" => registry[p].readers - 1 \in Nat
      <3> SUFFICES ASSUME guard[p][t] = "shared"
                   PROVE  registry[p].readers > 0
        OBVIOUS
      <3>1. Having(p, "shared") \in SUBSET Tasks /\ Having(p, "shared") # {}
        BY DEF Having
      <3> QED BY <3>1, TaskSets DEF RegistryCounts
    <2>2. Dropped(registry[p], guard[p][t]) \in [readers : Nat, writer : BOOLEAN, file : BOOLEAN]
      BY <2>1 DEF Dropped
    <2>3. NoOwner \in [readers : Nat, writer : BOOLEAN, file : BOOLEAN]
      BY DEF NoOwner
    <2> QED BY <1>5, <2>2, <2>3 DEF DropGuard
  <1>6. ASSUME NEW p \in Processes, ProcessDies(p)
        PROVE  LockTypeOK'
    BY <1>6, AttemptsAssumption DEF ProcessDies, NoOwner
  <1> QED BY <1>2, <1>3, <1>4, <1>5, <1>6 DEF LockNext

(* OperationLock: the counts of every registry and the record locks are those of the
   guards, in every reachable state, for any number of processes and tasks. *)
THEOREM LockInvariant == LockSpec => []LockInv
  <1>1. LockInit => LockInv
    <2> SUFFICES ASSUME LockInit PROVE LockInv
      OBVIOUS
    <2>1. LockTypeOK
      BY AttemptsAssumption DEF LockInit, LockTypeOK, NoOwner
    <2>2. \A p \in Processes, m \in Modes : Having(p, m) = {}
      BY DEF LockInit, Having, Modes, NoLock
    <2>3. \A p \in Processes : RegistryCounts(p) /\ KernelFollows(p)
      <3> SUFFICES ASSUME NEW p \in Processes
                   PROVE  RegistryCounts(p) /\ KernelFollows(p)
        OBVIOUS
      <3>1. registry[p].readers = 0 /\ ~registry[p].writer /\ ~registry[p].file
            /\ kernel[p] = NoLock
        BY DEF LockInit, NoOwner
      <3>2. Having(p, "shared") = {} /\ Having(p, "exclusive") = {}
        BY <2>2 DEF Modes
      <3> QED BY <3>1, <3>2, FS_EmptySet DEF RegistryCounts, KernelFollows, Unused
    <2>4. KernelExcludes
      BY DEF LockInit, KernelExcludes
    <2> QED BY <2>1, <2>3, <2>4 DEF LockInv
  <1>2. LockInv /\ [LockNext]_lockVars => LockInv'
    <2> SUFFICES ASSUME LockInv, [LockNext]_lockVars PROVE LockInv'
      OBVIOUS
    <2>1. CASE LockNext
      <3>1. LockTypeOK'
        BY <2>1, LockTypeStep
      <3>2. ASSUME NEW p \in Processes, NEW t \in Tasks, NEW mode \in Modes,
                   TryAcquire(p, t, mode)
            PROVE  LockInv'
        BY <3>1, <3>2, AcquireStep DEF TryAcquire
      <3>3. ASSUME NEW p \in Processes, NEW t \in Tasks, AcquireFor(p, t) \/ RetryAcquire(p, t)
            PROVE  LockInv'
        <4>1. CASE Acquire(p, t, "exclusive")
          BY <4>1, <3>1, AcquireStep DEF Modes
        <4>2. CASE UNCHANGED <<registry, kernel, guard>>
          BY <4>2, <3>1, WaitStep
        <4> QED BY <3>3, <4>1, <4>2 DEF AcquireFor, RetryAcquire
      <3> QED BY <2>1, <3>1, <3>2, <3>3, DropStep, DiesStep DEF LockNext
    <2>2. CASE UNCHANGED lockVars
      <3>1. LockTypeOK' /\ UNCHANGED <<registry, kernel, guard>>
        BY <2>2 DEF lockVars, LockInv, LockTypeOK
      <3> QED BY <3>1, WaitStep
    <2> QED BY <2>1, <2>2
  <1> QED BY <1>1, <1>2, PTL DEF LockSpec

(* GuardsExclude: no schedule of acquire, acquire_shared, acquire_for, Drop and dying
   processes gives an exclusive guard of a key company, in its process or another. *)
THEOREM GuardsExcludeHolds == LockSpec => []GuardsExclude
  BY LockInvariant, InvExcludes, PTL

-----------------------------------------------------------------------------
(* ------------------------------- JSON files ------------------------------ *)

(* What the directory may show holds what the files are, and never a backup of another   *)
(* write; a value is being written exactly while the process copies, renames or syncs.   *)
JsonInv ==
    /\ JsonTypeOK
    /\ <<primary, backup>> \in entries
    /\ \A e \in entries : e[2] \in {backup, NoFile}
    /\ process \in {"copying", "copied", "renamed"} <=> saving # LostDocument
    /\ process = "copying" => primary # NoFile
    /\ process = "renamed" => primary = saving

(* The value a load finds in a pair of files. *)
Value(e) == IF e[1] = NoFile THEN Empty
            ELSE IF Valid(e[1]) THEN e[1]
            ELSE IF Valid(e[2]) THEN e[2] ELSE LostDocument
Older == IF Valid(backup) THEN backup ELSE LostDocument
Damaged == \E e \in entries : e[1] = Torn

(* The names of the contents are told apart. *)
LEMMA Contents ==
    /\ NoFile \notin Stored /\ Torn \notin Stored /\ LostDocument \notin Stored
    /\ Empty \in Stored /\ Documents \subseteq Stored
    /\ NoFile # Torn
  BY DocumentsAssumption DEF Stored, NoFile, Torn, LostDocument, Empty

(* The invariant survives every step (write_json_internal, load_json_recovering). *)
LEMMA JsonInvStep ==
    ASSUME JsonInv, [JsonNext]_jsonVars
    PROVE  JsonInv'
  <1> USE Contents DEF JsonInv, JsonTypeOK, FileContents
  <1>1. CASE Load
    BY <1>1, SMTT(20) DEF Load, Loaded, BeginWrite, Valid
  <1>2. ASSUME NEW v \in Documents, Save(v)
        PROVE  JsonInv'
    BY <1>2 DEF Save, BeginWrite
  <1>3. CASE CopyTears
    <2>1. \A e \in entries' : \/ e = <<primary, Torn>>
                              \/ \E f \in entries : e = <<f[1], IF f[2] = NoFile THEN NoFile ELSE Torn>>
      BY <1>3 DEF CopyTears
    <2>2. entries' \subseteq FileContents \X FileContents
      BY <2>1
    <2>3. \A e \in entries' : e[2] \in {Torn, NoFile}
      BY <2>1
    <2>4. <<primary, Torn>> \in entries'
      BY <1>3 DEF CopyTears
    <2> QED BY <1>3, <2>2, <2>3, <2>4 DEF CopyTears
  <1>4. CASE CopyDone
    <2>1. \A e \in entries' : \/ e = <<primary, primary>>
                              \/ \E f \in entries : e = <<f[1], IF f[2] = NoFile THEN NoFile ELSE primary>>
      BY <1>4 DEF CopyDone
    <2>2. entries' \subseteq FileContents \X FileContents
      BY <2>1
    <2>3. \A e \in entries' : e[2] \in {primary, NoFile}
      BY <2>1
    <2>4. <<primary, primary>> \in entries'
      BY <1>4 DEF CopyDone
    <2> QED BY <1>4, <2>2, <2>3, <2>4 DEF CopyDone
  <1>5. CASE RenameTemp
    BY <1>5 DEF RenameTemp
  <1>6. CASE SyncDirectory
    BY <1>6 DEF SyncDirectory
  <1>7. CASE WriteFails
    BY <1>7 DEF WriteFails
  <1>8. CASE Crash
    <2>1. PICK e \in entries : primary' = e[1] /\ backup' = e[2] /\ entries' = {e}
      BY <1>8 DEF Crash
    <2>2. e = <<e[1], e[2]>> /\ e[1] \in FileContents /\ e[2] \in FileContents
      OBVIOUS
    <2> QED BY <1>8, <2>1, <2>2 DEF Crash
  <1>9. CASE DamageFile
    BY <1>9 DEF DamageFile, Valid
  <1>10. CASE UNCHANGED jsonVars
    BY <1>10 DEF jsonVars
  <1> QED BY <1>1, <1>2, <1>3, <1>4, <1>5, <1>6, <1>7, <1>8, <1>9, <1>10 DEF JsonNext

(* The document as the mapping sees it. *)
LEMMA Mapping ==
    /\ PossibleAfterCrash = {Value(e) : e \in entries}
    /\ Loaded = Value(<<primary, backup>>)
  BY DEF PossibleAfterCrash, Value, Loaded

(* A copy onto the backup, torn or whole, touches the document only where its file was
   damaged (copy_and_sync). *)
LEMMA CopyRotates ==
    ASSUME JsonInv, JsonInv', NEW copy \in {Torn, primary},
           process = "copying", backup' = copy, UNCHANGED <<primary, saving>>,
           entries' = {<<e[1], IF e[2] = NoFile THEN NoFile ELSE copy>> : e \in entries}
                         \union {<<primary, copy>>}
    PROVE  Document!Rotate
  <1> USE Contents DEF JsonInv, JsonTypeOK, FileContents
  <1>1. saving # LostDocument /\ primary # NoFile /\ <<primary, backup>> \in entries
    OBVIOUS
  <1>2. Older' \in {LostDocument, Loaded}
    BY <1>1 DEF Older, Loaded, Valid
  <1>3. Damaged' = Damaged
    <2>1. Damaged => Damaged'
      <3> SUFFICES ASSUME NEW e \in entries, e[1] = Torn PROVE Damaged'
        BY DEF Damaged
      <3>1. <<e[1], IF e[2] = NoFile THEN NoFile ELSE copy>> \in entries'
        OBVIOUS
      <3> QED BY <3>1 DEF Damaged
    <2>2. Damaged' => Damaged
      BY <1>1 DEF Damaged
    <2> QED BY <2>1, <2>2 DEF Damaged
  <1>4. CASE ~Damaged
    <2>1. Valid(primary) /\ Loaded = primary /\ Loaded' = primary
      BY <1>1, <1>4 DEF Damaged, Valid, Loaded
    <2>2. \A e \in entries : \A b : Value(<<e[1], b>>) = Value(e)
      BY <1>4 DEF Damaged, Value, Valid
    <2>3. \A e \in entries : Value(e) \in {Value(f) : f \in entries'}
      <3> SUFFICES ASSUME NEW e \in entries PROVE \E f \in entries' : Value(f) = Value(e)
        OBVIOUS
      <3>1. <<e[1], IF e[2] = NoFile THEN NoFile ELSE copy>> \in entries'
        OBVIOUS
      <3> QED BY <2>2, <3>1
    <2>4. \A f \in entries' : Value(f) \in {Value(e) : e \in entries}
      <3> SUFFICES ASSUME NEW f \in entries' PROVE Value(f) \in {Value(e) : e \in entries}
        OBVIOUS
      <3>1. CASE f = <<primary, copy>>
        <4>1. Value(f) = Value(<<primary, backup>>)
          BY <1>1, <2>2, <3>1
        <4> QED BY <1>1, <4>1
      <3>2. CASE \E e \in entries : f = <<e[1], IF e[2] = NoFile THEN NoFile ELSE copy>>
        BY <2>2, <3>2
      <3> QED BY <3>1, <3>2
    <2>5. PossibleAfterCrash' = PossibleAfterCrash
      BY <2>3, <2>4, Mapping DEF PossibleAfterCrash, Value
    <2> QED BY <1>1, <1>2, <1>3, <1>4, <2>1, <2>5 DEF Document!Rotate, Older, Damaged
  <1>5. CASE Damaged
    <2>1. Loaded' \in {Loaded, LostDocument}
      BY <1>1 DEF Loaded, Valid
    <2>2. \A f \in entries' : Value(f) \in PossibleAfterCrash \union {Loaded, LostDocument}
      <3> SUFFICES ASSUME NEW f \in entries'
                   PROVE  Value(f) \in PossibleAfterCrash \union {Loaded, LostDocument}
        OBVIOUS
      <3>1. CASE f = <<primary, copy>>
        BY <1>1, <3>1 DEF Value, Loaded, Valid
      <3>2. ASSUME NEW e \in entries, f = <<e[1], IF e[2] = NoFile THEN NoFile ELSE copy>>
            PROVE  Value(f) \in {Value(e), Loaded, LostDocument}
        BY <1>1, <3>2 DEF Value, Loaded, Valid
      <3> QED BY <3>1, <3>2, Mapping
    <2>3. PossibleAfterCrash' \subseteq PossibleAfterCrash \union {Loaded, LostDocument}
      BY <2>2 DEF PossibleAfterCrash, Value
    <2> QED BY <1>1, <1>2, <1>3, <1>5, <2>1, <2>3 DEF Document!Rotate, Older, Damaged
  <1> QED BY <1>4, <1>5

(* Every step of the files is a step of the document, or none. *)
LEMMA JsonStepImplements ==
    ASSUME JsonInv, JsonInv', [JsonNext]_jsonVars
    PROVE  [Document!Next]_(Document!documentVars)
  <1> USE Contents DEF JsonInv, JsonTypeOK, FileContents
  <1>1. CASE Load
    <2>1. UNCHANGED <<primary, backup, entries>>
      BY <1>1 DEF Load
    <2>2. UNCHANGED <<Loaded, PossibleAfterCrash, Older, Damaged>>
      BY <2>1 DEF Loaded, PossibleAfterCrash, Valid, Older, Damaged
    <2>3. saving = LostDocument
      BY <1>1 DEF Load
    <2>4. saving' = saving \/ saving' \in Stored
      BY <1>1 DEF Load, BeginWrite, Valid
    <2>5. CASE saving' = saving
      BY <2>2, <2>5 DEF Document!documentVars, Older, Damaged
    <2>6. CASE saving' \in Stored
      BY <2>2, <2>3, <2>6 DEF Document!Next, Document!Begin, Older, Damaged
    <2> QED BY <2>4, <2>5, <2>6
  <1>2. ASSUME NEW v \in Documents, Save(v)
        PROVE  Document!Next
    <2>1. UNCHANGED <<primary, backup, entries>> /\ saving = LostDocument /\ saving' = v
      BY <1>2 DEF Save, BeginWrite
    <2>2. UNCHANGED <<Loaded, PossibleAfterCrash, Older, Damaged>>
      BY <2>1 DEF Loaded, PossibleAfterCrash, Valid, Older, Damaged
    <2> QED BY <2>1, <2>2 DEF Document!Next, Document!Begin, Older, Damaged
  <1>3. CASE CopyTears
    <2>1. /\ process = "copying" /\ backup' = Torn /\ UNCHANGED <<primary, saving>>
          /\ entries' = {<<e[1], IF e[2] = NoFile THEN NoFile ELSE Torn>> : e \in entries}
                           \union {<<primary, Torn>>}
      BY <1>3 DEF CopyTears
    <2>2. Document!Rotate
      <3> HIDE DEF JsonInv
      <3> QED BY <2>1, CopyRotates
    <2> QED BY <2>2 DEF Document!Next
  <1>4. CASE CopyDone
    <2>1. /\ process = "copying" /\ backup = Torn /\ backup' = primary
          /\ UNCHANGED <<primary, saving>>
          /\ entries' = {<<e[1], IF e[2] = NoFile THEN NoFile ELSE primary>> : e \in entries}
                           \union {<<primary, primary>>}
      BY <1>4 DEF CopyDone
    <2>2. Document!Rotate
      <3> HIDE DEF JsonInv
      <3> QED BY <2>1, CopyRotates
    <2> QED BY <2>2 DEF Document!Next
  <1>5. CASE RenameTemp
    <2>1. /\ saving \in Stored /\ saving' = saving /\ primary' = saving /\ backup' = backup
          /\ entries' = entries \union {<<saving, backup>>}
      BY <1>5 DEF RenameTemp
    <2>2. Loaded' = saving
      BY <2>1 DEF Loaded, Valid
    <2>3. PossibleAfterCrash' = PossibleAfterCrash \union {saving}
      <3>1. Value(<<saving, backup>>) = saving
        BY <2>1 DEF Value, Valid
      <3>2. \A e \in entries' : e \in entries \/ e = <<saving, backup>>
        BY <2>1
      <3>3. entries \subseteq entries' /\ <<saving, backup>> \in entries'
        BY <2>1
      <3>4. {Value(e) : e \in entries'} = {Value(e) : e \in entries} \union {saving}
        <4> HIDE DEF JsonInv
        <4> QED BY <3>1, <3>2, <3>3
      <3> QED BY <3>4, Mapping DEF PossibleAfterCrash, Value
    <2>4. Damaged' = Damaged /\ Older' = Older
      <3>1. saving # Torn
        BY <2>1
      <3> QED BY <2>1, <3>1 DEF Damaged, Older, Valid
    <2> QED
      BY <2>1, <2>2, <2>3, <2>4 DEF Document!Next, Document!Commit, Older, Damaged
  <1>6. CASE SyncDirectory
    <2>1. /\ primary = saving /\ saving \in Stored /\ saving' = LostDocument
          /\ UNCHANGED <<primary, backup>> /\ entries' = {<<primary, backup>>}
      BY <1>6 DEF SyncDirectory
    <2>2. Loaded = saving /\ Loaded' = saving
      BY <2>1 DEF Loaded, Valid
    <2>3. PossibleAfterCrash' = {saving}
      BY <2>1 DEF PossibleAfterCrash, Valid
    <2>4. Damaged' = FALSE /\ Older' = Older
      BY <2>1 DEF Damaged, Older, Valid
    <2> QED
      BY <2>1, <2>2, <2>3, <2>4 DEF Document!Next, Document!Acknowledge, Older, Damaged
  <1>7. CASE WriteFails
    <2>1. /\ saving # LostDocument /\ saving' = LostDocument
          /\ UNCHANGED <<primary, backup, entries>>
      BY <1>7 DEF WriteFails
    <2>2. UNCHANGED <<Loaded, PossibleAfterCrash, Older, Damaged>>
      BY <2>1 DEF Loaded, PossibleAfterCrash, Valid, Older, Damaged
    <2> QED BY <2>1, <2>2 DEF Document!Next, Document!Fail, Older, Damaged
  <1>8. CASE Crash
    <2>1. PICK e \in entries : /\ primary' = e[1] /\ backup' = e[2] /\ entries' = {e}
                              /\ saving' = LostDocument
      BY <1>8 DEF Crash
    <2>2. Loaded' = Value(e) /\ Value(e) \in PossibleAfterCrash
      BY <2>1, Mapping DEF Loaded, Value, Valid
    <2>3. PossibleAfterCrash' = {Loaded'}
      <3>1. {Value(f) : f \in entries'} = {Value(e)}
        BY <2>1
      <3> QED BY <2>2, <3>1 DEF PossibleAfterCrash, Value
    <2>4. Older' \in {Older, LostDocument}
      BY <2>1 DEF Older, Valid
    <2>5. Damaged' \in BOOLEAN
      BY DEF Damaged
    <2> QED
      BY <2>1, <2>2, <2>3, <2>4, <2>5 DEF Document!Next, Document!Crash, Older, Damaged
  <1>9. CASE DamageFile
    <2>1. /\ saving = LostDocument /\ saving' = saving /\ backup' = backup /\ primary' = Torn
          /\ entries' = {<<Torn, backup>>}
      BY <1>9 DEF DamageFile
    <2>2. Loaded' = Older /\ Older' = Older
      BY <2>1 DEF Loaded, Valid, Older
    <2>3. PossibleAfterCrash' = {Loaded'}
      BY <2>1 DEF PossibleAfterCrash, Loaded, Valid
    <2>4. Damaged' = TRUE
      BY <2>1 DEF Damaged
    <2> QED
      BY <2>1, <2>2, <2>3, <2>4 DEF Document!Next, Document!Damage, Older, Damaged
  <1>10. CASE UNCHANGED jsonVars
    <2>1. UNCHANGED <<primary, backup, entries, saving>>
      BY <1>10 DEF jsonVars
    <2>2. UNCHANGED <<Loaded, PossibleAfterCrash, Older, Damaged>>
      BY <2>1 DEF Loaded, PossibleAfterCrash, Valid, Older, Damaged
    <2> QED BY <2>1, <2>2 DEF Document!documentVars, Older, Damaged
  <1> QED BY <1>1, <1>2, <1>3, <1>4, <1>5, <1>6, <1>7, <1>8, <1>9, <1>10 DEF JsonNext

(* At the start there is no file, and the document is its default. *)
LEMMA JsonInitImplements ==
    ASSUME JsonInit
    PROVE  JsonInv /\ Document!Init
  <1> USE Contents DEF JsonInit
  <1>1. JsonInv
    BY DEF JsonInv, JsonTypeOK, FileContents
  <1>2. Loaded = Empty /\ PossibleAfterCrash = {Empty}
    BY DEF Loaded, PossibleAfterCrash
  <1>3. Older = LostDocument /\ ~Damaged
    BY DEF Older, Valid, Damaged
  <1> QED BY <1>1, <1>2, <1>3 DEF Document!Init, Older, Damaged

(* Every variable of the document's files keeps its type, and the files agree with what
   the process was doing (write_json_internal). *)
THEOREM JsonInvariant == JsonSpec => []JsonInv
  <1>1. JsonInit => JsonInv
    BY JsonInitImplements
  <1>2. JsonInv /\ [JsonNext]_jsonVars => JsonInv'
    BY JsonInvStep
  <1> QED BY <1>1, <1>2, PTL DEF JsonSpec

(* A crash between any two calls, a failed call and a damaged file cost no acknowledged
   write but the damaged one: the files implement the document (write_json,
   load_json_recovering). *)
THEOREM JsonImplementsDocument == JsonSpec => DocumentImplemented
  <1>1. JsonInit => Document!Init
    BY JsonInitImplements
  <1>2. JsonInv /\ JsonInv' /\ [JsonNext]_jsonVars => [Document!Next]_(Document!documentVars)
    BY JsonStepImplements
  <1> QED BY <1>1, <1>2, JsonInvariant, PTL DEF JsonSpec, DocumentImplemented, Document!Spec

-----------------------------------------------------------------------------
(* --------------------------- records of launches ------------------------- *)

(* What the stores, the tasks and the commands hold. *)
Outcomes == Unusable \union {NoOutcome, "userStop", "cleanExit", "abnormalControllerExit", "processEnded"}
LaunchStates ==
    [phase: {"idle", "running", "exited", "gone"}, process: Nat, alive: BOOLEAN, stop: BOOLEAN]
StoreTasks == [launch: Launches, kind: {"started", "finished", "both"}, outcome: Outcomes]
ObservationFiles == [state: {"Started", "Finished"}, at: Nat, game: {0, 1}, outcome: Outcomes]
RunFiles ==
    [state: {"Attached", "Capturing", "CaptureFinished", "SamplesImported", "Invalid"},
     client: Launches, process: Nat, arm: {"a", "b"}, key: Keys, at: Nat, linked: Outcomes,
     samples: SampleFiles \union {NoSamples}, visual: {"Pending"} \union Verdicts,
     began: BOOLEAN, judged: SampleFiles \union {NoSamples}]
StartCommands == [op: {"start"}, run: RunIds, client: Launches, process: Nat]
AttachCommands == [op: {"attach"}, run: RunIds, record: RunFiles]
CaptureCommands == [op: {"begin", "finish"}, run: RunIds, process: Nat, capturing: BOOLEAN]

RecordTypes ==
    /\ launched \in [Launches -> LaunchStates]
    /\ tasks \subseteq StoreTasks
    /\ observations \in [Launches -> ObservationFiles \union {Absent}]
    /\ runs \in [RunIds -> RunFiles \union {Absent}]
    /\ commands \subseteq StartCommands \union AttachCommands \union CaptureCommands
    /\ stamps \in [observations: Nat, runs: Nat]
    /\ nextRun \in Nat \ {0}

(* A launch has one task at a time: the start while it runs, what closes it afterwards; an
   observation that is open after its launch has a task to close it, or lost a write. *)
TaskFits(t) ==
    IF t.kind = "started" THEN t.outcome = NoOutcome /\ launched[t.launch].phase = "running"
    ELSE t.outcome # NoOutcome /\ launched[t.launch].phase \in {"exited", "gone"}
Pending(l) == \E t \in tasks : t.launch = l
ObservationFits(l) ==
    LET file == observations[l]
    IN  /\ file.state = "Started" => launched[l].phase \in {"idle", "running"} \/ l \in unwritten \/ Pending(l)
        /\ file.state = "Finished" => launched[l].phase \in {"exited", "gone"}
        /\ file # Absent => (file.state = "Finished" <=> file.outcome # NoOutcome)
TaskInv ==
    /\ \A t \in tasks : TaskFits(t)
    /\ \A t, u \in tasks : t.launch = u.launch => t = u
    /\ \A l \in Launches : ObservationFits(l)
    /\ \A l \in Launches : launched[l].phase = "idle" => launched[l].process = 0 /\ ~launched[l].alive

(* A run is of a process its client has or had. A capture began while it lived, or the process
   is gone for good; a verdict is about the samples there are. *)
LivesIn(run, clients) == clients[run.client].alive /\ clients[run.client].process = run.process
RunFits(run, clients) ==
    /\ run.process <= clients[run.client].process
    /\ Open(run) \/ run.state = "Invalid" => run.visual = "Pending"
    /\ run.visual # "Pending" => run.judged = run.samples
    /\ run.state = "SamplesImported" => run.samples # NoSamples
    /\ Captured(run) => run.began
    /\ run.state = "Capturing" /\ ~run.began => ~LivesIn(run, clients)

(* A command that will attach a run is the only one of it. One that read a capture in progress,
   on the process of the run, read it while that process lived. *)
CommandFits(c) ==
    /\ c.run < nextRun
    /\ c.op = "start" => c.process <= launched[c.client].process
    /\ c.op = "attach" => c.record.state \in {"Attached", "Invalid"} /\ RunFits(c.record, launched)
    /\ c.op \in {"start", "attach"} => runs[c.run] = Absent /\ \A d \in commands : d.run = c.run => d = c
    /\ c.op = "finish" /\ c.capturing =>
          /\ runs[c.run].state # "Attached"
          /\ runs[c.run].state = "Capturing" /\ runs[c.run].process = c.process => runs[c.run].began
RunInv ==
    /\ \A r \in RunIds : runs[r] # Absent => r < nextRun /\ RunFits(runs[r], launched)
    /\ \A c \in commands : CommandFits(c)
    /\ OneCapturePerClient

RecordsInv == RecordTypes /\ TaskInv /\ RunInv

(* Pruning keeps a file as it is, or removes it. *)
LEMMA PruneRemoves ==
    ASSUME NEW store, NEW ids, NEW keep, NEW limit, NEW now, NEW kept,
           kept = prune(store, ids, keep, limit, now)
    PROVE  /\ kept = [i \in ids |-> kept[i]]
           /\ \A i \in ids : kept[i] \in {store[i], Absent}
  BY DEF prune

(* An absent file is no record of either store. *)
LEMMA AbsentApart ==
    /\ Absent.state = "Absent"
    /\ Absent \notin ObservationFiles /\ Absent \notin RunFiles
    /\ ~Open(Absent) /\ ~Captured(Absent)
  <1>1. Absent.state = "Absent"
    BY DEF Absent
  <1> QED BY <1>1 DEF ObservationFiles, RunFiles, Open, Captured

(* The invariant holds at first. *)
LEMMA RecordsInitInv == RecordsInit => RecordsInv
  <1> SUFFICES ASSUME RecordsInit PROVE RecordsInv
    OBVIOUS
  <1>1. RecordTypes
    BY StartsAssumption DEF RecordsInit, RecordTypes, LaunchStates
  <1>2. TaskInv
    BY AbsentApart DEF RecordsInit, TaskInv, ObservationFits
  <1>3. RunInv
    BY AbsentApart DEF RecordsInit, RunInv, OneCapturePerClient
  <1> QED BY <1>1, <1>2, <1>3 DEF RecordsInv

(* What the invariant says gives the property. *)
LEMMA RecordsInvSound == RecordsInv => RecordsAreSound
  <1> SUFFICES ASSUME RecordsInv PROVE RecordsAreSound
    OBVIOUS
  <1> USE DEF RecordsInv
  <1>1. OneCapturePerClient
    BY DEF RunInv
  <1>2. RunsAreHonest
    <2>1. \A r \in RunIds : Captured(runs[r]) \/ runs[r] # Absent => RunFits(runs[r], launched)
      BY AbsentApart DEF RunInv
    <2>2. ASSUME NEW left \in SUBSET RunIds, NEW right \in SUBSET RunIds,
                 ComparisonPasses(left, right), NEW r \in left \union right
          PROVE  runs[r].judged # NoSamples /\ runs[r].began
      <3>1. runs[r] # Absent /\ runs[r].state = "SamplesImported" /\ runs[r].visual # "Pending"
        BY <2>2 DEF ComparisonPasses, ArmPasses, Comparable
      <3>2. r \in RunIds
        BY <2>2
      <3> QED BY <2>1, <3>1, <3>2 DEF RunFits, Captured
    <2>3. ASSUME NEW r \in RunIds
          PROVE  /\ Captured(runs[r]) => runs[r].began
                 /\ runs[r] # Absent /\ runs[r].state = "Invalid" => runs[r].visual = "Pending"
                 /\ runs[r] # Absent /\ runs[r].visual # "Pending" => runs[r].judged = runs[r].samples
      BY <2>1 DEF RunFits
    <2> QED BY <2>2, <2>3 DEF RunsAreHonest
  <1>3. ObservationsClose
    <2> SUFFICES ASSUME NEW l \in Launches, observations[l] # Absent
                 PROVE  /\ (launched[l].phase = "gone" /\ l \notin unwritten /\ \A t \in tasks : t.launch # l)
                              => observations[l].state = "Finished"
                        /\ observations[l].state = "Finished" => launched[l].phase \in {"exited", "gone"}
                        /\ observations[l].state = "Finished" <=> observations[l].outcome # NoOutcome
      BY DEF ObservationsClose
    <2>1. observations[l].state \in {"Started", "Finished"}
      BY DEF RecordTypes, ObservationFiles
    <2> QED BY <2>1 DEF TaskInv, ObservationFits, Pending
  <1> QED BY <1>1, <1>2, <1>3 DEF RecordsAreSound

(* -------------------------- launches and their tasks --------------------- *)

(* A process that is gone does not come back: a later one has a larger number. *)
NoProcessReturns ==
    \A l \in Launches : /\ launched[l].process <= launched'[l].process
                        /\ launched[l].process = launched'[l].process /\ launched'[l].alive => launched[l].alive

(* One task of a launch that has none is added, or none. *)
LEMMA LaunchMoves ==
    ASSUME RecordsInv, NEW l \in Launches, NEW s \in LaunchStates,
           launched' = [launched EXCEPT ![l] = s],
           UNCHANGED <<observations, unwritten>>,
           \/ /\ tasks' = tasks /\ s.phase = launched[l].phase /\ s.phase # "idle"
           \/ /\ tasks' = tasks /\ launched[l].phase = "exited" /\ s.phase = "gone"
           \/ /\ ~Pending(l) /\ \E t \in StoreTasks : t.launch = l /\ tasks' = tasks \union {t} /\ TaskFits(t)'
              /\ \/ launched[l].phase = "idle"
                 \/ launched[l].phase = "running" /\ s.phase = "exited"
              /\ s.phase # "idle"
    PROVE  TaskInv' /\ tasks' \subseteq StoreTasks /\ launched' \in [Launches -> LaunchStates]
  <1> USE DEF RecordsInv
  <1>1. /\ launched' \in [Launches -> LaunchStates] /\ launched'[l] = s
        /\ \A k \in Launches : k # l => launched'[k] = launched[k]
    BY DEF RecordTypes
  <1>2. tasks' \subseteq StoreTasks
    BY DEF RecordTypes
  <1>3. \A t \in tasks' : TaskFits(t)'
    <2> SUFFICES ASSUME NEW t \in tasks,
                        t.launch = l => s.phase = launched[l].phase \/ (s.phase = "gone" /\ launched[l].phase = "exited")
                 PROVE  TaskFits(t)'
      BY DEF Pending
    <2>1. t.launch \in Launches /\ TaskFits(t)
      BY DEF RecordTypes, StoreTasks, TaskInv
    <2> QED BY <1>1, <2>1 DEF TaskFits
  <1>4. \A t, u \in tasks' : t.launch = u.launch => t = u
    BY DEF Pending, TaskInv
  <1>5. \A k \in Launches : ObservationFits(k)'
    <2> SUFFICES ASSUME NEW k \in Launches PROVE ObservationFits(k)'
      OBVIOUS
    <2>1. Pending(k) => Pending(k)'
      BY DEF Pending
    <2>2. CASE k # l
      BY <1>1, <2>1, <2>2 DEF TaskInv, ObservationFits
    <2>3. CASE k = l
      <3>1. ObservationFits(l)
        BY DEF TaskInv
      <3>2. tasks' # tasks => Pending(l)'
        BY DEF Pending
      <3>3. tasks' = tasks => s.phase = launched[l].phase \/ (s.phase = "gone" /\ launched[l].phase = "exited")
        BY DEF Pending
      <3> QED BY <1>1, <2>1, <2>3, <3>1, <3>2, <3>3 DEF ObservationFits
    <2> QED BY <2>2, <2>3
  <1>6. \A k \in Launches : launched'[k].phase = "idle" => launched'[k].process = 0 /\ ~launched'[k].alive
    BY <1>1 DEF TaskInv
  <1> QED BY <1>1, <1>2, <1>3, <1>4, <1>5, <1>6 DEF TaskInv

(* One launch moves, and its process does not come back. *)
LEMMA OneReturns ==
    ASSUME RecordTypes, NEW l \in Launches, NEW s, launched' = [launched EXCEPT ![l] = s],
           launched[l].process <= s.process,
           launched[l].process = s.process /\ s.alive => launched[l].alive
    PROVE  NoProcessReturns
  <1>1. launched'[l] = s /\ \A k \in Launches : k # l => launched'[k] = launched[k]
    BY DEF RecordTypes
  <1>2. \A k \in Launches : launched[k].process \in Nat
    BY DEF RecordTypes, LaunchStates
  <1> QED BY <1>1, <1>2 DEF NoProcessReturns

(* The outcome a task closes with is one the code knows, and never none. *)
LEMMA OutcomeKnown ==
    ASSUME NEW reached, NEW stop, NEW timeout, NEW exit
    PROVE  Outcome(reached, stop, timeout, exit) \in Outcomes \ {NoOutcome}
  BY DEF Outcome, Outcomes, Unusable, NoOutcome

(* Every move of a launch and its client is one of those, and brings no process back. *)
LEMMA LaunchKeepsTasks ==
    ASSUME RecordsInv, NEW l \in Launches,
           \/ Reached(l) \/ Unreached(l) \/ Dies(l) \/ request_stop(l) \/ Handoff(l)
           \/ ExitTask(l) \/ Unlisted(l)
    PROVE  /\ TaskInv' /\ tasks' \subseteq StoreTasks /\ launched' \in [Launches -> LaunchStates]
           /\ UNCHANGED <<observations, runs, commands, stamps, nextRun>> /\ NoProcessReturns
  <1>0. /\ launched[l] \in LaunchStates /\ DOMAIN launched = Launches /\ RecordTypes
        /\ launched[l].process \in Nat /\ launched[l].alive \in BOOLEAN /\ launched[l].stop \in BOOLEAN
        /\ launched[l].phase = "idle" => launched[l].process = 0 /\ ~launched[l].alive /\ ~Pending(l)
    BY DEF RecordsInv, RecordTypes, LaunchStates, TaskInv, TaskFits, Pending
  <1>1. CASE Reached(l)
    <2> DEFINE s == [phase |-> "running", process |-> 1, alive |-> TRUE, stop |-> FALSE]
               t == Task(l, "started", NoOutcome)
    <2>1. launched' = [launched EXCEPT ![l] = s] /\ s \in LaunchStates
      BY <1>1 DEF Reached, LaunchStates
    <2>2. t \in StoreTasks /\ t.launch = l /\ TaskFits(t)'
      BY <1>0, <2>1 DEF Task, StoreTasks, Outcomes, TaskFits
    <2>3. /\ tasks' = tasks \union {t} /\ launched[l].phase = "idle" /\ s.phase # "idle"
          /\ UNCHANGED <<observations, unwritten, runs, commands, stamps, nextRun>>
      BY <1>1 DEF Reached
    <2>4. launched[l].process <= s.process /\ (launched[l].process = s.process /\ s.alive => launched[l].alive)
      BY <1>0, <2>3
    <2> HIDE DEF s, t
    <2> QED BY <1>0, <2>1, <2>2, <2>3, <2>4, LaunchMoves, OneReturns
  <1>2. CASE Unreached(l)
    <2> DEFINE s == [launched[l] EXCEPT !.phase = "gone"]
    <2>1. /\ launched' = [launched EXCEPT ![l] = s] /\ s \in LaunchStates /\ s.phase = "gone"
          /\ s.process = launched[l].process /\ s.alive = launched[l].alive
      BY <1>0, <1>2 DEF Unreached, LaunchStates
    <2>2. PICK stop, timeout \in BOOLEAN :
             tasks' = tasks \union {Task(l, "both", Outcome(FALSE, stop, timeout, "unknown"))}
      BY <1>2 DEF Unreached
    <2> DEFINE oc == Outcome(FALSE, stop, timeout, "unknown")
               t == Task(l, "both", oc)
    <2>3. oc \in Outcomes \ {NoOutcome} /\ tasks' = tasks \union {t}
      BY <2>2, OutcomeKnown
    <2> HIDE DEF oc, s
    <2>4. t \in StoreTasks /\ t.launch = l /\ TaskFits(t)'
      BY <1>0, <2>1, <2>3 DEF Task, StoreTasks, TaskFits
    <2>5. launched[l].phase = "idle" /\ UNCHANGED <<observations, unwritten, runs, commands, stamps, nextRun>>
      BY <1>2 DEF Unreached
    <2>6. launched[l].process <= s.process
      BY <1>0, <2>1
    <2> HIDE DEF t
    <2> QED BY <1>0, <2>1, <2>3, <2>4, <2>5, <2>6, LaunchMoves, OneReturns
  <1>3. CASE Dies(l) \/ request_stop(l) \/ Handoff(l)
    <2>1. PICK s \in LaunchStates :
             /\ launched' = [launched EXCEPT ![l] = s] /\ s.phase = launched[l].phase
             /\ launched[l].process <= s.process
             /\ launched[l].process = s.process /\ s.alive => launched[l].alive
      <3>1. CASE Dies(l)
        <4> DEFINE s == [launched[l] EXCEPT !.alive = FALSE]
        <4>1. launched' = [launched EXCEPT ![l] = s]
          BY <3>1 DEF Dies
        <4>2. s \in LaunchStates
          BY <1>0 DEF LaunchStates
        <4>3. s.phase = launched[l].phase /\ s.process = launched[l].process /\ ~s.alive
          BY <1>0 DEF LaunchStates
        <4> HIDE DEF s
        <4>4. launched[l].process <= s.process /\ (s.alive => launched[l].alive)
          BY <1>0, <4>3
        <4> QED BY <4>1, <4>2, <4>3, <4>4
      <3>2. CASE request_stop(l)
        <4> DEFINE s == [launched[l] EXCEPT !.stop = TRUE]
        <4>1. launched' = [launched EXCEPT ![l] = s]
          BY <3>2 DEF request_stop
        <4>2. s \in LaunchStates
          BY <1>0 DEF LaunchStates
        <4>3. s.phase = launched[l].phase /\ s.process = launched[l].process /\ s.alive = launched[l].alive
          BY <1>0 DEF LaunchStates
        <4> HIDE DEF s
        <4>4. launched[l].process <= s.process /\ (s.alive => launched[l].alive)
          BY <1>0, <4>3
        <4> QED BY <4>1, <4>2, <4>3, <4>4
      <3>3. CASE Handoff(l)
        <4> DEFINE s == [launched[l] EXCEPT !.process = @ + 1, !.alive = TRUE]
        <4>1. launched' = [launched EXCEPT ![l] = s] /\ s \in LaunchStates /\ s.phase = launched[l].phase
              /\ s.process = launched[l].process + 1
          BY <1>0, <3>3 DEF Handoff, LaunchStates
        <4>2. launched[l].process <= s.process /\ launched[l].process # s.process
          BY <1>0, <4>1
        <4> QED BY <4>1, <4>2
      <3> QED BY <1>3, <3>1, <3>2, <3>3
    <2>2. launched[l].phase # "idle" /\ UNCHANGED <<tasks, observations, unwritten, runs, commands, stamps, nextRun>>
      BY <1>0, <1>3 DEF Dies, request_stop, Handoff
    <2> QED BY <1>0, <2>1, <2>2, LaunchMoves, OneReturns
  <1>4. CASE ExitTask(l)
    <2> DEFINE s == [launched[l] EXCEPT !.phase = "exited"]
    <2>1. /\ launched' = [launched EXCEPT ![l] = s] /\ s \in LaunchStates /\ s.phase = "exited"
          /\ s.process = launched[l].process /\ s.alive = launched[l].alive
      BY <1>0, <1>4 DEF ExitTask, LaunchStates
    <2>2. PICK exit \in ExitKinds :
             tasks' = tasks \union {Task(l, "finished", Outcome(TRUE, launched[l].stop, FALSE, exit))}
      BY <1>4 DEF ExitTask
    <2> DEFINE oc == Outcome(TRUE, launched[l].stop, FALSE, exit)
               t == Task(l, "finished", oc)
    <2>3. oc \in Outcomes \ {NoOutcome}
      BY OutcomeKnown
    <2>31. PICK task \in StoreTasks : task = t
      BY <2>3 DEF Task, StoreTasks
    <2>41. task.launch = l /\ task.kind = "finished" /\ task.outcome # NoOutcome
           /\ tasks' = tasks \union {task}
      BY <2>2, <2>3, <2>31 DEF Task
    <2> HIDE DEF s
    <2>42. launched'[l].phase = "exited"
      BY <1>0, <2>1
    <2>4. TaskFits(task)'
      BY <2>41, <2>42 DEF TaskFits
    <2>5. ~Pending(l)
      <3> SUFFICES ASSUME NEW u \in tasks, u.launch = l PROVE FALSE
        BY DEF Pending
      <3>1. TaskFits(u) /\ u \in StoreTasks
        BY DEF RecordsInv, RecordTypes, TaskInv
      <3>2. u.kind = "started" /\ u.outcome = NoOutcome
        BY <1>4, <3>1 DEF ExitTask, TaskFits, StoreTasks
      <3>3. u = Task(l, "started", NoOutcome)
        BY <3>1, <3>2 DEF Task, StoreTasks
      <3> QED BY <1>4, <3>3 DEF ExitTask, StartWritten
    <2>6. launched[l].phase = "running" /\ UNCHANGED <<observations, unwritten, runs, commands, stamps, nextRun>>
      BY <1>4 DEF ExitTask
    <2>7. launched[l].process <= s.process
      BY <1>0, <2>1
    <2> QED BY <1>0, <2>1, <2>4, <2>41, <2>5, <2>6, <2>7, LaunchMoves, OneReturns
  <1>5. CASE Unlisted(l)
    <2> DEFINE s == [launched[l] EXCEPT !.phase = "gone"]
    <2>1. /\ launched' = [launched EXCEPT ![l] = s] /\ s \in LaunchStates /\ s.phase = "gone"
          /\ s.process = launched[l].process /\ s.alive = launched[l].alive
      BY <1>0, <1>5 DEF Unlisted, LaunchStates
    <2>2. launched[l].phase = "exited" /\ UNCHANGED <<tasks, observations, unwritten, runs, commands, stamps, nextRun>>
      BY <1>5 DEF Unlisted
    <2>3. launched[l].process <= s.process
      BY <1>0, <2>1
    <2> HIDE DEF s
    <2> QED BY <1>0, <2>1, <2>2, <2>3, LaunchMoves, OneReturns
  <1> QED BY <1>1, <1>2, <1>3, <1>4, <1>5

(* So what is known of the runs and of the commands stays true. *)
LEMMA LaunchKeepsRuns ==
    ASSUME RecordsInv, NoProcessReturns, launched' \in [Launches -> LaunchStates],
           UNCHANGED <<runs, commands, nextRun>>
    PROVE  RunInv'
  <1> USE DEF RecordsInv
  <1>1. ASSUME NEW run \in RunFiles, RunFits(run, launched)
        PROVE  RunFits(run, launched') /\ (LivesIn(run, launched') => LivesIn(run, launched))
    <2>1. run.client \in Launches /\ run.process \in Nat /\ launched[run.client].process \in Nat
          /\ launched'[run.client].process \in Nat
      BY DEF RunFiles, RecordTypes, LaunchStates
    <2>2. LivesIn(run, launched') => LivesIn(run, launched)
      BY <1>1, <2>1 DEF NoProcessReturns, RunFits, LivesIn
    <2> QED BY <1>1, <2>1, <2>2 DEF NoProcessReturns, RunFits
  <1>2. ASSUME NEW r \in RunIds, runs[r] # Absent
        PROVE  /\ r < nextRun /\ RunFits(runs[r], launched')
               /\ (LivesIn(runs[r], launched') => LivesIn(runs[r], launched))
    BY <1>1, <1>2 DEF RecordTypes, RunInv
  <1>3. ASSUME NEW c \in commands PROVE CommandFits(c)'
    <2>1. CommandFits(c)
      BY DEF RunInv
    <2>2. c.op = "start" => c.process <= launched'[c.client].process
      <3> SUFFICES ASSUME c.op = "start" PROVE c.process <= launched'[c.client].process
        OBVIOUS
      <3>1. c \in StartCommands
        BY DEF RecordTypes, AttachCommands, CaptureCommands
      <3>2. c.client \in Launches /\ c.process \in Nat /\ launched[c.client].process \in Nat
            /\ launched'[c.client].process \in Nat
        BY <3>1 DEF StartCommands, RecordTypes, LaunchStates
      <3> QED BY <2>1, <3>2 DEF CommandFits, NoProcessReturns
    <2>3. c.op = "attach" => RunFits(c.record, launched')
      <3> SUFFICES ASSUME c.op = "attach" PROVE RunFits(c.record, launched')
        OBVIOUS
      <3>1. c.record \in RunFiles
        BY DEF RecordTypes, StartCommands, AttachCommands, CaptureCommands
      <3> QED BY <1>1, <2>1, <3>1 DEF CommandFits
    <2> QED BY <2>1, <2>2, <2>3 DEF CommandFits
  <1>4. OneCapturePerClient'
    <2>1. \A r \in RunIds : Open(runs[r]) => runs[r] # Absent
      BY AbsentApart
    <2> QED BY <1>2, <2>1 DEF RunInv, OneCapturePerClient, Lives, LivesIn, Open
  <1> QED BY <1>2, <1>3, <1>4 DEF RunInv

(* The tasks write the file of their launch and prune the others. *)
LEMMA TaskWrites ==
    ASSUME RecordsInv, NEW t \in tasks,
           PersistStarted(t) \/ PersistFinished(t) \/ PersistFails(t)
    PROVE  TaskInv' /\ tasks' \subseteq StoreTasks /\ UNCHANGED <<launched, runs, commands, nextRun>>
           /\ observations' \in [Launches -> ObservationFiles \union {Absent}]
           /\ stamps' \in [observations: Nat, runs: Nat]
  <1> USE DEF RecordsInv
  <1>0. /\ t \in StoreTasks /\ t.launch \in Launches /\ t.outcome \in Outcomes /\ TaskFits(t)
        /\ stamps.observations \in Nat /\ stamps.runs \in Nat
        /\ \A u \in tasks : u.launch = t.launch => u = t
        /\ \A l \in Launches : /\ ObservationFits(l) /\ observations[l] \in ObservationFiles \union {Absent}
    BY DEF RecordTypes, TaskInv, StoreTasks
  <1>1. CASE PersistStarted(t)
    <2> DEFINE file == [state |-> "Started", at |-> stamps.observations,
                        game |-> IF t.kind = "both" THEN 0 ELSE 1, outcome |-> NoOutcome]
               written == [observations EXCEPT ![t.launch] = file]
               next == [t EXCEPT !.kind = "finished"]
    <2>1. /\ file \in ObservationFiles /\ file.state = "Started" /\ file.outcome = NoOutcome
      BY <1>0 DEF ObservationFiles, Outcomes
    <2>2. /\ observations' = [l \in Launches |-> observations'[l]]
          /\ \A l \in Launches : observations'[l] \in {written[l], Absent}
      <3>1. observations' = prune(written, Launches, t.launch, ObservationLimit, stamps.observations)
        BY <1>1 DEF PersistStarted
      <3> HIDE DEF written
      <3> QED BY <3>1, PruneRemoves
    <2>3. \A l \in Launches : written[l] = IF l = t.launch THEN file ELSE observations[l]
      BY <1>0 DEF RecordTypes
    <2>4. next \in StoreTasks /\ next.launch = t.launch /\ next.outcome = t.outcome /\ next.kind = "finished"
      BY <1>0 DEF StoreTasks
    <2>5. tasks' = (tasks \ {t}) \union (IF t.kind = "both" THEN {next} ELSE {})
          /\ t.kind \in {"started", "both"}
          /\ UNCHANGED <<launched, runs, commands, nextRun, unwritten>>
      BY <1>1 DEF PersistStarted
    <2>6. \A u \in tasks' : TaskFits(u)'
      BY <1>0, <2>4, <2>5 DEF TaskInv, TaskFits
    <2>7. \A u, v \in tasks' : u.launch = v.launch => u = v
      BY <1>0, <2>4, <2>5 DEF TaskInv
    <2>8. ASSUME NEW l \in Launches PROVE ObservationFits(l)'
      <3>1. CASE observations'[l] = Absent
        BY <3>1, AbsentApart DEF ObservationFits
      <3>2. CASE l # t.launch /\ observations'[l] = observations[l]
        <4>1. Pending(l) => Pending(l)'
          BY <2>5, <3>2 DEF Pending
        <4> QED BY <1>0, <2>5, <3>2, <4>1 DEF ObservationFits
      <3>3. CASE l = t.launch /\ observations'[l] = file
        <4>1. launched[l].phase = "running" \/ Pending(l)'
          BY <1>0, <2>4, <2>5, <3>3 DEF TaskFits, Pending
        <4> QED BY <2>1, <2>5, <3>3, <4>1 DEF ObservationFits
      <3> QED BY <2>2, <2>3, <3>1, <3>2, <3>3
    <2>9. /\ observations' \in [Launches -> ObservationFiles \union {Absent}]
          /\ stamps' \in [observations: Nat, runs: Nat]
      <3>1. \A l \in Launches : observations'[l] \in ObservationFiles \union {Absent}
        BY <1>0, <2>1, <2>2, <2>3
      <3>2. stamps' \in [observations: Nat, runs: Nat]
        BY <1>1 DEF PersistStarted, RecordTypes
      <3> QED BY <2>2, <3>1, <3>2
    <2>10. tasks' \subseteq StoreTasks
      BY <2>4, <2>5 DEF RecordTypes
    <2> QED BY <2>5, <2>6, <2>7, <2>8, <2>9, <2>10 DEF TaskInv
  <1>2. CASE PersistFinished(t)
    <2> DEFINE record == observations[t.launch]
               file == [record EXCEPT !.state = "Finished", !.outcome = t.outcome]
               written == [observations EXCEPT ![t.launch] = file]
    <2>1. record.state = "Started" => file \in ObservationFiles /\ file.state = "Finished" /\ file.outcome = t.outcome
      BY <1>0, AbsentApart DEF ObservationFiles
    <2>2. /\ observations' = [l \in Launches |-> observations'[l]]
          /\ \A l \in Launches :
                \/ observations'[l] = Absent
                \/ observations'[l] = IF l = t.launch /\ record.state = "Started" THEN file
                                      ELSE observations[l]
      <3>1. CASE record.state = "Started"
        <4>1. observations' = prune(written, Launches, t.launch, ObservationLimit, stamps.observations)
          BY <1>2, <3>1 DEF PersistFinished
        <4>2. \A l \in Launches : written[l] = IF l = t.launch THEN file ELSE observations[l]
          BY <1>0 DEF RecordTypes
        <4> HIDE DEF written
        <4>3. /\ observations' = [l \in Launches |-> observations'[l]]
              /\ \A l \in Launches : observations'[l] \in {written[l], Absent}
          BY <4>1, PruneRemoves
        <4> HIDE DEF file, record
        <4> QED BY <3>1, <4>2, <4>3
      <3>2. CASE record.state # "Started"
        BY <1>2, <3>2 DEF PersistFinished, RecordTypes
      <3> QED BY <3>1, <3>2
    <2>3. tasks' = tasks \ {t} /\ t.kind = "finished" /\ stamps' = stamps
          /\ UNCHANGED <<launched, runs, commands, nextRun, unwritten>>
      BY <1>2 DEF PersistFinished
    <2>4. ASSUME NEW l \in Launches PROVE ObservationFits(l)'
      <3>1. CASE observations'[l] = Absent
        BY <3>1, AbsentApart DEF ObservationFits
      <3>2. CASE l # t.launch /\ observations'[l] = observations[l]
        <4>1. Pending(l) => Pending(l)'
          BY <2>3, <3>2 DEF Pending
        <4> QED BY <1>0, <2>3, <3>2, <4>1 DEF ObservationFits
      <3>3. CASE l = t.launch /\ record.state = "Started" /\ observations'[l] = file
        BY <1>0, <2>1, <2>3, <3>3 DEF ObservationFits, TaskFits
      <3>4. CASE l = t.launch /\ record.state # "Started" /\ observations'[l] = observations[l]
        BY <1>0, <2>3, <3>4 DEF ObservationFits
      <3> QED BY <2>2, <3>1, <3>2, <3>3, <3>4
    <2>5. \A l \in Launches : observations'[l] \in ObservationFiles \union {Absent}
      BY <1>0, <2>1, <2>2
    <2> HIDE DEF file, record
    <2>6. observations' \in [Launches -> ObservationFiles \union {Absent}]
      BY <2>2, <2>5
    <2>7. \A u \in tasks' : TaskFits(u)'
      BY <2>3 DEF TaskInv, TaskFits
    <2>8. TaskInv'
      BY <2>3, <2>4, <2>7 DEF TaskInv
    <2> QED BY <2>3, <2>6, <2>8 DEF RecordTypes
  <1>3. CASE PersistFails(t)
    <2>1. tasks' = tasks \ {t} /\ unwritten' = unwritten \union {t.launch}
          /\ UNCHANGED <<launched, observations, runs, commands, stamps, nextRun>>
      BY <1>3 DEF PersistFails
    <2>2. ASSUME NEW l \in Launches PROVE ObservationFits(l)'
      <3>1. Pending(l) => Pending(l)' \/ l \in unwritten'
        BY <2>1 DEF Pending
      <3> QED BY <1>0, <2>1, <3>1 DEF ObservationFits
    <2> QED BY <2>1, <2>2 DEF TaskInv, TaskFits, RecordTypes
  <1> QED BY <1>1, <1>2, <1>3

(* ------------------------------ benchmark runs --------------------------- *)

(* The commands under the lock replace runs one by one: a run goes, stays, or moves on with its
   client and its process. *)
Moved(old, new) ==
    /\ new \in RunFiles /\ RunFits(new, launched)
    /\ new.client = old.client /\ new.process = old.process
    /\ Open(new) => Open(old)
    /\ new.state = "Attached" => old.state = "Attached"
    /\ new.state = "Capturing" => old.state = "Attached" \/ (old.state = "Capturing" /\ new.began = old.began)
LEMMA RunsMove ==
    ASSUME RecordsInv, UNCHANGED <<launched, nextRun>>, commands' \subseteq commands,
           runs' = [r \in RunIds |-> runs'[r]],
           \A r \in RunIds : \/ runs'[r] \in {runs[r], Absent}
                             \/ runs[r] # Absent /\ Moved(runs[r], runs'[r])
    PROVE  RunInv' /\ runs' \in [RunIds -> RunFiles \union {Absent}]
  <1> USE DEF RecordsInv
  <1>1. ASSUME NEW r \in RunIds, runs'[r] # Absent
        PROVE  /\ runs[r] # Absent /\ runs[r] \in RunFiles /\ r < nextRun /\ RunFits(runs[r], launched)
               /\ runs'[r] \in RunFiles /\ RunFits(runs'[r], launched)
               /\ runs'[r].client = runs[r].client /\ runs'[r].process = runs[r].process
               /\ (Open(runs'[r]) => Open(runs[r]))
               /\ (runs'[r].state = "Attached" => runs[r].state = "Attached")
               /\ (runs'[r].state = "Capturing" =>
                      runs[r].state = "Attached" \/ (runs[r].state = "Capturing" /\ runs'[r].began = runs[r].began))
    <2>1. runs[r] # Absent /\ runs[r] \in RunFiles /\ r < nextRun /\ RunFits(runs[r], launched)
      BY <1>1 DEF RecordTypes, RunInv
    <2> QED BY <1>1, <2>1 DEF Moved
  <1>2. runs' \in [RunIds -> RunFiles \union {Absent}]
    BY <1>1
  <1>3. ASSUME NEW c \in commands' PROVE CommandFits(c)'
    <2>1. c \in commands /\ CommandFits(c) /\ c.run \in RunIds
      BY DEF RunInv, RecordTypes, StartCommands, AttachCommands, CaptureCommands
    <2>2. CASE runs'[c.run] = Absent
      BY <2>1, <2>2, AbsentApart DEF CommandFits
    <2>3. CASE runs'[c.run] # Absent
      BY <1>1, <2>1, <2>3 DEF CommandFits
    <2> QED BY <2>2, <2>3
  <1>4. OneCapturePerClient'
    <2>1. \A r \in RunIds : Open(runs'[r]) => runs'[r] # Absent
      BY AbsentApart
    <2> QED BY <1>1, <2>1 DEF RunInv, OneCapturePerClient, Lives
  <1> QED BY <1>1, <1>2, <1>3, <1>4 DEF RunInv

(* invalidate keeps a run that was open or captured without a verdict. *)
LEMMA InvalidateMoves ==
    ASSUME NEW run \in RunFiles, RunFits(run, launched), run.visual = "Pending"
    PROVE  Moved(run, invalidate(run))
  <1>1. invalidate(run) \in RunFiles /\ invalidate(run).state = "Invalid"
    BY DEF invalidate, RunFiles
  <1> QED BY <1>1 DEF Moved, RunFits, invalidate, RunFiles, Open, Captured

(* client_has_active_capture and the list close what is open on a process that is gone. *)
LEMMA DeadClosed ==
    ASSUME RecordsInv, NEW clients
    PROVE  /\ CloseDead(clients) = [r \in RunIds |-> CloseDead(clients)[r]]
           /\ \A r \in RunIds : \/ CloseDead(clients)[r] = runs[r]
                                \/ runs[r] # Absent /\ Moved(runs[r], CloseDead(clients)[r])
  <1>1. ASSUME NEW r \in RunIds, Open(runs[r])
        PROVE  runs[r] # Absent /\ Moved(runs[r], invalidate(runs[r]))
    <2>1. runs[r] # Absent /\ runs[r] \in RunFiles /\ RunFits(runs[r], launched)
      BY <1>1, AbsentApart DEF RecordsInv, RecordTypes, RunInv
    <2>2. runs[r].visual = "Pending"
      BY <1>1, <2>1 DEF RunFits
    <2> QED BY <2>1, <2>2, InvalidateMoves
  <1> QED BY <1>1 DEF CloseDead

(* attach_benchmark_run: a new run is attached when no other one of the client is open. *)
LEMMA AttachKeeps ==
    ASSUME RecordsInv, NEW c \in commands, attach_benchmark_run(c)
    PROVE  RunInv' /\ runs' \in [RunIds -> RunFiles \union {Absent}]
  <1> USE DEF RecordsInv
  <1> DEFINE closed == CloseDead({c.record.client})
             stored == [closed EXCEPT ![c.run] = c.record]
  <1>0. /\ c.op = "attach" /\ commands' = commands \ {c} /\ UNCHANGED <<launched, nextRun>>
        /\ c.record \in RunFiles /\ c.run \in RunIds /\ CommandFits(c) /\ runs[c.run] = Absent
        /\ c.record # Absent /\ c.record.state \in {"Attached", "Invalid"}
    <2>1. c.op = "attach" /\ commands' = commands \ {c} /\ UNCHANGED <<launched, nextRun>>
      BY DEF attach_benchmark_run, gameVars
    <2>2. c \in StartCommands \union AttachCommands \union CaptureCommands /\ CommandFits(c)
      BY DEF RecordTypes, RunInv
    <2>3. c.record \in RunFiles /\ c.run \in RunIds
      BY <2>1, <2>2 DEF StartCommands, AttachCommands, CaptureCommands
    <2> QED BY <2>1, <2>2, <2>3, AbsentApart DEF CommandFits
  <1>1. CASE ActiveCapture(c.record)
    <2>1. runs' = closed
      BY <1>1 DEF attach_benchmark_run
    <2> QED BY <1>0, <2>1, DeadClosed, RunsMove
  <1>2. CASE ~ActiveCapture(c.record)
    <2>1. runs' = prune(stored, RunIds, c.run, RunLimit, stamps.runs)
      BY <1>2 DEF attach_benchmark_run
    <2>2. \A r \in RunIds : stored[r] = IF r = c.run THEN c.record ELSE closed[r]
      BY <1>0, DeadClosed
    <2> HIDE DEF stored
    <2>21. /\ runs' = [r \in RunIds |-> runs'[r]]
           /\ \A r \in RunIds : runs'[r] \in {stored[r], Absent}
      BY <2>1, PruneRemoves
    <2>3. /\ runs' = [r \in RunIds |-> runs'[r]]
          /\ \A r \in RunIds : runs'[r] \in {IF r = c.run THEN c.record ELSE closed[r], Absent}
      BY <2>2, <2>21
    <2>4. ASSUME NEW r \in RunIds, r # c.run, runs'[r] # Absent
          PROVE  /\ runs[r] # Absent /\ runs[r] \in RunFiles /\ r < nextRun /\ RunFits(runs[r], launched)
                 /\ runs'[r] \in RunFiles /\ RunFits(runs'[r], launched)
                 /\ runs'[r].client = runs[r].client /\ runs'[r].process = runs[r].process
                 /\ (Open(runs'[r]) => Open(runs[r]))
                 /\ (runs'[r].state = "Attached" => runs[r].state = "Attached")
                 /\ (runs'[r].state = "Capturing" =>
                        runs[r].state = "Attached" \/ (runs[r].state = "Capturing" /\ runs'[r].began = runs[r].began))
      <3>1. runs'[r] = closed[r]
        BY <2>3, <2>4
      <3>2. closed[r] = runs[r] \/ (runs[r] # Absent /\ Moved(runs[r], closed[r]))
        BY DeadClosed
      <3>3. runs[r] # Absent => runs[r] \in RunFiles /\ r < nextRun /\ RunFits(runs[r], launched)
        BY DEF RecordTypes, RunInv
      <3> QED BY <2>4, <3>1, <3>2, <3>3 DEF Moved
    <2>5. \A r \in RunIds : runs'[r] # Absent =>
             /\ runs'[r] \in RunFiles /\ r < nextRun /\ RunFits(runs'[r], launched)
      BY <1>0, <2>3, <2>4 DEF CommandFits
    <2>6. ASSUME NEW d \in commands' PROVE CommandFits(d)'
      <3>1. d \in commands /\ d # c /\ CommandFits(d) /\ d.run \in RunIds /\ d.run # c.run
        BY <1>0 DEF RunInv, RecordTypes, StartCommands, AttachCommands, CaptureCommands, CommandFits
      <3>2. CASE runs'[d.run] = Absent
        BY <1>0, <3>1, <3>2, AbsentApart DEF CommandFits
      <3>3. CASE runs'[d.run] # Absent
        BY <1>0, <2>4, <3>1, <3>3 DEF CommandFits
      <3> QED BY <3>2, <3>3
    <2>7. OneCapturePerClient'
      <3> SUFFICES ASSUME NEW r \in RunIds, NEW s \in RunIds, r # s, r # c.run,
                          Open(runs'[r]), Lives(runs[r])', Open(runs'[s]), Lives(runs[s])',
                          runs'[r].client = runs'[s].client
                   PROVE  FALSE
        BY DEF OneCapturePerClient
      <3>1. Open(runs[r]) /\ Lives(runs[r]) /\ runs[r].client = runs'[r].client
        BY <1>0, <2>4, AbsentApart DEF Lives
      <3>2. CASE s = c.run
        <4>1. runs'[s] = c.record
          BY <2>3, <3>2, AbsentApart
        <4> QED BY <1>2, <3>1, <4>1 DEF ActiveCapture
      <3>3. CASE s # c.run
        <4>1. Open(runs[s]) /\ Lives(runs[s]) /\ runs[s].client = runs'[s].client
          BY <1>0, <2>4, <3>3, AbsentApart DEF Lives
        <4> QED BY <3>1, <4>1 DEF RunInv, OneCapturePerClient
      <3> QED BY <3>2, <3>3
    <2> QED BY <1>0, <2>3, <2>5, <2>6, <2>7 DEF RunInv
  <1> QED BY <1>1, <1>2

(* The other commands under the lock (begin, finish, import, set_visual_check, list, delete). *)
LEMMA LockedKeeps ==
    ASSUME RecordsInv,
           \/ \E c \in commands : begin_benchmark_capture(c) \/ finish_benchmark_capture(c)
           \/ \E r \in RunIds : \/ import_benchmark_samples(r)
                                \/ \E s \in {"Pending"} \union Verdicts : set_benchmark_visual_check(r, s)
           \/ list_benchmark_runs \/ delete_benchmark_runs
    PROVE  /\ RunInv' /\ runs' \in [RunIds -> RunFiles \union {Absent}]
           /\ commands' \subseteq commands
           /\ UNCHANGED <<launched, tasks, observations, unwritten, stamps, nextRun>>
  <1> USE DEF RecordsInv
  <1>0. /\ commands' \subseteq commands
        /\ UNCHANGED <<launched, tasks, observations, unwritten, stamps, nextRun>>
    BY DEF begin_benchmark_capture, finish_benchmark_capture, import_benchmark_samples,
           set_benchmark_visual_check, list_benchmark_runs, delete_benchmark_runs, gameVars
  <1>r. \A r \in RunIds : runs[r] # Absent => runs[r] \in RunFiles /\ RunFits(runs[r], launched)
    BY DEF RecordTypes, RunInv
  <1>k. /\ runs = [r \in RunIds |-> runs[r]]
    BY DEF RecordTypes
  <1>m. ASSUME NEW r \in RunIds, NEW new, runs[r] # Absent, Moved(runs[r], new),
               runs' = [runs EXCEPT ![r] = new]
        PROVE  RunInv' /\ runs' \in [RunIds -> RunFiles \union {Absent}]
    <2>1. runs' = [q \in RunIds |-> IF q = r THEN new ELSE runs[q]]
      BY <1>k, <1>m
    <2> QED BY <1>0, <1>m, <2>1, RunsMove
  <1>u. UNCHANGED runs => RunInv' /\ runs' \in [RunIds -> RunFiles \union {Absent}]
    BY <1>0, <1>k, RunsMove
  <1>1. ASSUME NEW c \in commands, begin_benchmark_capture(c)
        PROVE  RunInv' /\ runs' \in [RunIds -> RunFiles \union {Absent}]
    <2> DEFINE run == runs[c.run]
               capturing == [run EXCEPT !.state = "Capturing", !.began = Lives(run)]
    <2>1. c.run \in RunIds
      BY DEF RecordTypes, StartCommands, AttachCommands, CaptureCommands
    <2>2. CASE UNCHANGED runs
      BY <1>u, <2>2
    <2>3. CASE run.state = "Attached"
      <3>1. run # Absent /\ run \in RunFiles /\ RunFits(run, launched) /\ run.visual = "Pending"
        BY <1>r, <2>1, <2>3, AbsentApart DEF RunFits, Open
      <3>2. Moved(run, capturing)
        <4>1. launched[run.client].alive \in BOOLEAN
          BY <3>1 DEF RunFiles, RecordTypes, LaunchStates
        <4>2. Lives(run) \in BOOLEAN
          BY <4>1 DEF Lives
        <4>3. /\ capturing \in RunFiles /\ capturing.state = "Capturing" /\ capturing.began = Lives(run)
              /\ capturing.client = run.client /\ capturing.process = run.process
              /\ capturing.visual = run.visual
          BY <3>1, <4>2 DEF RunFiles
        <4> QED BY <2>3, <3>1, <4>3 DEF Moved, RunFits, Open, Captured, Lives, LivesIn
      <3>3. Moved(run, invalidate(run))
        BY <3>1, InvalidateMoves
      <3>4. \/ runs' = [runs EXCEPT ![c.run] = invalidate(run)]
            \/ runs' = [runs EXCEPT ![c.run] = capturing]
        BY <1>1, <1>k, <2>1, <2>3 DEF begin_benchmark_capture
      <3> QED BY <1>m, <2>1, <3>1, <3>2, <3>3, <3>4
    <2> QED BY <1>1, <2>2, <2>3 DEF begin_benchmark_capture
  <1>2. ASSUME NEW c \in commands, finish_benchmark_capture(c)
        PROVE  RunInv' /\ runs' \in [RunIds -> RunFiles \union {Absent}]
    <2> DEFINE run == runs[c.run]
               captured == [run EXCEPT !.state = "CaptureFinished"]
    <2>1. c.run \in RunIds /\ CommandFits(c) /\ c.op = "finish"
      BY <1>2 DEF RecordTypes, StartCommands, AttachCommands, CaptureCommands, RunInv, finish_benchmark_capture
    <2>2. CASE UNCHANGED runs
      BY <1>u, <2>2
    <2>3. CASE run.state = "Capturing" /\ ~UNCHANGED runs
      <3>1. run # Absent /\ run \in RunFiles /\ RunFits(run, launched) /\ run.visual = "Pending"
        BY <1>r, <2>1, <2>3, AbsentApart DEF RunFits, Open
      <3>2. c.capturing /\ SameProcess(run, c.process) => Moved(run, captured)
        <4> SUFFICES ASSUME c.capturing, SameProcess(run, c.process) PROVE Moved(run, captured)
          OBVIOUS
        <4>1. run.began
          BY <2>1, <2>3 DEF CommandFits, SameProcess
        <4>2. /\ captured \in RunFiles /\ captured.state = "CaptureFinished" /\ captured.began = run.began
              /\ captured.client = run.client /\ captured.process = run.process
              /\ captured.visual = run.visual /\ captured.judged = run.judged /\ captured.samples = run.samples
          BY <3>1 DEF RunFiles
        <4> QED BY <2>3, <3>1, <4>1, <4>2 DEF Moved, RunFits, Open, Captured
      <3>3. Moved(run, invalidate(run))
        BY <3>1, InvalidateMoves
      <3>4. \/ runs' = [runs EXCEPT ![c.run] = invalidate(run)]
            \/ c.capturing /\ SameProcess(run, c.process) /\ runs' = [runs EXCEPT ![c.run] = captured]
        BY <1>2, <1>k, <2>1, <2>3 DEF finish_benchmark_capture
      <3> QED BY <1>m, <2>1, <3>1, <3>2, <3>3, <3>4
    <2> QED BY <1>2, <2>2, <2>3 DEF finish_benchmark_capture
  <1>3. ASSUME NEW r \in RunIds, import_benchmark_samples(r)
        PROVE  RunInv' /\ runs' \in [RunIds -> RunFiles \union {Absent}]
    <2>1. /\ runs[r] # Absent /\ runs[r] \in RunFiles /\ RunFits(runs[r], launched)
          /\ runs[r].visual = "Pending" /\ runs[r].began /\ Captured(runs[r])
      BY <1>r, <1>3, AbsentApart DEF import_benchmark_samples, Frozen, RunFits
    <2>2. ASSUME NEW file \in SampleFiles
          PROVE  Moved(runs[r], [runs[r] EXCEPT !.state = "SamplesImported", !.samples = file])
      <3> DEFINE new == [runs[r] EXCEPT !.state = "SamplesImported", !.samples = file]
      <3>1. /\ new \in RunFiles /\ new.state = "SamplesImported" /\ new.began = runs[r].began
            /\ new.client = runs[r].client /\ new.process = runs[r].process
            /\ new.visual = runs[r].visual /\ new.samples = file
        BY <2>1 DEF RunFiles
      <3>2. file # NoSamples
        BY DEF SampleFiles, NoSamples
      <3> QED BY <2>1, <3>1, <3>2 DEF Moved, RunFits, Open, Captured
    <2>3. Moved(runs[r], invalidate(runs[r]))
      BY <2>1, InvalidateMoves
    <2>4. \/ runs' = [runs EXCEPT ![r] = invalidate(runs[r])]
          \/ \E file \in SampleFiles :
                runs' = [runs EXCEPT ![r] = [runs[r] EXCEPT !.state = "SamplesImported", !.samples = file]]
      BY <1>3, <1>k DEF import_benchmark_samples
    <2> QED BY <1>m, <2>1, <2>2, <2>3, <2>4
  <1>4. ASSUME NEW r \in RunIds, NEW s \in {"Pending"} \union Verdicts, set_benchmark_visual_check(r, s)
        PROVE  RunInv' /\ runs' \in [RunIds -> RunFiles \union {Absent}]
    <2> DEFINE verdict == IF s = "Pending" THEN NoSamples ELSE runs[r].samples
               new == [runs[r] EXCEPT !.visual = s, !.judged = verdict]
    <2>1. runs[r] # Absent /\ runs[r] \in RunFiles /\ RunFits(runs[r], launched) /\ Captured(runs[r])
      BY <1>r, <1>4, AbsentApart DEF set_benchmark_visual_check
    <2>2. /\ new \in RunFiles /\ new.state = runs[r].state /\ new.began = runs[r].began
          /\ new.client = runs[r].client /\ new.process = runs[r].process
          /\ new.visual = s /\ new.samples = runs[r].samples /\ new.judged = verdict
      BY <2>1 DEF RunFiles
    <2>3. Moved(runs[r], new)
      BY <2>1, <2>2 DEF Moved, RunFits, Open, Captured
    <2>4. runs' = [runs EXCEPT ![r] = new]
      BY <1>4, <1>k DEF set_benchmark_visual_check
    <2> QED BY <1>m, <2>1, <2>3, <2>4
  <1>5. CASE list_benchmark_runs
    BY <1>0, <1>5, DeadClosed, RunsMove DEF list_benchmark_runs
  <1>6. CASE delete_benchmark_runs
    BY <1>0, <1>6, RunsMove DEF delete_benchmark_runs
  <1> QED BY <1>0, <1>1, <1>2, <1>3, <1>4, <1>5, <1>6

(* The commands before they take the lock: what they read, and the record of a start. *)
LEMMA CommandsRead ==
    ASSUME RecordsInv,
           \/ \E l \in Launches : StartReads(l)
           \/ \E r \in RunIds : BeginReads(r) \/ FinishReads(r)
           \/ \E c \in commands : StartBuilds(c) \/ StartRefused(c)
    PROVE  /\ RunInv' /\ commands' \subseteq StartCommands \union AttachCommands \union CaptureCommands
           /\ UNCHANGED <<launched, tasks, observations, unwritten, runs>>
           /\ stamps' \in [observations: Nat, runs: Nat] /\ nextRun' \in Nat \ {0}
  <1> USE DEF RecordsInv
  <1>0. /\ UNCHANGED <<launched, tasks, observations, unwritten, runs>>
        /\ stamps' \in [observations: Nat, runs: Nat] /\ nextRun' \in Nat \ {0} /\ nextRun \in Nat
        /\ nextRun <= nextRun'
    BY DEF StartReads, BeginReads, FinishReads, CaptureReads, StartBuilds, StartRefused, gameVars, RecordTypes
  <1>s. \A c \in commands : c \in StartCommands \union AttachCommands \union CaptureCommands
    BY DEF RecordTypes
  <1>a. /\ \A r \in RunIds : runs[r] # Absent => r < nextRun' /\ RunFits(runs[r], launched)
        /\ OneCapturePerClient'
    <2>1. \A r \in RunIds : r \in Int
      BY DEF RunIds
    <2> QED BY <1>0, <2>1 DEF RunInv, OneCapturePerClient, Lives
  <1>b. ASSUME \A c \in commands' : CommandFits(c)' PROVE RunInv'
    BY <1>0, <1>a, <1>b DEF RunInv
  <1>1. ASSUME NEW l \in Launches, StartReads(l)
        PROVE  RunInv' /\ commands' \subseteq StartCommands \union AttachCommands \union CaptureCommands
    <2>0. PICK new : new = [op |-> "start", run |-> nextRun, client |-> l, process |-> launched[l].process]
      OBVIOUS
    <2>1. commands' = commands \union {new} /\ nextRun \in RunIds /\ nextRun' = nextRun + 1
      BY <1>1, <2>0 DEF StartReads
    <2>2. new \in StartCommands /\ new.run = nextRun /\ new.op = "start" /\ new.client = l
          /\ new.process = launched[l].process /\ launched[l].process \in Nat
      BY <2>0, <2>1 DEF StartCommands, RecordTypes, LaunchStates
    <2>3. runs[nextRun] = Absent /\ \A c \in commands : c.run < nextRun /\ c.run # nextRun /\ c.run < nextRun + 1
      <3>1. \A c \in commands : c.run < nextRun /\ c.run \in Int
        BY <1>s DEF RunInv, CommandFits, StartCommands, AttachCommands, CaptureCommands, RunIds
      <3> QED BY <1>0, <2>1, <3>1 DEF RunInv
    <2>4. CommandFits(new)'
      BY <1>0, <2>1, <2>2, <2>3 DEF CommandFits
    <2>5. ASSUME NEW c \in commands PROVE CommandFits(c)'
      BY <1>0, <2>1, <2>2, <2>3 DEF RunInv, CommandFits
    <2> QED BY <1>b, <1>s, <2>1, <2>2, <2>4, <2>5
  <1>2. ASSUME NEW r \in RunIds, BeginReads(r) \/ FinishReads(r)
        PROVE  RunInv' /\ commands' \subseteq StartCommands \union AttachCommands \union CaptureCommands
    <2>0. PICK op \in {"begin", "finish"} : CaptureReads(r, op) /\ Open(runs[r])
      BY <1>2 DEF BeginReads, FinishReads, Open
    <2>10. PICK new : new = [op |-> op, run |-> r, process |-> launched[runs[r].client].process,
                             capturing |-> runs[r].state = "Capturing"]
      OBVIOUS
    <2>1. commands' = commands \union {new} /\ Facts(runs[r].client) /\ nextRun' = nextRun
      BY <2>0, <2>10 DEF CaptureReads
    <2>2. /\ runs[r] # Absent /\ runs[r] \in RunFiles /\ runs[r].client \in Launches
          /\ launched[runs[r].client].process \in Nat /\ RunFits(runs[r], launched) /\ r < nextRun
      BY <2>0, AbsentApart DEF RecordTypes, RunFiles, LaunchStates, RunInv
    <2>3. new \in CaptureCommands /\ new.op = op /\ new.run = r /\ new.process = launched[runs[r].client].process
          /\ new.capturing = (runs[r].state = "Capturing")
      BY <2>2, <2>10 DEF CaptureCommands
    <2>4. CommandFits(new)'
      BY <1>0, <2>1, <2>2, <2>3 DEF CommandFits, Facts, RunFits, LivesIn
    <2>5. ASSUME NEW c \in commands PROVE CommandFits(c)'
      BY <1>0, <2>1, <2>2, <2>3 DEF RunInv, CommandFits
    <2> QED BY <1>b, <1>s, <2>1, <2>3, <2>4, <2>5
  <1>3. ASSUME NEW c \in commands, StartBuilds(c)
        PROVE  RunInv' /\ commands' \subseteq StartCommands \union AttachCommands \union CaptureCommands
    <2>1. c \in StartCommands /\ c.run \in RunIds /\ c.client \in Launches /\ c.process \in Nat /\ CommandFits(c)
      BY <1>3, <1>s DEF StartBuilds, StartCommands, AttachCommands, CaptureCommands, RunInv
    <2>2. Linked(c.client, c.process) \in Outcomes
      BY <2>1, AbsentApart DEF Linked, RecordTypes, ObservationFiles, Outcomes
    <2>3. PICK arm \in {"a", "b"}, key \in Keys :
            LET linked == Linked(c.client, c.process)
                run == [state |-> "Attached", client |-> c.client, process |-> c.process, arm |-> arm,
                        key |-> key, at |-> stamps.runs, linked |-> linked, samples |-> NoSamples,
                        visual |-> "Pending", began |-> FALSE, judged |-> NoSamples]
            IN  commands' = (commands \ {c}) \union
                   {[op |-> "attach", run |-> c.run,
                     record |-> IF linked \in Unusable THEN invalidate(run) ELSE run]}
      BY <1>3 DEF StartBuilds
    <2> DEFINE linked == Linked(c.client, c.process)
               run == [state |-> "Attached", client |-> c.client, process |-> c.process, arm |-> arm,
                       key |-> key, at |-> stamps.runs, linked |-> linked, samples |-> NoSamples,
                       visual |-> "Pending", began |-> FALSE, judged |-> NoSamples]
               record == IF linked \in Unusable THEN invalidate(run) ELSE run
    <2>4. /\ record \in RunFiles /\ record.state \in {"Attached", "Invalid"} /\ record.visual = "Pending"
          /\ record.client = c.client /\ record.process = c.process
      <3>1. stamps.runs \in Nat
        BY DEF RecordTypes
      <3>2. run \in RunFiles /\ run.state = "Attached" /\ run.visual = "Pending"
            /\ run.client = c.client /\ run.process = c.process
        BY <2>1, <2>2, <3>1 DEF RunFiles
      <3>3. invalidate(run) \in RunFiles /\ invalidate(run).state = "Invalid" /\ invalidate(run).visual = "Pending"
            /\ invalidate(run).client = c.client /\ invalidate(run).process = c.process
        BY <3>2 DEF invalidate, RunFiles
      <3> QED BY <3>2, <3>3
    <2>5. RunFits(record, launched)
      BY <1>3, <2>1, <2>4 DEF RunFits, CommandFits, Open, Captured, StartBuilds
    <2>11. PICK rec, new : rec = record /\ new = [op |-> "attach", run |-> c.run, record |-> rec]
      OBVIOUS
    <2>12. /\ commands' = (commands \ {c}) \union {new} /\ nextRun' = nextRun
      BY <1>3, <2>3, <2>11 DEF StartBuilds
    <2> HIDE DEF record
    <2>6. new \in AttachCommands /\ new.op = "attach" /\ new.run = c.run /\ new.record = rec
      BY <2>1, <2>4, <2>11 DEF AttachCommands
    <2>8. /\ runs[c.run] = Absent /\ \A d \in commands \ {c} : d.run # c.run
      BY <1>3, <2>1 DEF CommandFits, StartBuilds
    <2>13. rec.state \in {"Attached", "Invalid"} /\ RunFits(rec, launched)
      BY <2>4, <2>5, <2>11
    <2>9. CommandFits(new)'
      BY <1>0, <2>1, <2>6, <2>8, <2>12, <2>13 DEF CommandFits
    <2>10. ASSUME NEW d \in commands \ {c} PROVE CommandFits(d)'
      BY <1>0, <2>6, <2>8, <2>12 DEF RunInv, CommandFits
    <2> QED BY <1>b, <1>s, <2>6, <2>9, <2>10, <2>12
  <1>4. ASSUME NEW c \in commands, StartRefused(c)
        PROVE  RunInv' /\ commands' \subseteq StartCommands \union AttachCommands \union CaptureCommands
    <2>1. commands' = commands \ {c} /\ nextRun' = nextRun
      BY <1>4 DEF StartRefused
    <2>2. ASSUME NEW d \in commands' PROVE CommandFits(d)'
      BY <1>0, <2>1 DEF RunInv, CommandFits
    <2> QED BY <1>b, <1>s, <2>1, <2>2
  <1> QED BY <1>0, <1>1, <1>2, <1>3, <1>4

(* Every step of the stores and of the launches they follow keeps the invariant. *)
LEMMA RecordsStep == RecordsInv /\ [RecordsNext]_recordVars => RecordsInv'
  <1> SUFFICES ASSUME RecordsInv, [RecordsNext]_recordVars PROVE RecordsInv'
    OBVIOUS
  <1> USE DEF RecordsInv
  <1>0. UNCHANGED <<launched, tasks, observations, unwritten>> => TaskInv'
    BY DEF TaskInv, TaskFits, ObservationFits, Pending
  <1>1. CASE \E l \in Launches : \/ Reached(l) \/ Unreached(l) \/ Dies(l) \/ request_stop(l) \/ Handoff(l)
                                \/ ExitTask(l) \/ Unlisted(l)
    BY <1>1, LaunchKeepsTasks, LaunchKeepsRuns DEF RecordTypes
  <1>2. CASE \E t \in tasks : PersistStarted(t) \/ PersistFinished(t) \/ PersistFails(t)
    <2>1. UNCHANGED <<launched, runs, commands, nextRun>> => RunInv'
      BY DEF RunInv, CommandFits, OneCapturePerClient, Lives
    <2> QED BY <1>2, <2>1, TaskWrites DEF RecordTypes
  <1>3. CASE \/ \E l \in Launches : StartReads(l)
             \/ \E r \in RunIds : BeginReads(r) \/ FinishReads(r)
             \/ \E c \in commands : StartBuilds(c) \/ StartRefused(c)
    BY <1>0, <1>3, CommandsRead DEF RecordTypes
  <1>4. ASSUME NEW c \in commands, attach_benchmark_run(c) PROVE RecordsInv'
    <2>1. UNCHANGED <<launched, tasks, observations, unwritten, stamps, nextRun>> /\ commands' \subseteq commands
      BY <1>4 DEF attach_benchmark_run, gameVars
    <2> QED BY <1>0, <1>4, <2>1, AttachKeeps DEF RecordTypes
  <1>5. CASE \/ \E c \in commands : begin_benchmark_capture(c) \/ finish_benchmark_capture(c)
             \/ \E r \in RunIds : \/ import_benchmark_samples(r)
                                  \/ \E s \in {"Pending"} \union Verdicts : set_benchmark_visual_check(r, s)
             \/ list_benchmark_runs \/ delete_benchmark_runs
    BY <1>0, <1>5, LockedKeeps DEF RecordTypes
  <1>6. CASE delete_observations
    <2>1. /\ observations' = [l \in Launches |-> Absent]
          /\ UNCHANGED <<launched, tasks, runs, commands, stamps, nextRun, unwritten>>
      BY <1>6 DEF delete_observations, gameVars
    <2>2. TaskInv'
      BY <2>1, AbsentApart DEF TaskInv, TaskFits, ObservationFits
    <2>3. RunInv'
      BY <2>1 DEF RunInv, CommandFits, OneCapturePerClient, Lives
    <2> QED BY <2>1, <2>2, <2>3 DEF RecordTypes
  <1>7. CASE UNCHANGED recordVars
    <2>1. UNCHANGED <<launched, tasks, observations, unwritten, runs, commands, stamps, nextRun>>
      BY <1>7 DEF recordVars, gameVars
    <2>2. RunInv'
      BY <2>1 DEF RunInv, CommandFits, OneCapturePerClient, Lives
    <2> QED BY <1>0, <2>1, <2>2 DEF RecordTypes
  <1> QED BY <1>1, <1>2, <1>3, <1>4, <1>5, <1>6, <1>7 DEF RecordsNext

(* RecordsAreSound: whatever tasks, commands, exits and handoffs overlap and whatever is deleted
   meanwhile, observations close, a client has one capture, and what a comparison uses was captured
   on a process that lived and judged as it is. *)
THEOREM RecordsAlwaysSound == RecordsSpec => []RecordsAreSound
  <1>1. RecordsSpec => []RecordsInv
    BY RecordsInitInv, RecordsStep, PTL DEF RecordsSpec
  <1> QED BY <1>1, RecordsInvSound, PTL
=============================================================================
