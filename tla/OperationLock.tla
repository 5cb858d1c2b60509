---------------------------- MODULE OperationLock ----------------------------
(***************************************************************************)
(* utils/operation_lock.rs: the guards of one key, taken by the tasks of    *)
(* several processes (the desktop, a second instance, --import-runtime).   *)
(* Each process has a registry in memory, under a mutex, and one record    *)
(* lock of the kernel (external: fcntl), which belongs to the process and  *)
(* goes when it closes any descriptor of the file, or dies.                *)
(***************************************************************************)
EXTENDS Naturals, FiniteSets

CONSTANTS
    Processes, Tasks,
    MaxAttempts            \* retries of acquire_for before its deadline

ASSUME TasksAssumption == IsFiniteSet(Tasks)      \* a process has finitely many tasks
ASSUME AttemptsAssumption == MaxAttempts \in Nat

Modes == {"shared", "exclusive"}
NoLock == "none"

VARIABLES
    registry,    \* LockState of the key in each process: readers, writer, cross_process
    kernel,      \* the record lock each process holds
    guard,       \* the OperationGuard of each task: NoLock or its mode
    waiting,     \* acquire_for: attempts left; 0: not in it
    live         \* the processes that run

lockVars == <<registry, kernel, guard, waiting, live>>

NoOwner == [readers |-> 0, writer |-> FALSE, file |-> FALSE]
LockInit ==
    /\ registry = [p \in Processes |-> NoOwner] /\ kernel = [p \in Processes |-> NoLock]
    /\ guard = [p \in Processes |-> [t \in Tasks |-> NoLock]]
    /\ waiting = [p \in Processes |-> [t \in Tasks |-> 0]]
    /\ live = Processes

Unavailable(p, mode) ==
    registry[p].writer \/ (mode = "exclusive" /\ registry[p].readers > 0)
(* lock_across_processes: F_SETLK never waits *)
KernelRefuses(p, mode) ==
    \E q \in Processes \ {p} :
        kernel[q] = "exclusive" \/ (mode = "exclusive" /\ kernel[q] # NoLock)
Busy(p, mode) == Unavailable(p, mode) \/ (~registry[p].file /\ KernelRefuses(p, mode))

(* acquire_with_mode, under the mutex of the registry *)
Acquire(p, t, mode) ==
    /\ p \in live /\ guard[p][t] = NoLock /\ ~Busy(p, mode)
    /\ kernel' = IF registry[p].file THEN kernel ELSE [kernel EXCEPT ![p] = mode]
    /\ registry' = [registry EXCEPT ![p] =
                      [readers |-> @.readers + (IF mode = "shared" THEN 1 ELSE 0),
                       writer |-> mode = "exclusive", file |-> TRUE]]
    /\ guard' = [guard EXCEPT ![p][t] = mode]
(* acquire and acquire_shared; a busy key is an error at once *)
TryAcquire(p, t, mode) ==
    waiting[p][t] = 0 /\ Acquire(p, t, mode) /\ UNCHANGED <<waiting, live>>
(* acquire_for: only Busy is retried, until the deadline *)
AcquireFor(p, t) ==
    /\ p \in live /\ guard[p][t] = NoLock /\ waiting[p][t] = 0 /\ Busy(p, "exclusive")
    /\ waiting' = [waiting EXCEPT ![p][t] = MaxAttempts]
    /\ UNCHANGED <<registry, kernel, guard, live>>
RetryAcquire(p, t) ==
    /\ p \in live /\ waiting[p][t] > 0
    /\ \/ /\ Acquire(p, t, "exclusive") /\ waiting' = [waiting EXCEPT ![p][t] = 0]
       \/ /\ Busy(p, "exclusive") /\ waiting' = [waiting EXCEPT ![p][t] = @ - 1]
          /\ UNCHANGED <<registry, kernel, guard>>
    /\ UNCHANGED live

(* Drop: the last guard removes the entry and closes the one descriptor *)
Dropped(state, mode) ==
    [state EXCEPT !.readers = IF mode = "shared" THEN @ - 1 ELSE @,
                  !.writer = @ /\ mode # "exclusive"]
Unused(state) == state.readers = 0 /\ ~state.writer
(* Mutant: every guard closes a descriptor of its own. *)
DropGuardAndFile(p, t) ==
    /\ p \in live /\ guard[p][t] # NoLock
    /\ LET left == Dropped(registry[p], guard[p][t]) IN
       registry' = [registry EXCEPT ![p] = IF Unused(left) THEN NoOwner ELSE left]
    /\ kernel' = [kernel EXCEPT ![p] = NoLock]
    /\ guard' = [guard EXCEPT ![p][t] = NoLock]
    /\ UNCHANGED <<waiting, live>>
DropGuard(p, t) ==
    /\ p \in live /\ guard[p][t] # NoLock
    /\ LET left == Dropped(registry[p], guard[p][t]) IN
       /\ registry' = [registry EXCEPT ![p] = IF Unused(left) THEN NoOwner ELSE left]
       /\ kernel' = [kernel EXCEPT ![p] = IF Unused(left) THEN NoLock ELSE @]
    /\ guard' = [guard EXCEPT ![p][t] = NoLock]
    /\ UNCHANGED <<waiting, live>>
(* the process exits or is killed: destructors need not run *)
ProcessDies(p) ==
    /\ p \in live /\ live' = live \ {p}
    /\ kernel' = [kernel EXCEPT ![p] = NoLock]
    /\ registry' = [registry EXCEPT ![p] = NoOwner]
    /\ guard' = [guard EXCEPT ![p] = [t \in Tasks |-> NoLock]]
    /\ waiting' = [waiting EXCEPT ![p] = [t \in Tasks |-> 0]]

LockNext ==
    \E p \in Processes :
        \/ \E t \in Tasks : \/ \E mode \in Modes : TryAcquire(p, t, mode)
                            \/ AcquireFor(p, t) \/ RetryAcquire(p, t) \/ DropGuard(p, t)
        \/ ProcessDies(p)

LockSpec == LockInit /\ [][LockNext]_lockVars

LockTypeOK ==
    /\ registry \in [Processes -> [readers : Nat, writer : BOOLEAN, file : BOOLEAN]]
    /\ kernel \in [Processes -> Modes \union {NoLock}]
    /\ guard \in [Processes -> [Tasks -> Modes \union {NoLock}]]
    /\ waiting \in [Processes -> [Tasks -> 0..MaxAttempts]]
    /\ live \in SUBSET Processes

(* An exclusive guard is the only guard of its key in any process, whatever order
   guards are taken, dropped, retried and lost with their process
   (acquire_with_mode, Drop of OperationGuard). *)
GuardsExclude ==
    \A p, q \in Processes, t, u \in Tasks :
        guard[p][t] = "exclusive" /\ <<p, t>> # <<q, u>> => guard[q][u] = NoLock
=============================================================================
