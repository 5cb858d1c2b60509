--------------------------- MODULE RunnerSessions ---------------------------
(***************************************************************************)
(* RunnerSessionRegistry (tools/runner_sessions/registry.rs): at most one  *)
(* ro-sessiond supervisor per Wine prefix, shared by every operation and   *)
(* client of that prefix, started on demand, stopped when nothing uses it  *)
(* or when the launcher closes.                                            *)
(*                                                                         *)
(* Every future may be dropped by its caller at an await; a task spawned   *)
(* to own a shutdown survives its caller.  Between two awaits the code     *)
(* runs on one of several threads, so only what a mutex covers is atomic.  *)
(* The supervisor is seen here as the registry sees it: a process, the     *)
(* pipe to it, and the requests it accepted (Sessiond has the inside).     *)
(***************************************************************************)
EXTENDS Naturals, FiniteSets

CONSTANTS
    Ops,          \* callers of begin_operation / shutdown_prefix
    Prefixes,     \* canonical prefix keys
    OpPrefix,     \* the prefix each caller works on
    OpRunner,     \* the runner it was resolved with
    OpPlan,       \* the plan id of its anchor
    Launchers,    \* the callers that launch a process
    Clients,      \* the callers that attach a client
    Quiescers,    \* the callers that end by stopping the prefix
    MaxSessions,  \* bound on the supervisors spawned over a run
    NoOne         \* no holder of a lock

SessionIds == 1..MaxSessions
NoSession == 0

ASSUME OpsAssumption == OpPrefix \in [Ops -> Prefixes]
ASSUME RolesAssumption == (Launchers \cup Clients \cup Quiescers) \subseteq Ops
ASSUME FiniteOpsAssumption == IsFiniteSet(Ops)
ASSUME BoundAssumption == MaxSessions \in Nat

(* Shutdowns run in tasks of their own: the one a caller awaits, the one an *)
(* idle timer of a session starts, and the one of shutdown_all_owned.       *)
OpTask(o) == <<"op", o>>
IdleTask(s) == <<"idle", s>>
CloseTask(p) == <<"close", p>>
TaskIds == {OpTask(o) : o \in Ops} \cup {IdleTask(s) : s \in SessionIds}
           \cup {CloseTask(p) : p \in Prefixes}
Starter(o) == <<"start", o>>
Holders == TaskIds \cup {Starter(o) : o \in Ops} \cup {NoOne}

ASSUME NoOneAssumption == NoOne \notin TaskIds \cup {Starter(o) : o \in Ops}

VARIABLES
    lock,       \* startup_locks: holder of each prefix's lock
    known,      \* keys of startup_locks
    sessions,   \* sessions: prefix -> registered session or NoSession
    closing,    \* closing
    census,     \* shutdown_all_owned has listed the keys
    \* RunnerSessionInner, per session
    born,       \* sessions whose supervisor was spawned: 1..born
    prefixOf, runnerOf, planOf,
    state,      \* SessionState
    opLeases,   \* operation_leases, as the set of holders
    clientLeases, \* client_leases, as the set of holders
    active,     \* active_requests
    fresh,      \* idle_generation: the tickets that still carry the current one
    child,      \* the Child handle has not been taken
    checks,     \* schedule_idle_shutdown calls about to test the counters
    bumps,      \* ... that found them zero and have yet to draw a generation
    \* the supervisor process and its pipe
    sup,        \* "none", "up" or "gone"
    link,       \* "ok", "fatal" (reader still running) or "deaf"
    \* callers
    pc,         \* where each caller is
    mine,       \* the session each caller starts or leases
    req,        \* its launch request
    reqOf,      \* the session that request was written to
    task        \* the shutdown tasks

registryVars == <<lock, known, sessions, closing, census>>
bornVars == <<born, prefixOf, runnerOf, planOf>>
leaseVars == <<opLeases, clientLeases>>
idleVars == <<fresh, checks, bumps>>
supVars == <<sup, link>>
reqVars == <<req, reqOf, active>>
opVars == <<pc, mine>>
vars == <<registryVars, bornVars, state, leaseVars, idleVars, child, supVars, reqVars,
          opVars, task>>

-----------------------------------------------------------------------------

NoTask == [pc |-> "none", sess |-> NoSession, cause |-> "Forced", handle |-> FALSE]

Init ==
    /\ lock = [p \in Prefixes |-> NoOne] /\ known = {}
    /\ sessions = [p \in Prefixes |-> NoSession]
    /\ closing = FALSE /\ census = FALSE
    /\ born = 0
    /\ prefixOf = [s \in SessionIds |-> NoOne]
    /\ runnerOf = [s \in SessionIds |-> NoOne]
    /\ planOf = [s \in SessionIds |-> NoOne]
    /\ state = [s \in SessionIds |-> "Ready"]
    /\ opLeases = [s \in SessionIds |-> {}] /\ clientLeases = [s \in SessionIds |-> {}]
    /\ active = [s \in SessionIds |-> 0]
    /\ fresh = [s \in SessionIds |-> {}]
    /\ checks = [s \in SessionIds |-> 0] /\ bumps = [s \in SessionIds |-> 0]
    /\ child = [s \in SessionIds |-> FALSE]
    /\ sup = [s \in SessionIds |-> "none"] /\ link = [s \in SessionIds |-> "ok"]
    /\ pc = [o \in Ops |-> "idle"] /\ mine = [o \in Ops |-> NoSession]
    /\ req = [o \in Ops |-> "none"] /\ reqOf = [o \in Ops |-> NoSession]
    /\ task = [t \in TaskIds |-> NoTask]

-----------------------------------------------------------------------------
(* Helpers *)

(* is_quiet.  The three loads are not one: but the first is of the          *)
(* operation leases, and without one of those (and under the startup lock)  *)
(* neither of the others can rise.                                          *)
IsQuiet(s) == opLeases[s] = {} /\ clientLeases[s] = {} /\ active[s] = 0

(* remove_session_if_same.  The idle timers of a session that is no longer  *)
(* registered return at once: its idle bookkeeping goes with it.            *)
RemoveIfSame(s) ==
    /\ sessions' = [p \in Prefixes |-> IF sessions[p] = s THEN NoSession ELSE sessions[p]]
    /\ fresh' = [fresh EXCEPT ![s] = {}]
    /\ checks' = [checks EXCEPT ![s] = 0]
    /\ bumps' = [bumps EXCEPT ![s] = 0]

(* A call of schedule_idle_shutdown begins. *)
ScheduleIdleShutdown(s) ==
    checks' = IF sessions[prefixOf[s]] = s THEN [checks EXCEPT ![s] = @ + 1] ELSE checks

Release(p) == lock' = [lock EXCEPT ![p] = NoOne]

NewTask(s, cause) == [pc |-> "queued", sess |-> s, cause |-> cause, handle |-> FALSE]

(* idle_generation is only ever compared for equality with a copy taken     *)
(* earlier.  A ticket is whoever holds a copy (a sleeping timer or a task); *)
(* drawing a new generation makes every ticket stale, and a stale timer     *)
(* does nothing when it fires.                                              *)
Timer == <<"timer">>
BumpIdleGeneration(s) == fresh' = [fresh EXCEPT ![s] = {}]

-----------------------------------------------------------------------------
(* begin_operation_opt *)

(* The first call of startup_lock creates the entry of the prefix. *)
BeginOperation(o) ==
    /\ pc[o] = "idle"
    /\ known' = known \cup {OpPrefix[o]}
    /\ pc' = [pc EXCEPT ![o] = "begin"]
    /\ UNCHANGED <<lock, sessions, closing, census, bornVars, state, leaseVars, idleVars,
                   child, supVars, reqVars, mine, task>>

(* What the code under the lock finds, up to its next await. *)
Existing(o) == sessions[OpPrefix[o]]
Registered(o) == Existing(o) # NoSession
Reusable(o) == /\ state[Existing(o)] = "Ready"
               /\ runnerOf[Existing(o)] = OpRunner[o]
               /\ planOf[Existing(o)] = OpPlan[o]
Conflict(o) == /\ state[Existing(o)] = "Ready"
               /\ \/ runnerOf[Existing(o)] # OpRunner[o]
                  \/ planOf[Existing(o)] # OpPlan[o] /\ ~IsQuiet(Existing(o))
Replaceable(o) == /\ state[Existing(o)] = "Ready"
                  /\ runnerOf[Existing(o)] = OpRunner[o]
                  /\ planOf[Existing(o)] # OpPlan[o] /\ IsQuiet(Existing(o))

HasTurn(o) == pc[o] = "begin" /\ lock[OpPrefix[o]] = NoOne

BeginRefused(o) ==
    /\ HasTurn(o)
    /\ closing \/ (Registered(o) /\ Conflict(o))
    /\ pc' = [pc EXCEPT ![o] = "failed"]
    /\ UNCHANGED <<registryVars, bornVars, state, leaseVars, idleVars, child, supVars,
                   reqVars, mine, task>>

BeginReuses(o) ==
    /\ HasTurn(o) /\ ~closing
    /\ Registered(o) /\ Reusable(o)
    /\ LET s == Existing(o) IN
          /\ BumpIdleGeneration(s)
          /\ opLeases' = [opLeases EXCEPT ![s] = @ \cup {o}]
          /\ mine' = [mine EXCEPT ![o] = s]
    /\ pc' = [pc EXCEPT ![o] = "leased"]
    /\ UNCHANGED <<registryVars, bornVars, state, clientLeases, checks, bumps, child,
                   supVars, reqVars, task>>

(* Another plan, nothing in use: the old session is stopped first, if it is *)
(* still unused when the task gets the lock; a Stopping one is waited for.  *)
BeginWaits(o) ==
    /\ HasTurn(o) /\ ~closing
    /\ Registered(o)
    /\ Replaceable(o) \/ state[Existing(o)] = "Stopping"
    /\ task' = [task EXCEPT ![OpTask(o)] =
                   NewTask(Existing(o), IF Replaceable(o) THEN "Idle" ELSE "Forced")]
    /\ fresh' = [fresh EXCEPT ![Existing(o)] = @ \cup {OpTask(o)}]
    /\ pc' = [pc EXCEPT ![o] = "awaiting"]
    /\ UNCHANGED <<registryVars, bornVars, state, leaseVars, checks, bumps, child, supVars,
                   reqVars, mine>>

(* Nothing usable is registered: bootstrap the prefix, keeping the lock. *)
BeginStarts(o) ==
    /\ HasTurn(o) /\ ~closing
    /\ Registered(o) => state[Existing(o)] \in {"Stopped", "Failed"}
    /\ IF Registered(o) THEN RemoveIfSame(Existing(o)) ELSE UNCHANGED <<sessions, idleVars>>
    /\ lock' = [lock EXCEPT ![OpPrefix[o]] = Starter(o)]
    /\ pc' = [pc EXCEPT ![o] = "bootstrap"]
    /\ UNCHANGED <<known, closing, census, bornVars, state, leaseVars, child, supVars,
                   reqVars, mine, task>>

(* bootstrap_prefix_for_supervisor or the shutdown spec fails. *)
BootstrapFails(o) ==
    /\ pc[o] = "bootstrap"
    /\ Release(OpPrefix[o])
    /\ pc' = [pc EXCEPT ![o] = "failed"]
    /\ UNCHANGED <<known, sessions, closing, census, bornVars, state, leaseVars, idleVars,
                   child, supVars, reqVars, mine, task>>

(* spawn_supervisor: the process exists from here on. *)
Spawn(o) ==
    /\ pc[o] = "bootstrap"
    /\ born < MaxSessions
    /\ LET s == born + 1 IN
          /\ born' = s
          /\ prefixOf' = [prefixOf EXCEPT ![s] = OpPrefix[o]]
          /\ runnerOf' = [runnerOf EXCEPT ![s] = OpRunner[o]]
          /\ planOf' = [planOf EXCEPT ![s] = OpPlan[o]]
          /\ sup' = [sup EXCEPT ![s] = "up"]
          /\ mine' = [mine EXCEPT ![o] = s]
    /\ pc' = [pc EXCEPT ![o] = "handshake"]
    /\ UNCHANGED <<registryVars, state, leaseVars, idleVars, child, link, reqVars, task>>

(* No valid Ready in five seconds: kill_child_by_identity and the error. *)
HandshakeFails(o) ==
    /\ pc[o] = "handshake"
    /\ sup' = [sup EXCEPT ![mine[o]] = "gone"]
    /\ Release(OpPrefix[o])
    /\ pc' = [pc EXCEPT ![o] = "failed"]
    /\ mine' = [mine EXCEPT ![o] = NoSession]
    /\ UNCHANGED <<known, sessions, closing, census, bornVars, state, leaseVars, idleVars,
                   child, link, reqVars, task>>

(* Mutant: closing is not read again after the startup. *)
HandshakeIgnoresClosing(o) ==
    /\ pc[o] = "handshake"
    /\ opLeases' = [opLeases EXCEPT ![mine[o]] = @ \cup {o}]
    /\ child' = [child EXCEPT ![mine[o]] = TRUE]
    /\ pc' = [pc EXCEPT ![o] = "insert"]
    /\ UNCHANGED <<registryVars, bornVars, state, clientLeases, idleVars, supVars, reqVars,
                   mine, task>>

(* Ready: the session object exists, with the lease of its caller, and      *)
(* closing is read once more.  When it is set the new supervisor is stopped *)
(* by shutdown_session_locked before the lock is given up.                  *)
HandshakeSucceeds(o) ==
    /\ pc[o] = "handshake"
    /\ opLeases' = [opLeases EXCEPT ![mine[o]] = @ \cup {o}]
    /\ child' = [child EXCEPT ![mine[o]] = TRUE]
    /\ IF closing
       THEN /\ state' = [state EXCEPT ![mine[o]] = "Stopping"]
            /\ pc' = [pc EXCEPT ![o] = "unwind"]
       ELSE /\ UNCHANGED state
            /\ pc' = [pc EXCEPT ![o] = "insert"]
    /\ UNCHANGED <<registryVars, bornVars, clientLeases, idleVars, supVars, reqVars, mine,
                   task>>

InsertSession(o) ==
    /\ pc[o] = "insert"
    /\ sessions' = [sessions EXCEPT ![OpPrefix[o]] = mine[o]]
    /\ Release(OpPrefix[o])
    /\ pc' = [pc EXCEPT ![o] = "leased"]
    /\ UNCHANGED <<known, closing, census, bornVars, state, leaseVars, idleVars, child,
                   supVars, reqVars, mine, task>>

(* The end of that inline shutdown, clean or by fail_session: no supervisor *)
(* either way, and the object, which nobody else ever saw, is dropped.      *)
Unwound(o) ==
    /\ pc[o] = "unwind"
    /\ sup' = [sup EXCEPT ![mine[o]] = "gone"]
    /\ child' = [child EXCEPT ![mine[o]] = FALSE]
    /\ \E end \in {"Stopped", "Failed"} : state' = [state EXCEPT ![mine[o]] = end]
    /\ Release(OpPrefix[o])
    /\ pc' = [pc EXCEPT ![o] = "failed"]
    /\ mine' = [mine EXCEPT ![o] = NoSession]
    /\ UNCHANGED <<known, sessions, closing, census, bornVars, leaseVars, idleVars,
                   link, reqVars, task>>

(* The shutdown this caller waited for has ended: round again, or its error. *)
AwaitEnds(o) ==
    /\ pc[o] \in {"awaiting", "quiesce"}
    /\ task[OpTask(o)].pc \in {"ok", "error"}
    /\ pc' = [pc EXCEPT ![o] = IF @ = "awaiting" /\ task[OpTask(o)].pc = "ok"
                               THEN "begin" ELSE "failed"]
    /\ task' = [task EXCEPT ![OpTask(o)] = NoTask]
    /\ UNCHANGED <<registryVars, bornVars, state, leaseVars, idleVars, child, supVars,
                   reqVars, mine>>

(* Mutant: the Child of a cancelled startup is not killed on drop. *)
CancelLeavesChild(o) ==
    /\ pc[o] \in {"begin", "bootstrap", "handshake", "unwind", "awaiting", "quiesce"}
    /\ pc' = [pc EXCEPT ![o] = "failed"]
    /\ IF pc[o] \in {"bootstrap", "handshake", "unwind"}
       THEN Release(OpPrefix[o]) ELSE UNCHANGED lock
    /\ UNCHANGED <<known, sessions, closing, census, bornVars, state, leaseVars,
                   idleVars, child, supVars, reqVars, mine, task>>

(* The caller goes away at an await.  A startup drops the lock and the      *)
(* Child, whose kill_on_drop kills the supervisor; a shutdown task goes on. *)
Cancel(o) ==
    /\ pc[o] \in {"begin", "bootstrap", "handshake", "unwind", "awaiting", "quiesce"}
    /\ pc' = [pc EXCEPT ![o] = "failed"]
    /\ IF pc[o] \in {"handshake", "unwind"}
       THEN /\ sup' = [sup EXCEPT ![mine[o]] = "gone"]
            /\ child' = [child EXCEPT ![mine[o]] = FALSE]
            /\ mine' = [mine EXCEPT ![o] = NoSession]
       ELSE UNCHANGED <<sup, child, mine>>
    /\ IF pc[o] \in {"bootstrap", "handshake", "unwind"}
       THEN Release(OpPrefix[o]) ELSE UNCHANGED lock
    /\ task' = IF task[OpTask(o)].pc \in {"ok", "error"}
               THEN [task EXCEPT ![OpTask(o)] = NoTask] ELSE task
    /\ UNCHANGED <<known, sessions, closing, census, bornVars, state, leaseVars,
                   idleVars, link, reqVars>>

-----------------------------------------------------------------------------
(* Leases and requests *)

HoldsLease(o) == pc[o] \in {"leased", "attached"}

(* attach_client, once per operation in this model *)
AttachClient(o) ==
    /\ o \in Clients /\ pc[o] = "leased"
    /\ pc' = [pc EXCEPT ![o] = "attached"]
    /\ clientLeases' = [clientLeases EXCEPT ![mine[o]] = @ \cup {o}]
    /\ BumpIdleGeneration(mine[o])
    /\ UNCHANGED <<registryVars, bornVars, state, opLeases, checks, bumps, child,
                   supVars, reqVars, mine, task>>

(* OperationLease dropped, after its work or because its holder was. *)
ReleaseOperationLease(o) ==
    /\ HoldsLease(o)
    /\ opLeases' = [opLeases EXCEPT ![mine[o]] = @ \ {o}]
    /\ ScheduleIdleShutdown(mine[o])
    /\ pc' = [pc EXCEPT ![o] = "done"]
    /\ UNCHANGED <<registryVars, bornVars, state, clientLeases, fresh, bumps, child,
                   supVars, reqVars, mine, task>>

ReleaseClientLease(o) ==
    /\ mine[o] # NoSession /\ o \in clientLeases[mine[o]]
    /\ clientLeases' = [clientLeases EXCEPT ![mine[o]] = @ \ {o}]
    /\ ScheduleIdleShutdown(mine[o])
    /\ UNCHANGED <<registryVars, bornVars, state, opLeases, fresh, bumps, child,
                   supVars, reqVars, opVars, task>>

(* launch: a Ready session with a working pipe takes the request. *)
Launch(o) ==
    /\ o \in Launchers /\ HoldsLease(o) /\ req[o] = "none"
    /\ state[mine[o]] = "Ready" /\ link[mine[o]] = "ok"
    /\ req' = [req EXCEPT ![o] = "sent"]
    /\ reqOf' = [reqOf EXCEPT ![o] = mine[o]]
    /\ UNCHANGED <<registryVars, bornVars, state, leaseVars, idleVars, child, supVars,
                   active, opVars, task>>

CanHear(o) == sup[reqOf[o]] = "up" /\ link[reqOf[o]] # "deaf"

(* Mutant: an answer nobody waits for is dropped before it is counted. *)
LaunchAcceptedIfAwaited(o) ==
    /\ req[o] = "sent" /\ CanHear(o)
    /\ req' = [req EXCEPT ![o] = "running"]
    /\ active' = [active EXCEPT ![reqOf[o]] = IF HoldsLease(o) THEN @ + 1 ELSE @]
    /\ UNCHANGED <<registryVars, bornVars, state, leaseVars, idleVars, child, supVars,
                   reqOf, opVars, task>>

(* LaunchAccepted reaches the hook; nobody need be waiting any more. *)
LaunchAccepted(o) ==
    /\ req[o] = "sent" /\ CanHear(o)
    /\ req' = [req EXCEPT ![o] = "running"]
    /\ active' = [active EXCEPT ![reqOf[o]] = @ + 1]
    /\ UNCHANGED <<registryVars, bornVars, state, leaseVars, idleVars, child, supVars,
                   reqOf, opVars, task>>

(* Error for this request, or the pipe broke before the answer. *)
LaunchRejected(o) ==
    /\ req[o] = "sent"
    /\ req' = [req EXCEPT ![o] = "done"]
    /\ UNCHANGED <<registryVars, bornVars, state, leaseVars, idleVars, child, supVars,
                   reqOf, active, opVars, task>>

(* The controller was forked but its identity could not be captured: an     *)
(* Error about no request, which is fatal to the pipe.                      *)
LaunchUncounted(o) ==
    /\ req[o] = "sent" /\ CanHear(o)
    /\ req' = [req EXCEPT ![o] = "uncounted"]
    /\ link' = [link EXCEPT ![reqOf[o]] = "fatal"]
    /\ UNCHANGED <<registryVars, bornVars, state, leaseVars, idleVars, child, sup, reqOf,
                   active, opVars, task>>

(* Mutant: an exit does not look whether the session became quiet. *)
ControllerExitedUnscheduled(o) ==
    /\ req[o] \in {"running", "uncounted"} /\ CanHear(o)
    /\ req' = [req EXCEPT ![o] = "done"]
    /\ active' = [active EXCEPT ![reqOf[o]] = IF @ = 0 THEN 0 ELSE @ - 1]
    /\ UNCHANGED <<registryVars, bornVars, state, leaseVars, idleVars, child,
                   supVars, reqOf, opVars, task>>

(* ControllerExited: the saturating decrement, then schedule_idle_shutdown. *)
ControllerExited(o) ==
    /\ req[o] \in {"running", "uncounted"} /\ CanHear(o)
    /\ req' = [req EXCEPT ![o] = "done"]
    /\ active' = [active EXCEPT ![reqOf[o]] = IF @ = 0 THEN 0 ELSE @ - 1]
    /\ ScheduleIdleShutdown(reqOf[o])
    /\ UNCHANGED <<registryVars, bornVars, state, leaseVars, fresh, bumps, child,
                   supVars, reqOf, opVars, task>>

-----------------------------------------------------------------------------
(* Idle shutdown *)

(* schedule_idle_shutdown: the test of the counters... *)
ScheduleCheck(s) ==
    /\ checks[s] > 0
    /\ checks' = [checks EXCEPT ![s] = @ - 1]
    /\ bumps' = IF IsQuiet(s) THEN [bumps EXCEPT ![s] = @ + 1] ELSE bumps
    /\ UNCHANGED <<registryVars, bornVars, state, leaseVars, fresh, child, supVars,
                   reqVars, opVars, task>>

(* ... and the generation the sleeping timer will compare. *)
ScheduleBump(s) ==
    /\ bumps[s] > 0
    /\ bumps' = [bumps EXCEPT ![s] = @ - 1]
    /\ fresh' = [fresh EXCEPT ![s] = {Timer}]
    /\ UNCHANGED <<registryVars, bornVars, state, leaseVars, checks, child, supVars,
                   reqVars, opVars, task>>

(* idle_shutdown_if_quiet, two seconds later, for the timer of the current  *)
(* generation.  It fires once the task of an earlier timer has ended.       *)
TimerFires(s) ==
    /\ Timer \in fresh[s]
    /\ task[IdleTask(s)].pc = "none"
    /\ IF sessions[prefixOf[s]] = s /\ IsQuiet(s) /\ state[s] = "Ready"
       THEN /\ fresh' = [fresh EXCEPT ![s] = (@ \ {Timer}) \cup {IdleTask(s)}]
            /\ task' = [task EXCEPT ![IdleTask(s)] = NewTask(s, "Idle")]
       ELSE /\ fresh' = [fresh EXCEPT ![s] = @ \ {Timer}]
            /\ UNCHANGED task
    /\ UNCHANGED <<registryVars, bornVars, state, leaseVars, checks, bumps, child, supVars,
                   reqVars, opVars>>

(* shutdown_prefix, reached through RunnerCleanup::quiesce once the          *)
(* caller's own lease is gone: stop only what nothing uses.                 *)
ShutdownPrefix(o) ==
    /\ o \in Quiescers /\ pc[o] = "done" /\ sessions[OpPrefix[o]] # NoSession
    /\ task' = [task EXCEPT ![OpTask(o)] = NewTask(sessions[OpPrefix[o]], "Quiescent")]
    /\ pc' = [pc EXCEPT ![o] = "quiesce"]
    /\ UNCHANGED <<registryVars, bornVars, state, leaseVars, idleVars, child, supVars,
                   reqVars, mine>>

-----------------------------------------------------------------------------
(* shutdown_session and shutdown_session_locked, as run by task t *)

TaskPrefix(t) == IF t[1] = "close" THEN t[2]
                 ELSE IF t[1] = "op" THEN OpPrefix[t[2]] ELSE prefixOf[t[2]]
(* The session the task works on once it has the lock: shutdown_all looks   *)
(* it up then, the others insist that theirs is still the registered one.   *)
Target(t) == IF t[1] = "close" THEN sessions[TaskPrefix(t)] ELSE task[t].sess

Queued(t) == /\ task[t].pc = "queued" /\ lock[TaskPrefix(t)] = NoOne

Present(t) == Target(t) # NoSession /\ sessions[TaskPrefix(t)] = Target(t)

(* A Quiescent shutdown of a session in use is an error. *)
Forbidden(t) == Present(t) /\ task[t].cause = "Quiescent" /\ ~IsQuiet(Target(t))

(* Mutant: no re-validation under the lock. *)
DueUnchecked(t) ==
    Present(t) /\ ~Forbidden(t) /\ state[Target(t)] \in {"Ready", "Stopping"}

(* The re-validation under the lock and the state mutex. *)
Due(t) ==
    /\ Present(t) /\ ~Forbidden(t)
    /\ \/ state[Target(t)] = "Stopping"
       \/ /\ state[Target(t)] = "Ready"
          /\ task[t].cause = "Idle" => t \in fresh[Target(t)] /\ IsQuiet(Target(t))

(* The result of a task matters to the caller that still awaits it. *)
Finished(t, result) ==
    IF t[1] = "close" \/ (t[1] = "op" /\ pc[t[2]] \in {"awaiting", "quiesce"})
    THEN [NoTask EXCEPT !.pc = result] ELSE NoTask

TaskReturns(t) ==
    /\ Queued(t)
    /\ ~Due(t)
    /\ task' = [task EXCEPT ![t] = Finished(t, IF Forbidden(t) THEN "error" ELSE "ok")]
    /\ UNCHANGED <<registryVars, bornVars, state, leaseVars, idleVars, child, supVars,
                   reqVars, opVars>>

(* A Ready session turns Stopping and is sent Shutdown; one already         *)
(* Stopping is only waited for.  The lock stays held.                       *)
TaskStops(t) ==
    /\ Queued(t)
    /\ Due(t)
    /\ lock' = [lock EXCEPT ![TaskPrefix(t)] = t]
    /\ state' = [state EXCEPT ![Target(t)] = "Stopping"]
    /\ task' = [task EXCEPT ![t].pc = "stopping", ![t].sess = Target(t)]
    /\ UNCHANGED <<known, sessions, closing, census, bornVars, leaseVars, idleVars, child,
                   supVars, reqVars, opVars>>

ReleaseBy(t) ==
    lock' = [p \in Prefixes |-> IF lock[p] = t THEN NoOne ELSE lock[p]]

(* Stopped was read and the child exited. *)
TaskSeesStopped(t) ==
    /\ task[t].pc = "stopping"
    /\ sup[task[t].sess] = "gone" /\ link[task[t].sess] = "ok"
    /\ child' = [child EXCEPT ![task[t].sess] = FALSE]
    /\ state' = [state EXCEPT ![task[t].sess] = "Stopped"]
    /\ RemoveIfSame(task[t].sess)
    /\ ReleaseBy(t)
    /\ task' = [task EXCEPT ![t] = Finished(t, "ok")]
    /\ UNCHANGED <<known, closing, census, bornVars, leaseVars, supVars, reqVars, opVars>>

(* The pipe is broken, twenty seconds passed or the child outlived Stopped: *)
(* fail_session kills the tree and, if nobody took the Child before, the    *)
(* supervisor.                                                              *)
TaskFails(t) ==
    /\ task[t].pc = "stopping"
    /\ child' = [child EXCEPT ![task[t].sess] = FALSE]
    /\ task' = [task EXCEPT ![t].pc = "killing", ![t].handle = child[task[t].sess]]
    /\ UNCHANGED <<registryVars, bornVars, state, leaseVars, idleVars, supVars, reqVars,
                   opVars>>

(* Mutant: the Child is forgotten instead of killed. *)
EndedByItself(t) == UNCHANGED <<sup, link>>

(* The handle's owner ends the supervisor: killed before it could say       *)
(* Stopped, its pipe reaches EOF.                                           *)
Ended(t) ==
    LET killed == {s \in SessionIds : task[t].handle /\ s = task[t].sess /\ sup[s] = "up"} IN
    /\ sup' = [s \in SessionIds |-> IF s \in killed THEN "gone" ELSE sup[s]]
    /\ link' = [s \in SessionIds |-> IF s \in killed THEN "deaf" ELSE link[s]]

(* Mutant: the error path keeps the startup lock. *)
TaskKillsKeepsLock(t) ==
    /\ task[t].pc \in {"killing", "forcing"}
    /\ Ended(t)
    /\ state' = [state EXCEPT ![task[t].sess] = "Failed"]
    /\ RemoveIfSame(task[t].sess)
    /\ task' = [task EXCEPT ![t] = Finished(t, "error")]
    /\ UNCHANGED <<lock, known, closing, census, bornVars, leaseVars, child, reqVars,
                   opVars>>

TaskKills(t) ==
    /\ task[t].pc \in {"killing", "forcing"}
    /\ Ended(t)
    /\ state' = [state EXCEPT ![task[t].sess] = "Failed"]
    /\ RemoveIfSame(task[t].sess)
    /\ ReleaseBy(t)
    /\ task' = [task EXCEPT ![t] = Finished(t, "error")]
    /\ UNCHANGED <<known, closing, census, bornVars, leaseVars, child, reqVars, opVars>>

-----------------------------------------------------------------------------
(* shutdown_all *)

Close ==
    /\ ~closing
    /\ closing' = TRUE
    /\ UNCHANGED <<lock, known, sessions, census, bornVars, state, leaseVars, idleVars,
                   child, supVars, reqVars, opVars, task>>

(* One task per known key, startups that hold their lock included. *)
Census ==
    /\ closing /\ ~census
    /\ census' = TRUE
    /\ task' = [t \in TaskIds |-> IF \E p \in known : t = CloseTask(p)
                                  THEN NewTask(NoSession, "Forced") ELSE task[t]]
    /\ UNCHANGED <<lock, known, sessions, closing, bornVars, state, leaseVars, idleVars,
                   child, supVars, reqVars, opVars>>

(* Fifteen seconds: the shutdown is dropped where it is, with the lock and  *)
(* any Child it had taken (kill_on_drop), and what is registered now is     *)
(* killed without the lock.  (insert_session follows the last read of       *)
(* closing with no await, so a deadline of seconds does not fall between    *)
(* them.)                                                                   *)
CloseTimesOut(p) ==
    LET t == CloseTask(p)
        s == sessions[p] IN
    /\ task[t].pc \in {"queued", "stopping", "killing"}
    /\ \A o \in Ops : OpPrefix[o] = p => pc[o] # "insert"
    /\ ReleaseBy(t)
    /\ Ended(t)
    /\ task' = [task EXCEPT ![t] =
                   IF s = NoSession THEN [NoTask EXCEPT !.pc = "error"]
                   ELSE [NoTask EXCEPT !.pc = "forcing", !.sess = s, !.handle = child[s]]]
    /\ child' = [c \in SessionIds |-> child[c] /\ c # s]
    /\ UNCHANGED <<known, sessions, closing, census, bornVars, state, leaseVars, idleVars,
                   reqVars, opVars>>

-----------------------------------------------------------------------------
(* The supervisor process *)

(* Told to stop, it reaps every controller (Sessiond!StoppedIsClean), says  *)
(* Stopped and exits.                                                       *)
SupervisorStops(s) ==
    /\ sup[s] = "up" /\ state[s] = "Stopping" /\ link[s] = "ok"
    /\ \A o \in Ops : reqOf[o] = s => req[o] \in {"none", "done"}
    /\ sup' = [sup EXCEPT ![s] = "gone"]
    /\ UNCHANGED <<registryVars, bornVars, state, leaseVars, idleVars, child, link, reqVars,
                   opVars, task>>

(* It dies: EOF without Stopped ends the reader.  Its controllers, if any,  *)
(* are never reported.                                                      *)
SupervisorDies(s) ==
    /\ sup[s] = "up" /\ child[s]
    /\ sup' = [sup EXCEPT ![s] = "gone"]
    /\ link' = [link EXCEPT ![s] = "deaf"]
    /\ UNCHANGED <<registryVars, bornVars, state, leaseVars, idleVars, child, reqVars,
                   opVars, task>>

(* A write that fails or times out: fatal, while the reader goes on. *)
PipeBreaks(s) ==
    /\ sup[s] = "up" /\ child[s] /\ link[s] = "ok"
    /\ link' = [link EXCEPT ![s] = "fatal"]
    /\ UNCHANGED <<registryVars, bornVars, state, leaseVars, idleVars, child, sup, reqVars,
                   opVars, task>>

-----------------------------------------------------------------------------

OpBegins(o) ==
    \/ BeginOperation(o) \/ BeginRefused(o) \/ BeginReuses(o) \/ BeginWaits(o)
    \/ BeginStarts(o) \/ BootstrapFails(o) \/ Spawn(o) \/ HandshakeFails(o)
    \/ HandshakeSucceeds(o) \/ InsertSession(o) \/ Unwound(o) \/ AwaitEnds(o)
OpUses(o) == AttachClient(o) \/ Launch(o) \/ ShutdownPrefix(o) \/ Cancel(o)
OpReleases(o) == ReleaseOperationLease(o) \/ ReleaseClientLease(o)
Answer(o) == LaunchAccepted(o) \/ LaunchRejected(o) \/ LaunchUncounted(o)
OpStep(o) == OpBegins(o) \/ OpUses(o) \/ OpReleases(o) \/ Answer(o) \/ ControllerExited(o)
IdleStep(s) == ScheduleCheck(s) \/ ScheduleBump(s) \/ TimerFires(s)
TaskStep(t) == TaskReturns(t) \/ TaskStops(t) \/ TaskSeesStopped(t) \/ TaskFails(t) \/ TaskKills(t)
SupervisorStep(s) == SupervisorStops(s) \/ SupervisorDies(s) \/ PipeBreaks(s)

Next ==
    \/ \E o \in Ops : OpStep(o)
    \/ \E s \in SessionIds : IdleStep(s) \/ SupervisorStep(s)
    \/ \E t \in TaskIds : TaskStep(t)
    \/ Close \/ Census
    \/ \E p \in Prefixes : CloseTimesOut(p)

Spec == Init /\ [][Next]_vars

(* Spawned tasks run, timers expire, callers hand their leases back, and    *)
(* the supervisor answers or is found dead.  Nobody need cancel, close,     *)
(* launch or exit.                                                          *)
Fairness ==
    /\ \A o \in Ops : /\ WF_vars(pc[o] # "idle" /\ OpBegins(o))
                      /\ WF_vars(ReleaseOperationLease(o)) /\ WF_vars(ReleaseClientLease(o))
                      /\ WF_vars(Answer(o))
    /\ \A s \in SessionIds : WF_vars(ScheduleCheck(s)) /\ WF_vars(ScheduleBump(s))
                             /\ WF_vars(TimerFires(s))
    /\ \A t \in TaskIds : WF_vars(TaskStep(t))
    /\ WF_vars(Census)
FairSpec == Spec /\ Fairness

-----------------------------------------------------------------------------
(* Properties *)

OpPc == {"idle", "begin", "awaiting", "quiesce", "bootstrap", "handshake", "insert", "unwind",
         "leased", "attached", "done", "failed"}
Task == [pc: {"none", "queued", "stopping", "killing", "forcing", "ok", "error"},
         sess: SessionIds \cup {NoSession}, cause: {"Idle", "Quiescent", "Forced"},
         handle: BOOLEAN]

TypeOK ==
    /\ lock \in [Prefixes -> Holders] /\ known \subseteq Prefixes
    /\ sessions \in [Prefixes -> SessionIds \cup {NoSession}]
    /\ closing \in BOOLEAN /\ census \in BOOLEAN
    /\ born \in 0..MaxSessions
    /\ prefixOf \in [SessionIds -> Prefixes \cup {NoOne}]
    /\ DOMAIN runnerOf = SessionIds /\ DOMAIN planOf = SessionIds
    /\ state \in [SessionIds -> {"Ready", "Stopping", "Stopped", "Failed"}]
    /\ opLeases \in [SessionIds -> SUBSET Ops] /\ clientLeases \in [SessionIds -> SUBSET Ops]
    /\ active \in [SessionIds -> Nat]
    /\ checks \in [SessionIds -> Nat] /\ bumps \in [SessionIds -> Nat]
    /\ fresh \in [SessionIds -> SUBSET (TaskIds \cup {Timer})]
    /\ child \in [SessionIds -> BOOLEAN]
    /\ sup \in [SessionIds -> {"none", "up", "gone"}]
    /\ link \in [SessionIds -> {"ok", "fatal", "deaf"}]
    /\ pc \in [Ops -> OpPc] /\ mine \in [Ops -> SessionIds \cup {NoSession}]
    /\ req \in [Ops -> {"none", "sent", "running", "uncounted", "done"}]
    /\ reqOf \in [Ops -> SessionIds \cup {NoSession}]
    /\ task \in [TaskIds -> Task]

(* Two supervisors never run on one prefix, whatever is cancelled, killed   *)
(* or timed out between the end of one session and the start of the next.   *)
OneSupervisorPerPrefix ==
    \A s, r \in SessionIds :
        sup[s] = "up" /\ sup[r] = "up" /\ prefixOf[s] = prefixOf[r] => s = r

(* Nobody's session is stopped under them: while an operation or a client   *)
(* holds a lease the session is Ready, until the launcher closes.           *)
LeaseProtectsSession ==
    \A s \in SessionIds :
        opLeases[s] # {} \/ clientLeases[s] # {} => state[s] = "Ready" \/ closing

(* A live supervisor always has an owner that will end it: the registry, a  *)
(* startup that holds the lock, or a shutdown that holds its Child.         *)
NoOrphanSupervisor ==
    \A s \in SessionIds : sup[s] = "up" =>
        \/ sessions[prefixOf[s]] = s
        \/ \E o \in Ops : /\ mine[o] = s /\ pc[o] \in {"handshake", "insert", "unwind"}
                         /\ lock[OpPrefix[o]] = Starter(o)
        \/ \E t \in TaskIds : /\ task[t].sess = s /\ task[t].handle
                              /\ task[t].pc \in {"killing", "forcing"}

(* When every task of shutdown_all_owned has ended, the only supervisors    *)
(* still alive belong to startups that are unwinding or failing.            *)
ClosedIsDrained ==
    census /\ (\A p \in Prefixes : task[CloseTask(p)].pc \in {"none", "ok", "error"}) =>
        \A s \in SessionIds : sup[s] = "up" =>
            \/ \E o \in Ops : mine[o] = s /\ pc[o] \in {"handshake", "unwind"}
            \/ \E t \in TaskIds : task[t].sess = s /\ task[t].handle

(* Supervisors are owned for their whole life, also while the launcher closes.  *)
SupervisorsAreOwned == NoOrphanSupervisor /\ ClosedIsDrained

(* active_requests counts the controllers that run, as long as the pipe is  *)
(* sound: on_launch_accepted and on_controller_exited pair up.              *)
ActiveIsExact ==
    \A s \in SessionIds : link[s] = "ok" =>
        active[s] = Cardinality({o \in Ops : reqOf[o] = s /\ req[o] = "running"})

(* begin_operation always ends, with a lease or an error. *)
BeginResolves ==
    \A o \in Ops : pc[o] = "begin" ~> pc[o] \in {"leased", "failed"}

(* A session nothing uses is stopped: some timer always survives the races  *)
(* between releases, generations and new operations.                        *)
QuietSessionStops ==
    \A s \in SessionIds :
        (child[s] /\ IsQuiet(s)) ~> (sup[s] = "gone" \/ ~IsQuiet(s))

(* "EOF, JSON invalido, segundo Hello, version incompatible o cierre        *)
(* inesperado fallan la sesion" (PTRACE_SESSION_SUPERVISOR_PLAN.md): a      *)
(* registered session whose pipe is dead does not stay Ready.               *)
DeadSessionFails ==
    \A s \in SessionIds :
        (\E p \in Prefixes : sessions[p] = s /\ link[s] = "deaf") ~> state[s] # "Ready"
=============================================================================
