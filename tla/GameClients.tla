----------------------------- MODULE GameClients -----------------------------
(***************************************************************************)
(* Game clients: GameProcessHandle (state/game_process.rs), launch_game    *)
(* and its exit task (tools/launcher/session.rs), the commands that stop   *)
(* games and start combat tools, and the memory sessions of the clients    *)
(* (tools/memory_sessions).                                                *)
(*                                                                         *)
(* A client is one launch; its task is the future of launch_game and then  *)
(* the exit task it spawns.  Every method of the handle is one critical    *)
(* section of its mutex and hence atomic; between two of them other        *)
(* threads run.  The asynchronous lock tool_lifecycle is held across       *)
(* awaits by the commands and by the end of an exit task.                  *)
(*                                                                         *)
(* A process is named by its identity (pid, start_time), never reused.     *)
(* The combat tools are one: every command and cleanup stops all of them   *)
(* and each is started alone under the same rules.                         *)
(***************************************************************************)
EXTENDS Naturals, FiniteSets

CONSTANTS
    Clients,    \* the launches of a run
    MaxProcs,   \* bound on the processes of a run
    NoClient    \* owner of no memory session

Procs == 1..MaxProcs
NoProc == 0

ASSUME NoClientAssumption == NoClient \notin Clients
ASSUME ProcsAssumption == MaxProcs \in Nat

VARIABLES
    \* RegistryState
    client,      \* ProcessState of each launch: "absent", "Launching" or "Running"
    stop,        \* stop_requested
    ident,       \* identity of a Running client
    controller,  \* controller recorded in the entry
    closed,      \* relaunch_admission_closed
    \* the task of each client
    pc,
    child,       \* SpawnedRunner: the controller it started
    cand,        \* the process it found and does not own yet
    seen,        \* baseline and the identities it has had
    \* combat tools and the command that holds tool_lifecycle
    tool, toolId,
    cmd, cmdId, targets,
    \* MemorySessionRegistry: who registered the current session of a process
    memory,
    \* operating system
    born,        \* processes 1..born have existed
    alive,
    game,        \* those that run the game's executable
    signalled    \* terminate_processes was called on them

entryVars == <<client, stop, ident, controller>>
taskVars == <<child, cand, seen>>
toolVars == <<tool, toolId>>
cmdVars == <<cmd, cmdId, targets>>
osVars == <<born, alive, game, signalled>>
vars == <<entryVars, closed, pc, taskVars, toolVars, cmdVars, memory, osVars>>

Init ==
    /\ client = [c \in Clients |-> "absent"] /\ stop = [c \in Clients |-> FALSE]
    /\ ident = [c \in Clients |-> NoProc] /\ controller = [c \in Clients |-> NoProc]
    /\ closed = FALSE
    /\ pc = [c \in Clients |-> "idle"]
    /\ child = [c \in Clients |-> NoProc] /\ cand = [c \in Clients |-> NoProc]
    /\ seen = [c \in Clients |-> {}]
    /\ tool = "off" /\ toolId = NoProc
    /\ cmd = "idle" /\ cmdId = NoProc /\ targets = {}
    /\ memory = [p \in Procs |-> NoClient]
    /\ born = 0 /\ alive = {} /\ game = {} /\ signalled = {}

-----------------------------------------------------------------------------
(* Helpers *)

Present == {c \in Clients : client[c] # "absent"}
Others(c) == Present \ {c}

(* tool_lifecycle is held by a command, by a launch that stops the tools    *)
(* and by the exit task of the last client while it stops them.             *)
LifecycleFree == cmd = "idle" /\ \A c \in Clients : pc[c] \notin {"admit", "cleanup"}

(* AutopotHandle::stop and its siblings: the loop and its channels are gone. *)
ToolsOff == tool' = "off" /\ toolId' = NoProc

Goto(c, label) == pc' = [pc EXCEPT ![c] = label]

(* MemoryLease dropped: it takes away only the session it registered. *)
DropLease(c, p) ==
    IF p # NoProc /\ memory[p] = c THEN [memory EXCEPT ![p] = NoClient] ELSE memory

(* find_game_processes: every live process of the executable in the prefix, *)
(* the controller itself before any other.  The finer ranking by ancestry   *)
(* is left open.                                                            *)
Candidates(c, known) ==
    LET found == game \ known
    IN  IF child[c] \in found THEN {child[c]} ELSE found

(* sole_running_identity, sole_running_pid_for *)
SoleRunning(c) == Present = {c} /\ client[c] = "Running" /\ ~stop[c]

-----------------------------------------------------------------------------
(* Admission: commands::launch_game up to the release of tool_lifecycle *)

(* Mutant: the relaunch guard is not consulted. *)
AdmissibleWhileClosing == \A d \in Clients : client[d] # "Launching"

Admissible == ~closed /\ \A d \in Clients : client[d] # "Launching"

BeginLaunch(c) ==
    /\ pc[c] = "idle" /\ LifecycleFree
    /\ Admissible
    /\ client' = [client EXCEPT ![c] = "Launching"]
    /\ Goto(c, IF Present = {} THEN "baseline" ELSE "admit")
    /\ UNCHANGED <<stop, ident, controller, closed, taskVars, toolVars, cmdVars, memory, osVars>>

(* stop_tools_for_additional_client.  A tool that does not stop in time is  *)
(* aborted: it is stopped as well, but the launch fails.                    *)
AdmitStopsTools(c) ==
    /\ pc[c] = "admit"
    /\ ToolsOff
    /\ Goto(c, "baseline") \/ Goto(c, "abort")
    /\ UNCHANGED <<entryVars, closed, taskVars, cmdVars, memory, osVars>>

-----------------------------------------------------------------------------
(* launch_game *)

(* The processes that are there before ours are not ours. *)
Baseline(c) ==
    /\ pc[c] = "baseline"
    /\ seen' = [seen EXCEPT ![c] = game]
    /\ Goto(c, "prepare")
    /\ UNCHANGED <<entryVars, closed, child, cand, toolVars, cmdVars, memory, osVars>>

(* Session, guards, components and environment; any of them may fail. *)
Prepare(c) ==
    /\ pc[c] = "prepare"
    /\ Goto(c, "abort") \/ (~stop[c] /\ Goto(c, "spawn"))
    /\ UNCHANGED <<entryVars, closed, taskVars, toolVars, cmdVars, memory, osVars>>

SpawnFails(c) ==
    /\ pc[c] = "spawn"
    /\ Goto(c, "abort")
    /\ UNCHANGED <<entryVars, closed, taskVars, toolVars, cmdVars, memory, osVars>>

(* The controller runs; under Wine it may become the game itself. *)
SpawnController(c) ==
    /\ pc[c] = "spawn" /\ born < MaxProcs
    /\ born' = born + 1 /\ alive' = alive \cup {born'}
    /\ game' = game \/ game' = game \cup {born'}
    /\ child' = [child EXCEPT ![c] = born']
    /\ Goto(c, "mark")
    /\ UNCHANGED <<entryVars, closed, cand, seen, toolVars, cmdVars, memory, signalled>>

(* mark_controller *)
MarkController(c) ==
    /\ pc[c] = "mark"
    /\ IF stop[c]
       THEN Goto(c, "abort") /\ UNCHANGED controller
       ELSE Goto(c, "search") /\ controller' = [controller EXCEPT ![c] = child[c]]
    /\ UNCHANGED <<client, stop, ident, closed, taskVars, toolVars, cmdVars, memory, osVars>>

(* wait_for_game_process.  exclude_controller changes nothing: under Proton *)
(* the controller is a wrapper, which has not the name of the game.         *)
SearchFinds(c) ==
    /\ pc[c] = "search" /\ ~stop[c]
    /\ \E p \in Candidates(c, seen[c]) : cand' = [cand EXCEPT ![c] = p]
    /\ Goto(c, "register")
    /\ UNCHANGED <<entryVars, closed, child, seen, toolVars, cmdVars, memory, osVars>>

(* Stop, or the thirty seconds (five minutes with a patcher) are over. *)
SearchGivesUp(c) ==
    /\ pc[c] = "search"
    /\ Goto(c, "abort")
    /\ UNCHANGED <<entryVars, closed, taskVars, toolVars, cmdVars, memory, osVars>>

(* MemorySessionRegistry::register, for the launch and for the handoff. *)
RegisterMemory(c, done) ==
    /\ cand[c] \in alive
    /\ memory' = [memory EXCEPT ![cand[c]] = c]
    /\ Goto(c, done)
    /\ UNCHANGED <<entryVars, closed, taskVars, toolVars, cmdVars, osVars>>

(* The process is gone or its maps cannot be read. *)
RegisterFails(c, done) ==
    /\ Goto(c, done)
    /\ UNCHANGED <<entryVars, closed, taskVars, toolVars, cmdVars, memory, osVars>>

LaunchRegisters(c) ==
    pc[c] = "register" /\ (RegisterMemory(c, "promote") \/ RegisterFails(c, "abort"))

(* Mutant: a stop requested since the search is overlooked. *)
PromotableWhileStopping(c) == \A d \in Others(c) : ident[d] # cand[c]

Promotable(c) == ~stop[c] /\ \A d \in Others(c) : ident[d] # cand[c]

(* mark_running and, without an await in between, the exit task. *)
MarkRunning(c) ==
    /\ pc[c] = "promote" /\ Promotable(c)
    /\ client' = [client EXCEPT ![c] = "Running"]
    /\ ident' = [ident EXCEPT ![c] = cand[c]]
    /\ seen' = [seen EXCEPT ![c] = @ \cup {cand[c]}]
    /\ cand' = [cand EXCEPT ![c] = NoProc]
    /\ Goto(c, "watch")
    /\ UNCHANGED <<stop, controller, closed, child, toolVars, cmdVars, memory, osVars>>

MarkRunningFails(c) ==
    /\ pc[c] = "promote" /\ ~Promotable(c)
    /\ memory' = DropLease(c, cand[c])
    /\ Goto(c, "abort")
    /\ UNCHANGED <<entryVars, closed, taskVars, toolVars, cmdVars, osVars>>

(* SupervisedProcess::terminate: TERM, then KILL. *)
TerminateController(c) ==
    /\ pc[c] \in {"abort", "terminate"}
    /\ child[c] \in alive \ signalled
    /\ signalled' = signalled \cup {child[c]}
    /\ UNCHANGED <<entryVars, closed, pc, taskVars, toolVars, cmdVars, memory, born, alive, game>>

(* ... and its wait: for the exit, or no longer when the session was lost.  *)
ControllerGone(c) == child[c] \notin alive \ signalled

(* The failed launch returns: PendingGameProcess terminates the game it had *)
(* found and PendingLaunchGuard removes the Launching entry.                *)
AbortEnds(c) ==
    /\ pc[c] = "abort" /\ ControllerGone(c)
    /\ signalled' = signalled \cup ({cand[c]} \cap alive)
    /\ client' = [client EXCEPT ![c] = "absent"]
    /\ stop' = [stop EXCEPT ![c] = FALSE]
    /\ controller' = [controller EXCEPT ![c] = NoProc]
    /\ cand' = [cand EXCEPT ![c] = NoProc] /\ seen' = [seen EXCEPT ![c] = {}]
    /\ child' = [child EXCEPT ![c] = NoProc]
    /\ Goto(c, "end")
    /\ UNCHANGED <<ident, closed, toolVars, cmdVars, memory, born, alive, game>>

-----------------------------------------------------------------------------
(* The exit task *)

(* The watched process is gone: a stopped client ends, another one may have *)
(* restarted itself as a new process.                                       *)
WatchEnds(c) ==
    /\ pc[c] = "watch" /\ ident[c] \notin alive
    /\ Goto(c, IF stop[c] THEN "terminate" ELSE "handoff")
    /\ UNCHANGED <<entryVars, closed, taskVars, toolVars, cmdVars, memory, osVars>>

(* Mutants: a process of another client, or of one that is launching, is    *)
(* taken over.                                                              *)
ForeignIgnoresIdentity(c, p) == \E d \in Others(c) : client[d] = "Launching"
ForeignIgnoresLaunch(c, p) == \E d \in Others(c) : ident[d] = p

(* What candidate_available_for_handoff and replace_running both refuse. *)
Foreign(c, p) == \E d \in Others(c) : client[d] = "Launching" \/ ident[d] = p

(* wait_for_process_handoff *)
HandoffFinds(c) ==
    /\ pc[c] = "handoff" /\ ~stop[c]
    /\ \E p \in Candidates(c, seen[c]) :
          /\ ~Foreign(c, p)
          /\ cand' = [cand EXCEPT ![c] = p]
    /\ Goto(c, "reregister")
    /\ UNCHANGED <<entryVars, closed, child, seen, toolVars, cmdVars, memory, osVars>>

(* Stop, or nothing in the five seconds of PROCESS_HANDOFF_GRACE. *)
HandoffGivesUp(c) ==
    /\ pc[c] = "handoff"
    /\ Goto(c, "terminate")
    /\ UNCHANGED <<entryVars, closed, taskVars, toolVars, cmdVars, memory, osVars>>

HandoffRegisters(c) ==
    pc[c] = "reregister" /\ (RegisterMemory(c, "replace") \/ RegisterFails(c, "terminate"))

Replaceable(c) == ~stop[c] /\ ~Foreign(c, cand[c])

(* replace_running: the new lease takes the place of the old one. *)
ReplaceRunning(c) ==
    /\ pc[c] = "replace" /\ Replaceable(c)
    /\ ident' = [ident EXCEPT ![c] = cand[c]]
    /\ seen' = [seen EXCEPT ![c] = @ \cup {cand[c]}]
    /\ memory' = DropLease(c, ident[c])
    /\ Goto(c, "publish")
    /\ UNCHANGED <<client, stop, controller, closed, child, cand, toolVars, cmdVars, osVars>>

(* Refused: the lease of the replacement is dropped with the arguments. *)
ReplaceRefused(c) ==
    /\ pc[c] = "replace" /\ ~Replaceable(c)
    /\ memory' = DropLease(c, cand[c])
    /\ cand' = [cand EXCEPT ![c] = NoProc]
    /\ Goto(c, "terminate")
    /\ UNCHANGED <<entryVars, closed, child, seen, toolVars, cmdVars, osVars>>

(* AutopotHandle::handoff: whoever listens on the installed channel hears it. *)
PublishHandoff(c) ==
    /\ pc[c] = "publish"
    /\ toolId' = IF tool = "on" THEN cand[c] ELSE toolId
    /\ cand' = [cand EXCEPT ![c] = NoProc]
    /\ Goto(c, "watch")
    /\ UNCHANGED <<entryVars, closed, child, seen, tool, cmdVars, memory, osVars>>

Terminated(c) ==
    /\ pc[c] = "terminate" /\ ControllerGone(c)
    /\ Goto(c, "finish")
    /\ UNCHANGED <<entryVars, closed, taskVars, toolVars, cmdVars, memory, osVars>>

(* Mutant: the clients that remain are counted before this one is removed. *)
LastClientCountedEarly(c) == Present = {}

LastClient(c) == Others(c) = {}

(* finish, under tool_lifecycle; the entry takes its leases with it. *)
Finish(c) ==
    /\ pc[c] = "finish" /\ LifecycleFree
    /\ client' = [client EXCEPT ![c] = "absent"]
    /\ stop' = [stop EXCEPT ![c] = FALSE]
    /\ ident' = [ident EXCEPT ![c] = NoProc]
    /\ controller' = [controller EXCEPT ![c] = NoProc]
    /\ memory' = DropLease(c, ident[c])
    /\ seen' = [seen EXCEPT ![c] = {}] /\ child' = [child EXCEPT ![c] = NoProc]
    /\ cand' = [cand EXCEPT ![c] = NoProc]
    /\ Goto(c, IF LastClient(c) THEN "cleanup" ELSE "end")
    /\ UNCHANGED <<closed, toolVars, cmdVars, osVars>>

CleanupStopsTools(c) ==
    /\ pc[c] = "cleanup"
    /\ ToolsOff
    /\ Goto(c, "end")
    /\ UNCHANGED <<entryVars, closed, taskVars, cmdVars, memory, osVars>>

LaunchStep(c) ==
    \/ AdmitStopsTools(c) \/ Baseline(c) \/ Prepare(c) \/ SpawnFails(c) \/ SpawnController(c)
    \/ MarkController(c) \/ SearchFinds(c) \/ SearchGivesUp(c) \/ LaunchRegisters(c)
    \/ MarkRunning(c) \/ MarkRunningFails(c) \/ TerminateController(c) \/ AbortEnds(c)
ExitStep(c) ==
    \/ WatchEnds(c) \/ HandoffFinds(c) \/ HandoffGivesUp(c) \/ HandoffRegisters(c)
    \/ ReplaceRunning(c) \/ ReplaceRefused(c) \/ PublishHandoff(c) \/ Terminated(c)
    \/ CleanupStopsTools(c)

-----------------------------------------------------------------------------
(* Commands, each under tool_lifecycle *)

(* request_stop; the identities are those of this moment. *)
StopGame(c) ==
    /\ LifecycleFree /\ c \in Present
    /\ stop' = [stop EXCEPT ![c] = TRUE]
    /\ targets' = {ident[c], controller[c]} \ {NoProc}
    /\ cmd' = IF Present = {c} THEN "stop" ELSE "signal"
    /\ UNCHANGED <<client, ident, controller, closed, pc, taskVars, toolVars, cmdId, memory,
                   osVars>>

StopGameStopsTools ==
    /\ cmd = "stop"
    /\ ToolsOff /\ cmd' = "signal"
    /\ UNCHANGED <<entryVars, closed, pc, taskVars, cmdId, targets, memory, osVars>>

(* stop_all_games: the tools first, then request_stop_all. *)
StopAllGames ==
    /\ LifecycleFree
    /\ cmd' = "stopAll"
    /\ UNCHANGED <<entryVars, closed, pc, taskVars, toolVars, cmdId, targets, memory, osVars>>

StopAllRequests ==
    /\ cmd = "stopAll"
    /\ ToolsOff /\ cmd' = "signal"
    /\ stop' = [c \in Clients |-> c \in Present]
    /\ targets' = (UNION {{ident[c], controller[c]} : c \in Present}) \ {NoProc}
    /\ UNCHANGED <<client, ident, controller, closed, pc, taskVars, cmdId, memory, osVars>>

(* terminate_processes: TERM now, KILL two seconds later. *)
SignalTargets ==
    /\ cmd = "signal"
    /\ signalled' = signalled \cup (targets \cap alive)
    /\ cmd' = "idle" /\ targets' = {}
    /\ UNCHANGED <<entryVars, closed, pc, taskVars, toolVars, cmdId, memory, born, alive, game>>

(* start_autopot, start_autobuff: the identity is read here...  They also   *)
(* ask for its memory session, which start_spammer does without.            *)
StartTool(c) ==
    /\ LifecycleFree /\ SoleRunning(c)
    /\ cmd' = "start" /\ cmdId' = ident[c]
    /\ UNCHANGED <<entryVars, closed, pc, taskVars, toolVars, targets, memory, osVars>>

(* ... the previous loop is stopped, and the channel a handoff writes to is *)
(* installed here.                                                          *)
ToolStarts ==
    /\ cmd = "start"
    /\ tool' = "on" /\ toolId' = cmdId
    /\ cmd' = "idle" /\ cmdId' = NoProc
    /\ UNCHANGED <<entryVars, closed, pc, taskVars, targets, memory, osVars>>

(* No writer (the old loop goes on), or the old loop had to be aborted. *)
ToolStartFails ==
    /\ cmd = "start"
    /\ ToolsOff \/ UNCHANGED toolVars
    /\ cmd' = "idle" /\ cmdId' = NoProc
    /\ UNCHANGED <<entryVars, closed, pc, taskVars, targets, memory, osVars>>

StopTool ==
    /\ LifecycleFree /\ tool = "on"
    /\ ToolsOff
    /\ UNCHANGED <<entryVars, closed, pc, taskVars, cmdVars, memory, osVars>>

(* close_admission_if_idle and the drop of its guard, used by the updater. *)
CloseAdmission ==
    /\ Present = {} /\ ~closed
    /\ closed' = TRUE
    /\ UNCHANGED <<entryVars, pc, taskVars, toolVars, cmdVars, memory, osVars>>

ReopenAdmission ==
    /\ closed
    /\ closed' = FALSE
    /\ UNCHANGED <<entryVars, pc, taskVars, toolVars, cmdVars, memory, osVars>>

CommandStep == StopGameStopsTools \/ StopAllRequests \/ SignalTargets \/ ToolStarts
               \/ ToolStartFails

-----------------------------------------------------------------------------
(* Processes *)

(* A controller or a game forks a game: the first one, or the one that      *)
(* takes its place.                                                         *)
GameAppears ==
    /\ alive # {} /\ born < MaxProcs
    /\ born' = born + 1
    /\ alive' = alive \cup {born'} /\ game' = game \cup {born'}
    /\ UNCHANGED <<entryVars, closed, pc, taskVars, toolVars, cmdVars, memory, signalled>>

(* By itself, or because of a signal. *)
ProcessDies(p) ==
    /\ p \in alive
    /\ alive' = alive \ {p}
    /\ signalled' = signalled \ {p} /\ game' = game \ {p}
    /\ UNCHANGED <<entryVars, closed, pc, taskVars, toolVars, cmdVars, memory, born>>

Next ==
    \/ \E c \in Clients : BeginLaunch(c) \/ LaunchStep(c) \/ ExitStep(c) \/ Finish(c)
                           \/ StopGame(c) \/ StartTool(c)
    \/ StopAllGames \/ StopTool \/ CommandStep \/ CloseAdmission \/ ReopenAdmission
    \/ GameAppears \/ \E p \in Procs : ProcessDies(p)

Spec == Init /\ [][Next]_vars

(* Tasks and commands run and time passes; the asynchronous mutex serves    *)
(* its waiters in order, so an exit task gets its turn although commands    *)
(* come and go; a process that ignores TERM is killed.                      *)
Fairness ==
    /\ \A c \in Clients : WF_vars(LaunchStep(c) \/ ExitStep(c))
    /\ SF_vars(\E c \in Clients : Finish(c))
    /\ WF_vars(CommandStep)
    /\ WF_vars(\E p \in signalled : ProcessDies(p))
FairSpec == Spec /\ Fairness

-----------------------------------------------------------------------------
(* Properties *)

TypeOK ==
    /\ client \in [Clients -> {"absent", "Launching", "Running"}]
    /\ stop \in [Clients -> BOOLEAN] /\ closed \in BOOLEAN
    /\ ident \in [Clients -> 0..MaxProcs] /\ controller \in [Clients -> 0..MaxProcs]
    /\ pc \in [Clients -> {"idle", "admit", "baseline", "prepare", "spawn", "mark", "search",
                            "register", "promote", "abort", "watch", "handoff", "reregister",
                            "replace", "publish", "terminate", "finish", "cleanup", "end"}]
    /\ child \in [Clients -> 0..MaxProcs] /\ cand \in [Clients -> 0..MaxProcs]
    /\ seen \in [Clients -> SUBSET Procs]
    /\ tool \in {"off", "on"} /\ toolId \in 0..MaxProcs
    /\ cmd \in {"idle", "stop", "stopAll", "signal", "start"} /\ cmdId \in 0..MaxProcs
    /\ targets \subseteq Procs
    /\ memory \in [Procs -> Clients \cup {NoClient}]
    /\ born \in 0..MaxProcs /\ alive \subseteq Procs /\ game \subseteq alive
    /\ signalled \subseteq alive

(* mark_running and replace_running: no two clients hold the same process,  *)
(* however their searches overlap.                                          *)
IdentityUnique ==
    \A c, d \in Clients : c # d /\ client[c] = "Running" /\ client[d] = "Running"
                           => ident[c] # ident[d]

(* Whenever tool_lifecycle is free, a running combat tool has exactly one   *)
(* client, Running and not being stopped: launches, stops and the exit of   *)
(* the last client all leave no tool behind.                                *)
ToolsHaveOneClient ==
    tool = "on" /\ LifecycleFree => \E c \in Clients : SoleRunning(c)

(* A failed or stopped launch, an exit task and stop_game never signal the  *)
(* process of another client that nobody asked to stop.                     *)
OthersSpared ==
    [][\A p \in signalled' \ signalled : \A c \in Clients :
          client'[c] = "Running" /\ ident'[c] = p => stop'[c]]_vars

(* While the updater holds the relaunch admission there is no client. *)
RelaunchExcludesClients == closed => Present = {}

(* A stop requested at any point of a launch, of a handoff or of the game   *)
(* ends with the client gone.                                               *)
StopEndsClient ==
    \A c \in Clients : (client[c] # "absent" /\ stop[c]) ~> (client[c] = "absent")

(* PTRACE_SESSION_SUPERVISOR_PLAN.md, of a handoff: it registers a new      *)
(* memory session and drops the old one "sin alterar otros clientes".  So   *)
(* a Running client always has the memory session it registered.            *)
HandoffSparesOthers ==
    \A c \in Clients : client[c] = "Running" => memory[ident[c]] # NoClient
=============================================================================
