------------------------------ MODULE Sessiond ------------------------------
(***************************************************************************)
(* ro-sessiond, the per-prefix supervisor process (crates/ro-sessiond).    *)
(*                                                                         *)
(* It reads request lines from stdin, forks controllers, is the subreaper  *)
(* of everything they fork, reports events on stdout and, when told to     *)
(* stop, signals and reaps until waitpid says ECHILD.                      *)
(*                                                                         *)
(* The main loop is one thread; `pc` names the point of the iteration it   *)
(* is at, so the operating system (children that fork and exit, signals,   *)
(* the clock, the client at the other end of the pipe) may act between any *)
(* two of its stages.  A controller is named by the id of the request that *)
(* forked it: its pid cannot be reused before it is reaped, and the reap   *)
(* removes the pid from the table.                                         *)
(***************************************************************************)
EXTENDS Naturals, Sequences, FiniteSets

CONSTANTS
    RequestIds,   \* request ids the client may use
    Forkers,      \* the controllers that fork a descendant of their own
    MaxInFlight,  \* MAX_IN_FLIGHT_LAUNCHES
    ClientLines,  \* the lines the client may write
    MaxLines,     \* bound on the lines the client writes
    MaxUnread,    \* bound on the lines waiting in the pipe
    NoId          \* the request id of an event about no request

(* The request lines, as far as the supervisor tells them apart. *)
Request == [type: {"Launch", "Shutdown"}, id: RequestIds]
           \cup [type: {"Hello", "Malformed"}, id: {NoId}]

ASSUME RequestIdsAssumption == NoId \notin RequestIds
ASSUME FinitenessAssumption == IsFiniteSet(RequestIds)
ASSUME ForkersAssumption == Forkers \subseteq RequestIds
ASSUME ClientLinesAssumption == ClientLines \subseteq Request
ASSUME BoundsAssumption == MaxInFlight \in Nat /\ MaxLines \in Nat /\ MaxUnread \in Nat

VARIABLES
    \* pipes
    stdin,         \* lines written by the client and not yet read
    stdinClosed,   \* the client closed its end
    sent,          \* lines the client has written
    stdout,        \* every event emitted so far, in order
    \* Supervisor
    phase,         \* SessionPhase
    requestIds,    \* request_ids
    inFlight,      \* in_flight
    controllers,   \* keys of pid_to_request / controllers
    shutdownId,    \* shutdown_request_id, NoId when None
    forced,        \* forced_shutdown
    deadline,      \* shutdown_deadline
    term,          \* term_sent_at
    lastEchild,    \* last_wait_echild
    \* run_session
    pc,            \* stage of the loop; "exited" once the process is gone
    stdinEof, idleStreak, idleEmitted,
    \* operating system
    sigterm,       \* SIGTERM_FLAG
    parentAlive,   \* getppid() still is the launcher
    proc,          \* state of each controller process
    kid            \* state of the descendant each controller may fork

pipeVars == <<stdin, stdinClosed, sent>>
tableVars == <<requestIds, inFlight, controllers, shutdownId>>
stopVars == <<phase, forced, deadline, term>>
loopVars == <<lastEchild, stdinEof, idleStreak, idleEmitted>>
osVars == <<sigterm, parentAlive, proc, kid>>
vars == <<pipeVars, stdout, tableVars, stopVars, loopVars, pc, osVars>>

-----------------------------------------------------------------------------
(* Messages *)

Hello == [type |-> "Hello", id |-> NoId]

Event == [type: {"LaunchAccepted", "ControllerExited", "ShutdownAccepted", "Error"},
          id: RequestIds]
         \cup [type: {"Ready", "Idle", "Stopped", "Error"}, id: {NoId}]

Ev(type, id) == [type |-> type, id |-> id]
Emit(type, id) == stdout' = Append(stdout, Ev(type, id))

(* Did event e leave the process? *)
Emitted(e) == \E i \in 1..Len(stdout) : stdout[i] = e

-----------------------------------------------------------------------------
(* Processes *)

ProcState == {"none", "run", "zombie", "gone"}
Exists(state) == state \in {"run", "zombie"}

(* waitpid(-1) answers ECHILD exactly when this is false: orphans of a dead *)
(* controller are children of the subreaper.                                *)
HasChildren == \E r \in RequestIds : Exists(proc[r]) \/ Exists(kid[r])

(* The zombies waitpid(-1) may return now. *)
ReapableControllers == {r \in RequestIds : proc[r] = "zombie"}
ReapableOrphans == {r \in RequestIds : kid[r] = "zombie" /\ proc[r] # "run"}

-----------------------------------------------------------------------------

Init ==
    /\ stdin = <<>> /\ stdinClosed = FALSE /\ sent = 0
    /\ stdout = <<>>
    /\ phase = "Ready" /\ forced = FALSE /\ deadline = "none" /\ term = "no"
    /\ requestIds = {} /\ inFlight = 0 /\ controllers = {} /\ shutdownId = NoId
    /\ lastEchild = FALSE /\ stdinEof = FALSE /\ idleStreak = 0 /\ idleEmitted = FALSE
    /\ pc = "handshake"
    /\ sigterm = FALSE /\ parentAlive = TRUE
    /\ proc = [r \in RequestIds |-> "none"]
    /\ kid = [r \in RequestIds |-> "none"]

-----------------------------------------------------------------------------
(* Handshake: the first line must be a Hello, within five seconds. *)

HandshakeOk ==
    /\ pc = "handshake"
    /\ stdin # <<>> /\ Head(stdin) = Hello
    /\ stdin' = Tail(stdin)
    /\ Emit("Ready", NoId)
    /\ pc' = "top"
    /\ UNCHANGED <<stdinClosed, sent, tableVars, stopVars, loopVars, osVars>>

(* A line that is no Hello, EOF or the deadline: an error and exit code 1. *)
HandshakeFails ==
    /\ pc = "handshake"
    /\ ~(stdin # <<>> /\ Head(stdin) = Hello)
    /\ Emit("Error", NoId)
    /\ pc' = "exited"
    /\ UNCHANGED <<pipeVars, tableVars, stopVars, loopVars, osVars>>

-----------------------------------------------------------------------------
(* Supervisor operations *)

(* Effects of begin_forced_shutdown on the stop variables. *)
BeginForcedShutdown ==
    /\ forced' = TRUE
    /\ phase' = "Stopping"
    /\ deadline' = IF deadline = "none" THEN "armed" ELSE deadline
    /\ UNCHANGED term

(* fork succeeded: the child process exists and both tables know it. *)
Spawned(r) ==
    /\ proc' = [proc EXCEPT ![r] = "run"]
    /\ controllers' = controllers \cup {r}

LaunchRefused(r) ==
    \/ phase # "Ready"
    \/ r \in requestIds
    \/ inFlight >= MaxInFlight

(* handle_launch, the early returns: only a fresh id is remembered. *)
LaunchRejected(r) ==
    /\ LaunchRefused(r)
    /\ Emit("Error", r)
    /\ requestIds' = IF phase = "Ready" THEN requestIds \cup {r} ELSE requestIds
    /\ UNCHANGED <<inFlight, controllers, shutdownId, stopVars, proc>>

(* handle_launch, invalid spec or failed fork. *)
LaunchFailed(r) ==
    /\ ~LaunchRefused(r)
    /\ requestIds' = requestIds \cup {r}
    /\ Emit("Error", r)
    /\ UNCHANGED <<inFlight, controllers, shutdownId, stopVars, proc>>

(* Mutant: the count moves below the fallible identity capture. *)
LaunchForkedCountsAccepted(r) ==
    /\ ~LaunchRefused(r)
    /\ requestIds' = requestIds \cup {r}
    /\ Spawned(r)
    /\ \/ inFlight' = inFlight + 1 /\ Emit("LaunchAccepted", r)
       \/ UNCHANGED inFlight /\ Emit("Error", NoId)
    /\ UNCHANGED <<shutdownId, stopVars>>

(* handle_launch, forked.  When the identity of the unreaped controller     *)
(* cannot be read the tables keep it and the error names no request.        *)
LaunchForked(r) ==
    /\ ~LaunchRefused(r)
    /\ requestIds' = requestIds \cup {r}
    /\ Spawned(r)
    /\ inFlight' = inFlight + 1
    /\ Emit("LaunchAccepted", r) \/ Emit("Error", NoId)
    /\ UNCHANGED <<shutdownId, stopVars>>

(* handle_shutdown, the early returns. *)
ShutdownRejected(r) ==
    /\ phase # "Ready" \/ r \in requestIds
    /\ Emit("Error", r)
    /\ UNCHANGED <<tableVars, stopVars, proc>>

(* handle_shutdown with a spec that does not validate or does not fork. *)
ShutdownForces(r) ==
    /\ phase = "Ready" /\ r \notin requestIds
    /\ requestIds' = requestIds \cup {r}
    /\ shutdownId' = r
    /\ Emit("Error", r)
    /\ BeginForcedShutdown
    /\ UNCHANGED <<inFlight, controllers, proc>>

(* handle_shutdown: the runner's own shutdown command runs as a controller  *)
(* that is not counted in flight and reports no exit.                       *)
ShutdownForked(r) ==
    /\ phase = "Ready" /\ r \notin requestIds
    /\ requestIds' = requestIds \cup {r}
    /\ shutdownId' = r
    /\ Spawned(r)
    /\ phase' = "Stopping" /\ deadline' = "armed"
    /\ Emit("ShutdownAccepted", r)
    /\ UNCHANGED <<inFlight, forced, term>>

(* handle_line *)
HandleLine(line) ==
    \/ /\ line.type = "Launch"
       /\ LaunchRejected(line.id) \/ LaunchFailed(line.id) \/ LaunchForked(line.id)
    \/ /\ line.type = "Shutdown"
       /\ ShutdownRejected(line.id) \/ ShutdownForces(line.id) \/ ShutdownForked(line.id)
    \/ /\ line.type = "Hello"
       /\ Emit("Error", NoId)
       /\ BeginForcedShutdown
       /\ UNCHANGED <<tableVars, proc>>
    \/ /\ line.type = "Malformed"
       /\ Emit("Error", NoId)
       /\ UNCHANGED <<tableVars, stopVars, proc>>

-----------------------------------------------------------------------------
(* The loop of run_session, stage by stage *)

(* Parent check and SIGTERM flag; the flag is consumed. *)
LoopTop ==
    /\ pc = "top"
    /\ IF sigterm \/ ~parentAlive THEN BeginForcedShutdown ELSE UNCHANGED stopVars
    /\ sigterm' = FALSE
    /\ pc' = "stdin"
    /\ UNCHANGED <<pipeVars, stdout, tableVars, loopVars, parentAlive, proc, kid>>

(* At most one line per iteration. *)
ReadLine ==
    /\ pc = "stdin"
    /\ ~stdinEof /\ stdin # <<>>
    /\ HandleLine(Head(stdin))
    /\ stdin' = Tail(stdin)
    /\ pc' = "reap"
    /\ UNCHANGED <<stdinClosed, sent, loopVars, sigterm, parentAlive, kid>>

ReadEof ==
    /\ pc = "stdin"
    /\ ~stdinEof /\ stdin = <<>> /\ stdinClosed
    /\ stdinEof' = TRUE
    /\ BeginForcedShutdown
    /\ pc' = "reap"
    /\ UNCHANGED <<pipeVars, stdout, tableVars, lastEchild, idleStreak, idleEmitted, osVars>>

ReadNothing ==
    /\ pc = "stdin"
    /\ stdinEof \/ (stdin = <<>> /\ ~stdinClosed)
    /\ pc' = "reap"
    /\ UNCHANGED <<pipeVars, stdout, tableVars, stopVars, loopVars, osVars>>

(* Mutant: the shutdown controller is counted out without having been in. *)
ReapControllerCountsAll(r) ==
    /\ pc \in {"reap", "reap2"}
    /\ r \in ReapableControllers
    /\ proc' = [proc EXCEPT ![r] = "gone"]
    /\ controllers' = controllers \ {r}
    /\ inFlight' = inFlight - 1
    /\ IF r # shutdownId THEN Emit("ControllerExited", r) ELSE UNCHANGED stdout
    /\ lastEchild' = FALSE
    /\ UNCHANGED <<pipeVars, requestIds, shutdownId, stopVars, stdinEof, idleStreak,
                   idleEmitted, pc, sigterm, parentAlive, kid>>

(* Mutant: the shutdown controller is reported like any other. *)
ReapControllerReportsAll(r) ==
    /\ pc \in {"reap", "reap2"}
    /\ r \in ReapableControllers
    /\ proc' = [proc EXCEPT ![r] = "gone"]
    /\ controllers' = controllers \ {r}
    /\ Emit("ControllerExited", r)
    /\ inFlight' = IF r = shutdownId \/ inFlight = 0 THEN inFlight ELSE inFlight - 1
    /\ lastEchild' = FALSE
    /\ UNCHANGED <<pipeVars, requestIds, shutdownId, stopVars, stdinEof, idleStreak,
                   idleEmitted, pc, sigterm, parentAlive, kid>>

(* One turn of drain_reap_events: a controller in the tables. *)
ReapController(r) ==
    /\ pc \in {"reap", "reap2"}
    /\ r \in ReapableControllers
    /\ proc' = [proc EXCEPT ![r] = "gone"]
    /\ controllers' = controllers \ {r}
    /\ IF r \in controllers /\ r # shutdownId
       THEN /\ inFlight' = IF inFlight = 0 THEN 0 ELSE inFlight - 1
            /\ Emit("ControllerExited", r)
       ELSE UNCHANGED <<inFlight, stdout>>
    /\ lastEchild' = FALSE
    /\ UNCHANGED <<pipeVars, requestIds, shutdownId, stopVars, stdinEof, idleStreak,
                   idleEmitted, pc, sigterm, parentAlive, kid>>

(* One turn of drain_reap_events: a reparented orphan, in no table. *)
ReapOrphan(r) ==
    /\ pc \in {"reap", "reap2"}
    /\ r \in ReapableOrphans
    /\ kid' = [kid EXCEPT ![r] = "gone"]
    /\ lastEchild' = FALSE
    /\ UNCHANGED <<pipeVars, stdout, tableVars, stopVars, stdinEof, idleStreak,
                   idleEmitted, pc, sigterm, parentAlive, proc>>

DrainDone == ReapableControllers = {} /\ ReapableOrphans = {}

(* Mutant: "no zombie now" (waitpid = 0) is taken for "no child at all". *)
DrainedIgnoresLive ==
    /\ pc = "reap" /\ DrainDone
    /\ lastEchild' = TRUE
    /\ phase' = IF phase = "Stopping" THEN "Stopped" ELSE phase
    /\ pc' = "tail"
    /\ UNCHANGED <<pipeVars, stdout, tableVars, forced, deadline, term, stdinEof,
                   idleStreak, idleEmitted, osVars>>

(* The drain at the top of advance_shutdown (and the one just before it)    *)
(* found no more zombies: ECHILD ends the shutdown at once.                 *)
Drained ==
    /\ pc = "reap" /\ DrainDone
    /\ lastEchild' = ~HasChildren
    /\ \/ /\ phase # "Stopping"
          /\ pc' = "tail"
          /\ UNCHANGED phase
       \/ /\ phase = "Stopping" /\ ~HasChildren
          /\ phase' = "Stopped"
          /\ pc' = "tail"
       \/ /\ phase = "Stopping" /\ HasChildren
          /\ pc' = "signal"
          /\ UNCHANGED phase
    /\ UNCHANGED <<pipeVars, stdout, tableVars, forced, deadline, term, stdinEof,
                   idleStreak, idleEmitted, osVars>>

(* Mutant: only a forced shutdown ever escalates. *)
GraceOnlyForced == forced

GraceOver == forced \/ deadline = "passed"

(* signal_descendants with SIGTERM: a process may ignore it, and may exit   *)
(* by itself at any time, so the signal itself changes no process.          *)
SignalTerm ==
    /\ pc = "signal" /\ term # "due"
    /\ term' = IF GraceOver /\ term = "no" THEN "sent" ELSE term
    /\ pc' = "reap2"
    /\ UNCHANGED <<pipeVars, stdout, tableVars, phase, forced, deadline, loopVars, osVars>>

(* signal_descendants with SIGKILL, two seconds after the first SIGTERM.    *)
(* The /proc scan may miss a child forked while it runs.                    *)
SignalKill ==
    /\ pc = "signal" /\ term = "due"
    /\ \E late \in SUBSET {r \in Forkers : proc[r] = "run" /\ kid[r] = "none"} :
          kid' = [r \in RequestIds |-> IF r \in late THEN "run"
                                       ELSE IF kid[r] = "run" THEN "zombie" ELSE kid[r]]
    /\ proc' = [r \in RequestIds |-> IF proc[r] = "run" THEN "zombie" ELSE proc[r]]
    /\ pc' = "reap2"
    /\ UNCHANGED <<pipeVars, stdout, tableVars, stopVars, loopVars, sigterm, parentAlive>>

(* The second drain of advance_shutdown. *)
DrainedAfterSignal ==
    /\ pc = "reap2" /\ DrainDone
    /\ lastEchild' = ~HasChildren
    /\ phase' = IF term # "no" /\ ~HasChildren THEN "Stopped" ELSE phase
    /\ pc' = "tail"
    /\ UNCHANGED <<pipeVars, stdout, tableVars, forced, deadline, term, stdinEof,
                   idleStreak, idleEmitted, osVars>>

(* End of the iteration while Ready: Idle once per quiet period. *)
TailReady ==
    /\ pc = "tail" /\ phase = "Ready"
    /\ IF lastEchild
       THEN /\ idleStreak' = IF idleStreak < 2 THEN idleStreak + 1 ELSE 2
            /\ IF idleStreak' = 2 /\ ~idleEmitted
               THEN Emit("Idle", NoId) /\ idleEmitted' = TRUE
               ELSE UNCHANGED <<stdout, idleEmitted>>
       ELSE idleStreak' = 0 /\ idleEmitted' = FALSE /\ UNCHANGED stdout
    /\ pc' = "top"
    /\ UNCHANGED <<pipeVars, tableVars, stopVars, lastEchild, stdinEof, osVars>>

TailStopping ==
    /\ pc = "tail" /\ phase = "Stopping"
    /\ pc' = "top"
    /\ UNCHANGED <<pipeVars, stdout, tableVars, stopVars, loopVars, osVars>>

TailStopped ==
    /\ pc = "tail" /\ phase = "Stopped"
    /\ Emit("Stopped", NoId)
    /\ pc' = "exited"
    /\ UNCHANGED <<pipeVars, tableVars, stopVars, loopVars, osVars>>

Drain == \E r \in RequestIds : ReapController(r) \/ ReapOrphan(r)
DaemonStep ==
    \/ HandshakeOk \/ HandshakeFails
    \/ LoopTop \/ ReadLine \/ ReadEof \/ ReadNothing
    \/ Drain \/ Drained \/ SignalTerm \/ SignalKill \/ DrainedAfterSignal
    \/ TailReady \/ TailStopping \/ TailStopped

-----------------------------------------------------------------------------
(* Clock and operating system.  Once the supervisor is gone its children    *)
(* belong to somebody else and the model stops.                             *)

DeadlinePasses ==
    /\ pc # "exited" /\ deadline = "armed" /\ deadline' = "passed"
    /\ UNCHANGED <<pipeVars, stdout, tableVars, phase, forced, term, loopVars, pc, osVars>>

TermDelayPasses ==
    /\ pc # "exited" /\ term = "sent" /\ term' = "due"
    /\ UNCHANGED <<pipeVars, stdout, tableVars, phase, forced, deadline, loopVars, pc, osVars>>

ControllerForks(r) ==
    /\ r \in Forkers /\ proc[r] = "run" /\ kid[r] = "none"
    /\ kid' = [kid EXCEPT ![r] = "run"]
    /\ UNCHANGED <<pipeVars, stdout, tableVars, stopVars, loopVars, pc, sigterm,
                   parentAlive, proc>>

ControllerDies(r) ==
    /\ proc[r] = "run"
    /\ proc' = [proc EXCEPT ![r] = "zombie"]
    /\ UNCHANGED <<pipeVars, stdout, tableVars, stopVars, loopVars, pc, sigterm,
                   parentAlive, kid>>

(* While its controller lives, that parent may reap the descendant itself. *)
DescendantDies(r) ==
    /\ kid[r] = "run"
    /\ \/ kid' = [kid EXCEPT ![r] = "zombie"]
       \/ proc[r] = "run" /\ kid' = [kid EXCEPT ![r] = "gone"]
    /\ UNCHANGED <<pipeVars, stdout, tableVars, stopVars, loopVars, pc, sigterm,
                   parentAlive, proc>>

(* SIGTERM from the launcher (fail_session, kill_child_by_identity), its    *)
(* death and EOF all force the shutdown.  What follows a forced shutdown    *)
(* changes nothing in the supervisor and is left out.                       *)
SigtermArrives ==
    /\ pc # "exited" /\ ~sigterm /\ ~forced
    /\ sigterm' = TRUE
    /\ UNCHANGED <<pipeVars, stdout, tableVars, stopVars, loopVars, pc, parentAlive, proc, kid>>

(* The launcher dies: PDEATHSIG is a SIGTERM and the pipe reaches EOF. *)
ParentDies ==
    /\ pc # "exited" /\ parentAlive /\ ~forced
    /\ parentAlive' = FALSE /\ sigterm' = TRUE /\ stdinClosed' = TRUE
    /\ UNCHANGED <<stdin, sent, stdout, tableVars, stopVars, loopVars, pc, proc, kid>>

ProcessStep ==
    /\ pc # "exited"
    /\ \E r \in RequestIds : ControllerForks(r) \/ ControllerDies(r) \/ DescendantDies(r)
EnvStep == DeadlinePasses \/ TermDelayPasses \/ ProcessStep
           \/ SigtermArrives \/ ParentDies

(* Any client: whatever lines it likes, and EOF when it likes. *)
ClientWrites(line) ==
    /\ ~stdinClosed /\ pc # "exited"
    /\ sent < MaxLines /\ Len(stdin) < MaxUnread
    /\ stdin' = Append(stdin, line) /\ sent' = sent + 1
    /\ UNCHANGED <<stdinClosed, stdout, tableVars, stopVars, loopVars, pc, osVars>>

ClientCloses ==
    /\ pc # "exited" /\ ~forced /\ ~stdinClosed /\ stdinClosed' = TRUE
    /\ UNCHANGED <<stdin, sent, stdout, tableVars, stopVars, loopVars, pc, osVars>>

Next == DaemonStep \/ EnvStep \/ ClientCloses \/ \E line \in ClientLines : ClientWrites(line)

Spec == Init /\ [][Next]_vars

(* The loop sleeps 100 ms and never blocks, and time passes.  Nothing is    *)
(* assumed of the children: they may run for ever and ignore SIGTERM.       *)
Fairness == WF_vars(DaemonStep) /\ WF_vars(DeadlinePasses) /\ WF_vars(TermDelayPasses)
FairSpec == Spec /\ Fairness

-----------------------------------------------------------------------------
(* Properties *)

Flags ==
    /\ stdinClosed \in BOOLEAN /\ forced \in BOOLEAN /\ lastEchild \in BOOLEAN
    /\ stdinEof \in BOOLEAN /\ idleEmitted \in BOOLEAN
    /\ sigterm \in BOOLEAN /\ parentAlive \in BOOLEAN

TypeOK ==
    /\ stdin \in Seq(Request) /\ sent \in 0..MaxLines
    /\ stdout \in Seq(Event)
    /\ phase \in {"Ready", "Stopping", "Stopped"}
    /\ requestIds \subseteq RequestIds /\ controllers \subseteq RequestIds
    /\ inFlight \in Nat
    /\ shutdownId \in RequestIds \cup {NoId}
    /\ deadline \in {"none", "armed", "passed"} /\ term \in {"no", "sent", "due"}
    /\ idleStreak \in 0..2
    /\ pc \in {"handshake", "top", "stdin", "reap", "signal", "reap2", "tail", "exited"}
    /\ proc \in [RequestIds -> ProcState] /\ kid \in [RequestIds -> ProcState]
    /\ Flags

(* Stopped is the launcher's licence to reuse the prefix: once it has been  *)
(* emitted no controller, orphan or zombie of the session exists, whatever  *)
(* forked or died while advance_shutdown signalled and reaped.              *)
StoppedIsClean == Emitted(Ev("Stopped", NoId)) => ~HasChildren

(* in_flight counts exactly the unreaped controllers of launches, never the *)
(* shutdown controller, and stays within MAX_IN_FLIGHT_LAUNCHES; the        *)
(* saturating decrement of drain_reap_events never saturates.               *)
InFlightExact ==
    /\ inFlight = Cardinality({r \in RequestIds : Exists(proc[r]) /\ r # shutdownId})
    /\ inFlight <= MaxInFlight

(* What the launcher's reader relies on: an exit is reported once, for a    *)
(* request whose fork was announced before (or lost to a failed identity    *)
(* capture), never for the shutdown request; Stopped is the last word and   *)
(* comes when every announced controller has been reported.                 *)
EventOrder ==
    \A i \in 1..Len(stdout) :
        /\ stdout[i].type = "ControllerExited" =>
              /\ \E j \in 1..(i - 1) :
                    stdout[j] \in {Ev("LaunchAccepted", stdout[i].id), Ev("Error", NoId)}
              /\ \A j \in 1..(i - 1) :
                    stdout[j] \notin {stdout[i], Ev("ShutdownAccepted", stdout[i].id)}
        /\ stdout[i].type = "Stopped" =>
              /\ i = Len(stdout)
              /\ \A r \in RequestIds : Emitted(Ev("LaunchAccepted", r))
                                        => Emitted(Ev("ControllerExited", r))

(* Requests pair in the count and on the wire: what in_flight holds, and what *)
(* the events tell the launcher, is what drain_reap_events has not reaped.    *)
RequestsPair == InFlightExact /\ EventOrder

(* Idle is emitted only while nothing is running or waiting to be reaped:   *)
(* the ECHILD answer it rests on is still true when the event is written.   *)
IdleIsTruthful ==
    [][\A e \in {Ev("Idle", NoId)} : stdout' = Append(stdout, e) => ~HasChildren']_vars

(* Once stopping, the supervisor ends: children that ignore SIGTERM are     *)
(* killed after the grace and the two seconds of advance_shutdown.          *)
ShutdownCompletes == (phase = "Stopping") ~> (pc = "exited")
=============================================================================
