----------------------------- MODULE SessionLink -----------------------------
(* The client end of a supervisor (tools/runner_sessions/protocol.rs, exec.rs and
   SupervisedProcess of registry.rs): the callers, the detached tasks that write
   their requests and the reader of the events run on several threads, and share
   maps of waiters that each take their own lock. A frame is two halves on the
   pipe; the second one ends its line. The supervisor at the other end is
   external here: module Sessiond models it and shows the order of its events.   *)
EXTENDS Naturals, Sequences, FiniteSets

CONSTANTS
    Requests,     \* launches of one session
    MaxWaits      \* bound: waits a caller gives up

VARIABLES
    caller,       \* where the owner of each request stands
    patience,     \* waits each caller may still give up
    writer,       \* the task of send_request
    failing,      \* per thread, the next step of its set_fatal; 0: none
    wire, taken,  \* halves of frames written, and how many the supervisor read
    supervisor,   \* "up", "stopped" or "dead"
    lives,        \* controllers that run
    events,       \* stdout that was not read
    dispatching,  \* the request whose exit is being dispatched
    closedOut,    \* the reader saw the end of stdout
    launchTx, launchRx,   \* launch_waiters, and what each receiver got
    exitTx, exitRx,       \* exit_waiters
    completed,    \* completed_exits
    fatal, stoppedFlag

callerVars == <<caller, patience>>
linkVars == <<callerVars, writer, failing, wire, taken, supervisor, lives, events, dispatching,
              closedOut, launchTx, launchRx, exitTx, exitRx, completed, fatal, stoppedFlag>>
waiterVars == <<launchTx, launchRx, exitTx, exitRx>>
supervisorVars == <<taken, supervisor, lives>>
readerVars == <<dispatching, closedOut, stoppedFlag>>

NoRequest == "no request"
Reader == "reader"
Threads == Requests \cup {Reader}
ASSUME RequestsAssumption == Requests \cap {NoRequest, Reader} = {}

LinkInit ==
    /\ caller = [r \in Requests |-> "idle"] /\ patience = [r \in Requests |-> MaxWaits]
    /\ writer = [r \in Requests |-> "none"] /\ failing = [t \in Threads |-> 0]
    /\ wire = <<>> /\ taken = 0 /\ supervisor = "up" /\ lives = {} /\ events = <<>>
    /\ dispatching = NoRequest /\ closedOut = FALSE
    /\ launchTx = [r \in Requests |-> "none"] /\ launchRx = [r \in Requests |-> "none"]
    /\ exitTx = [r \in Requests |-> "none"] /\ exitRx = [r \in Requests |-> "none"]
    /\ completed = {} /\ fatal = FALSE /\ stoppedFlag = FALSE

CallerAt(r, from, to) == caller[r] = from /\ caller' = [caller EXCEPT ![r] = to]

-----------------------------------------------------------------------------
(* launch() and the task of send_request. *)

LaunchRequest(r) ==
    /\ CallerAt(r, "idle", "writing")
    /\ launchTx' = [launchTx EXCEPT ![r] = "live"]
    /\ writer' = [writer EXCEPT ![r] = "queued"]
    /\ UNCHANGED <<patience, failing, wire, supervisorVars, events, readerVars,
                   launchRx, exitTx, exitRx, completed, fatal>>

(* the task owns the lock of stdin while it is "holding" or "half" *)
StdinFree == \A r \in Requests : writer[r] \notin {"holding", "half"}
WriterFails(r) ==
    /\ writer' = [writer EXCEPT ![r] = "failed"] /\ failing' = [failing EXCEPT ![r] = 1]
    /\ UNCHANGED wire
WriterMoves(r, to, halves) ==
    /\ writer' = [writer EXCEPT ![r] = to] /\ wire' = wire \o halves /\ UNCHANGED failing

(* A write fails when the supervisor is gone. *)
SendRequest(r) ==
    /\ \/ /\ writer[r] = "queued" /\ StdinFree
          /\ IF fatal THEN WriterFails(r) ELSE WriterMoves(r, "holding", <<>>)
       \/ /\ writer[r] = "holding"
          /\ IF supervisor = "up" THEN WriterMoves(r, "half", <<<<r, 1>>>>) ELSE WriterFails(r)
       \/ /\ writer[r] = "half"
          /\ IF supervisor = "up" THEN WriterMoves(r, "sent", <<<<r, 2>>>>) ELSE WriterFails(r)
    /\ UNCHANGED <<callerVars, supervisorVars, events, readerVars, waiterVars, completed, fatal>>

(* Mutant: a request that times out leaves the session usable. *)
WriteTimesOutQuietly(r) ==
    /\ writer[r] \in {"queued", "holding", "half"}
    /\ writer' = [writer EXCEPT ![r] = "failed"]
    /\ UNCHANGED <<callerVars, failing, wire, supervisorVars, events, readerVars, waiterVars,
                   completed, fatal>>

(* Ten seconds for the lock and the write. The lock is free again before set_fatal
   runs: the future that holds it is dropped first. *)
WriteTimesOut(r) ==
    /\ writer[r] \in {"queued", "holding", "half"} /\ WriterFails(r)
    /\ UNCHANGED <<callerVars, supervisorVars, events, readerVars, waiterVars, completed, fatal>>

(* Every sender of a map is taken and answered; one whose receiver is gone is lost. *)
Emptied(tx) == [r \in Requests |-> "none"]
Failed(tx, rx) == [r \in Requests |-> IF tx[r] = "live" /\ rx[r] = "none" THEN "error" ELSE rx[r]]

(* set_fatal and fail_pending_waiters, one lock at a time. *)
SetFatal(t) ==
    /\ \/ /\ failing[t] = 1 /\ fatal' = TRUE /\ failing' = [failing EXCEPT ![t] = 2]
          /\ UNCHANGED <<waiterVars, stoppedFlag>>
       \/ /\ failing[t] = 2 /\ failing' = [failing EXCEPT ![t] = 3]
          /\ launchRx' = Failed(launchTx, launchRx) /\ launchTx' = Emptied(launchTx)
          /\ UNCHANGED <<exitTx, exitRx, fatal, stoppedFlag>>
       \/ /\ failing[t] = 3 /\ failing' = [failing EXCEPT ![t] = 0]
          /\ exitRx' = Failed(exitTx, exitRx) /\ exitTx' = Emptied(exitTx)
          /\ stoppedFlag' = TRUE /\ UNCHANGED <<launchTx, launchRx, fatal>>
    /\ UNCHANGED <<callerVars, writer, wire, supervisorVars, events, dispatching, closedOut,
                   completed>>

(* launch() after the write: the answer, or the error of the write. *)
LaunchReturns(r) ==
    /\ \/ /\ writer[r] = "failed" /\ failing[r] = 0 /\ CallerAt(r, "writing", "over")
          /\ launchTx' = [launchTx EXCEPT ![r] = "none"]
       \/ writer[r] = "sent" /\ CallerAt(r, "writing", "accepting") /\ UNCHANGED launchTx
       \/ launchRx[r] = "ok" /\ CallerAt(r, "accepting", "held") /\ UNCHANGED launchTx
       \/ launchRx[r] = "error" /\ CallerAt(r, "accepting", "over") /\ UNCHANGED launchTx
    /\ UNCHANGED <<patience, writer, failing, wire, supervisorVars, events, readerVars,
                   launchRx, exitTx, exitRx, completed, fatal>>

-----------------------------------------------------------------------------
(* SupervisedProcess::wait over wait_controller_exit. *)

(* resolve_controller_exit_wait: the exit that arrived, or the error of the session *)
Resolved(r) == r \in completed \/ fatal

WaitExit(r) ==
    /\ IF Resolved(r) THEN CallerAt(r, "held", "over") ELSE CallerAt(r, "held", "register")
    /\ completed' = completed \ {r}
    /\ UNCHANGED <<patience, writer, failing, wire, supervisorVars, events, readerVars,
                   waiterVars, fatal>>

RegisterExit(r) ==
    /\ CallerAt(r, "register", "registered")
    /\ exitTx' = [exitTx EXCEPT ![r] = "live"] /\ exitRx' = [exitRx EXCEPT ![r] = "none"]
    /\ UNCHANGED <<patience, writer, failing, wire, supervisorVars, events, readerVars,
                   launchTx, launchRx, completed, fatal>>

(* Mutant: the wait does not look again after it registered. *)
ResolveOnce(r) ==
    /\ CallerAt(r, "registered", "awaiting")
    /\ UNCHANGED <<patience, writer, failing, wire, supervisorVars, events, readerVars,
                   waiterVars, completed, fatal>>

ResolveAgain(r) ==
    /\ IF Resolved(r)
       THEN /\ CallerAt(r, "registered", "over") /\ exitTx' = [exitTx EXCEPT ![r] = "none"]
            /\ completed' = completed \ {r}
       ELSE CallerAt(r, "registered", "awaiting") /\ UNCHANGED <<exitTx, completed>>
    /\ UNCHANGED <<patience, writer, failing, wire, supervisorVars, events, readerVars,
                   launchTx, launchRx, exitRx, fatal>>

WaitReturns(r) ==
    /\ exitRx[r] # "none" /\ CallerAt(r, "awaiting", "over")
    /\ completed' = IF exitRx[r] = "ok" THEN completed \ {r} ELSE completed
    /\ UNCHANGED <<patience, writer, failing, wire, supervisorVars, events, readerVars,
                   waiterVars, fatal>>

Orphaned(tx, r) == IF tx[r] = "live" THEN [tx EXCEPT ![r] = "gone"] ELSE tx

(* A caller is dropped at an await, or the timeout of terminate() ends its wait and it
   waits again. Its writer runs on, and its senders stay in the maps. *)
GiveUp(r) ==
    /\ \/ /\ caller[r] \in {"writing", "accepting"} /\ CallerAt(r, caller[r], "over")
          /\ launchTx' = Orphaned(launchTx, r) /\ UNCHANGED <<patience, exitTx>>
       \/ /\ CallerAt(r, "awaiting", "held") /\ patience[r] > 0
          /\ patience' = [patience EXCEPT ![r] = @ - 1]
          /\ exitTx' = Orphaned(exitTx, r) /\ UNCHANGED launchTx
    /\ UNCHANGED <<writer, failing, wire, supervisorVars, events, readerVars,
                   launchRx, exitRx, completed, fatal>>

-----------------------------------------------------------------------------
(* dispatch(), by the task of spawn_reader. *)

ReaderFree == failing[Reader] = 0 /\ dispatching = NoRequest /\ ~closedOut
Answer(tx, rx, r, value) ==
    IF tx[r] = "live" THEN [rx EXCEPT ![r] = value] ELSE rx

(* "Keep the result until the receiver consumes it." *)
KeepExit(r) == completed \cup {r}

Dispatch(e) ==
    /\ CASE e.type = "LaunchAccepted" ->
              /\ launchRx' = Answer(launchTx, launchRx, e.id, "ok")
              /\ launchTx' = [launchTx EXCEPT ![e.id] = "none"]
              /\ UNCHANGED <<exitTx, exitRx, completed, dispatching, failing, stoppedFlag>>
         [] e.type = "ControllerExited" ->
              /\ completed' = KeepExit(e.id) /\ dispatching' = e.id
              /\ UNCHANGED <<waiterVars, failing, stoppedFlag>>
         [] e.type = "Refused" ->
              /\ launchRx' = Answer(launchTx, launchRx, e.id, "error")
              /\ exitRx' = Answer(exitTx, exitRx, e.id, "error")
              /\ launchTx' = [launchTx EXCEPT ![e.id] = "none"]
              /\ exitTx' = [exitTx EXCEPT ![e.id] = "none"]
              /\ UNCHANGED <<completed, dispatching, failing, stoppedFlag>>
         [] e.type = "Error" ->
              /\ failing' = [failing EXCEPT ![Reader] = 1]
              /\ UNCHANGED <<waiterVars, completed, dispatching, stoppedFlag>>
         [] e.type = "Stopped" ->
              /\ stoppedFlag' = TRUE
              /\ UNCHANGED <<waiterVars, completed, dispatching, failing>>

(* The waiter is taken under a second lock. *)
DispatchExit ==
    /\ dispatching # NoRequest /\ dispatching' = NoRequest
    /\ exitRx' = Answer(exitTx, exitRx, dispatching, "ok")
    /\ exitTx' = [exitTx EXCEPT ![dispatching] = "none"]
    /\ UNCHANGED <<callerVars, writer, failing, wire, supervisorVars, events, closedOut,
                   launchTx, launchRx, completed, fatal, stoppedFlag>>

(* At the end of stdout the waiters fail; without Stopped the session does too. *)
SpawnReader ==
    /\ ReaderFree
    /\ \/ /\ events # <<>> /\ events' = Tail(events) /\ Dispatch(Head(events))
          /\ UNCHANGED closedOut
       \/ /\ events = <<>> /\ supervisor # "up" /\ closedOut' = TRUE
          /\ failing' = [failing EXCEPT ![Reader] = IF stoppedFlag THEN 2 ELSE 1]
          /\ UNCHANGED <<events, waiterVars, completed, dispatching, stoppedFlag>>
    /\ UNCHANGED <<callerVars, writer, wire, supervisorVars, fatal>>

-----------------------------------------------------------------------------
(* ro-sessiond at the other end (external): every exit it owes precedes Stopped. *)

Emits(type, r) == events' = Append(events, [type |-> type, id |-> r])
LineEnd == CHOOSE i \in taken + 1 .. Len(wire) :
              wire[i][2] = 2 /\ \A j \in taken + 1 .. i - 1 : wire[j][2] = 1
LineRead == \E i \in taken + 1 .. Len(wire) : wire[i][2] = 2

SupervisorReads ==
    /\ supervisor = "up" /\ LineRead /\ taken' = LineEnd
    /\ LET r == wire[LineEnd][1] IN
       IF LineEnd = taken + 2 /\ wire[taken + 1][1] = r
       THEN \/ lives' = lives \cup {r} /\ Emits("LaunchAccepted", r)
            \/ Emits("Refused", r) /\ UNCHANGED lives
       ELSE Emits("Error", NoRequest) /\ UNCHANGED lives
    /\ UNCHANGED supervisor
ControllerExits ==
    /\ supervisor = "up"
    /\ \E r \in lives : lives' = lives \ {r} /\ Emits("ControllerExited", r)
    /\ UNCHANGED <<taken, supervisor>>
SupervisorEnds ==
    /\ supervisor = "up"
    /\ \/ lives = {} /\ supervisor' = "stopped" /\ Emits("Stopped", NoRequest)
       \/ supervisor' = "dead" /\ UNCHANGED events
    /\ UNCHANGED <<taken, lives>>

SupervisorStep ==
    /\ SupervisorReads \/ ControllerExits \/ SupervisorEnds
    /\ UNCHANGED <<callerVars, writer, failing, wire, readerVars, waiterVars, completed, fatal>>

CallerStep(r) ==
    \/ LaunchRequest(r) \/ LaunchReturns(r) \/ WaitExit(r) \/ RegisterExit(r)
    \/ ResolveAgain(r) \/ WaitReturns(r) \/ GiveUp(r)
WriterStep(r) == SendRequest(r) \/ WriteTimesOut(r)
LinkNext ==
    \/ \E r \in Requests : CallerStep(r) \/ WriterStep(r)
    \/ \E t \in Threads : SetFatal(t)
    \/ SpawnReader \/ DispatchExit \/ SupervisorStep

-----------------------------------------------------------------------------
LinkTypeOK ==
    /\ caller \in [Requests -> {"idle", "writing", "accepting", "held", "register",
                                "registered", "awaiting", "over"}]
    /\ writer \in [Requests -> {"none", "queued", "holding", "half", "sent", "failed"}]
    /\ failing \in [Threads -> 0 .. 3] /\ supervisor \in {"up", "stopped", "dead"}
    /\ lives \subseteq Requests /\ completed \subseteq Requests
    /\ dispatching \in Requests \cup {NoRequest}
    /\ launchTx \in [Requests -> {"none", "live", "gone"}]
    /\ exitTx \in [Requests -> {"none", "live", "gone"}]
    /\ launchRx \in [Requests -> {"none", "ok", "error"}]
    /\ exitRx \in [Requests -> {"none", "ok", "error"}]

(* A caller that awaits an answer which has not come is one the reader can still reach:
   its sender is in the map, and no exit, no error and no end of the session has passed
   it by. So an exit reported before its wait, between two waits or between the two looks
   of one wait is never lost (protocol.rs:229 and 500). *)
NoLostExit ==
    \A r \in Requests :
      /\ caller[r] = "awaiting" /\ exitRx[r] = "none" =>
            /\ exitTx[r] = "live"
            /\ r \in completed => dispatching = r
            /\ fatal => \E t \in Threads : failing[t] \in {2, 3}
            /\ closedOut => failing[Reader] # 0
      /\ caller[r] = "accepting" /\ launchRx[r] = "none" =>
            launchTx[r] = "live" /\ (closedOut => failing[Reader] \in {1, 2})

(* A request written behind half a frame, which the supervisor cannot read, finds the
   session failed or a writer about to fail it: no later request is taken for good
   ("Cancellation cannot leave half a JSON frame in the pipe", protocol.rs:397). *)
GluedIsFatal ==
    (\E i \in 1 .. Len(wire) - 1 : wire[i][2] = 1 /\ wire[i + 1] # <<wire[i][1], 2>>)
      => fatal \/ \E r \in Requests : failing[r] = 1

(* What the registry relies on in RunnerSessionProtocol: no answer or exit is lost by a
   caller that waits for it, and no request is taken for good behind half a frame. *)
LinkIsSound == NoLostExit /\ GluedIsFatal

LinkSpec == LinkInit /\ [][LinkNext]_linkVars
=============================================================================
