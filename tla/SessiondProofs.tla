--------------------------- MODULE SessiondProofs ---------------------------
(* Type correctness of ro-sessiond's main loop, the meaning of Stopped, the pairing of requests and the truth of Idle. *)
EXTENDS Sessiond, FiniteSetTheorems, TLAPS

(* What appending one event does to the history. *)
LEMMA EmitAppends ==
    ASSUME NEW type, NEW id, stdout \in Seq(Event), Ev(type, id) \in Event, Emit(type, id)
    PROVE  /\ stdout' \in Seq(Event)
           /\ \A e : Emitted(e)' <=> Emitted(e) \/ e = Ev(type, id)
  BY DEF Emit, Emitted

(* The events the supervisor builds are events. *)
LEMMA EventForms ==
    /\ \A r \in RequestIds : /\ Ev("LaunchAccepted", r) \in Event
                             /\ Ev("ControllerExited", r) \in Event
                             /\ Ev("ShutdownAccepted", r) \in Event
                             /\ Ev("Error", r) \in Event
    /\ Ev("Ready", NoId) \in Event /\ Ev("Idle", NoId) \in Event
    /\ Ev("Stopped", NoId) \in Event /\ Ev("Error", NoId) \in Event
  BY DEF Ev, Event

(* The Boolean variables keep their type; apart, since they are easier      *)
(* without the rest.                                                        *)
LEMMA FlagsStep == Flags /\ [Next]_vars => Flags'
  <1> SUFFICES ASSUME Flags, [Next]_vars PROVE Flags'
    OBVIOUS
  <1>1. CASE LoopTop
    BY <1>1, Zenon DEF Flags, LoopTop, BeginForcedShutdown, pipeVars, stopVars, loopVars
  <1>2. CASE ReadLine
    <2>1. forced' \in BOOLEAN
      BY <1>2, Zenon DEF Flags, ReadLine, HandleLine, LaunchRejected, LaunchFailed, LaunchForked,
         ShutdownRejected, ShutdownForces, ShutdownForked, BeginForcedShutdown, stopVars
    <2> QED
      BY <1>2, <2>1, Zenon DEF Flags, ReadLine, loopVars
  <1>3. CASE ReadEof
    BY <1>3, Zenon DEF Flags, ReadEof, BeginForcedShutdown, pipeVars, osVars
  <1>4. CASE HandshakeOk \/ HandshakeFails \/ ReadNothing
    BY <1>4, Zenon DEF Flags, HandshakeOk, HandshakeFails, ReadNothing, pipeVars, stopVars,
       loopVars, osVars
  <1>5. ASSUME NEW r \in RequestIds, ReapController(r) \/ ReapOrphan(r) PROVE Flags'
    BY <1>5, Zenon DEF Flags, ReapController, ReapOrphan, pipeVars, stopVars
  <1>6. CASE Drained \/ DrainedAfterSignal
    <2>1. lastEchild' \in BOOLEAN
      BY <1>6, Zenon DEF Drained, DrainedAfterSignal
    <2> QED
      BY <1>6, <2>1, Zenon DEF Flags, Drained, DrainedAfterSignal, pipeVars, osVars
  <1>7. CASE SignalTerm \/ SignalKill
    BY <1>7, Zenon DEF Flags, SignalTerm, SignalKill, pipeVars, stopVars, loopVars, osVars
  <1>8. CASE TailReady
    <2>1. idleEmitted' \in BOOLEAN
      BY <1>8, Zenon DEF Flags, TailReady
    <2> QED
      BY <1>8, <2>1, Zenon DEF Flags, TailReady, pipeVars, stopVars, osVars
  <1>9. CASE TailStopping \/ TailStopped
    BY <1>9, Zenon DEF Flags, TailStopping, TailStopped, pipeVars, stopVars, loopVars, osVars
  <1>10. CASE DeadlinePasses \/ TermDelayPasses
    BY <1>10, Zenon DEF Flags, DeadlinePasses, TermDelayPasses, pipeVars, loopVars, osVars
  <1>11. ASSUME NEW r \in RequestIds, ControllerForks(r) \/ ControllerDies(r) \/ DescendantDies(r)
         PROVE Flags'
    BY <1>11, Zenon DEF Flags, ControllerForks, ControllerDies, DescendantDies, pipeVars,
       stopVars, loopVars
  <1>12. CASE SigtermArrives \/ ParentDies
    BY <1>12, Zenon DEF Flags, SigtermArrives, ParentDies, pipeVars, stopVars, loopVars
  <1>13. CASE ClientCloses
    BY <1>13, Zenon DEF Flags, ClientCloses, stopVars, loopVars, osVars
  <1>14. ASSUME NEW line \in ClientLines, ClientWrites(line) PROVE Flags'
    BY <1>14, Zenon DEF Flags, ClientWrites, stopVars, loopVars, osVars
  <1>15. CASE UNCHANGED vars
    BY <1>15, Zenon DEF Flags, vars, pipeVars, stopVars, loopVars, osVars
  <1> QED
    BY <1>1, <1>2, <1>3, <1>4, <1>5, <1>6, <1>7, <1>8, <1>9, <1>10, <1>11, <1>12, <1>13,
       <1>14, <1>15
       DEF Next, DaemonStep, EnvStep, Drain, ProcessStep

(* Every action of the supervisor, its children, the clock and the client   *)
(* keeps each variable within its type.                                     *)
LEMMA TypeStep == TypeOK /\ [Next]_vars => TypeOK'
  <1> SUFFICES ASSUME TypeOK, [Next]_vars PROVE TypeOK'
    OBVIOUS
  <1> USE RequestIdsAssumption, ForkersAssumption, BoundsAssumption, ClientLinesAssumption
  <1> Flags'
    BY FlagsStep DEF TypeOK
  <1>1. CASE HandshakeOk
    BY <1>1, EmitAppends, EventForms DEF TypeOK, HandshakeOk, tableVars, stopVars, loopVars, osVars
  <1>2. CASE HandshakeFails
    BY <1>2, EmitAppends, EventForms
       DEF TypeOK, HandshakeFails, pipeVars, tableVars, stopVars, loopVars, osVars
  <1>3. CASE LoopTop
    BY <1>3 DEF TypeOK, LoopTop, BeginForcedShutdown, pipeVars, tableVars, stopVars, loopVars
  <1>4. CASE ReadLine
    <2> DEFINE line == Head(stdin)
    <2>1. line \in Request /\ stdin' \in Seq(Request)
      BY <1>4 DEF TypeOK, ReadLine
    <2>2. /\ stdinClosed' = stdinClosed /\ sent' = sent /\ loopVars' = loopVars
          /\ sigterm' = sigterm /\ parentAlive' = parentAlive /\ kid' = kid /\ pc' = "reap"
      BY <1>4 DEF ReadLine
    <2>3. ASSUME NEW r \in RequestIds, LaunchRejected(r) \/ LaunchFailed(r) \/ LaunchForked(r)
          PROVE TypeOK'
      BY <2>1, <2>2, <2>3, EmitAppends, EventForms
         DEF TypeOK, LaunchRejected, LaunchFailed, LaunchForked, Spawned, ProcState,
             stopVars, loopVars
    <2>4. ASSUME NEW r \in RequestIds, ShutdownRejected(r) \/ ShutdownForces(r) \/ ShutdownForked(r)
          PROVE TypeOK'
      BY <2>1, <2>2, <2>4, EmitAppends, EventForms
         DEF TypeOK, ShutdownRejected, ShutdownForces, ShutdownForked, BeginForcedShutdown,
             Spawned, ProcState, tableVars, stopVars, loopVars
    <2>5. CASE line.type = "Hello"
      BY <2>1, <2>2, <2>5, <1>4, EmitAppends, EventForms
         DEF TypeOK, ReadLine, HandleLine, BeginForcedShutdown, tableVars, loopVars
    <2>6. CASE line.type = "Malformed"
      BY <2>1, <2>2, <2>6, <1>4, EmitAppends, EventForms
         DEF TypeOK, ReadLine, HandleLine, tableVars, stopVars, loopVars
    <2>7. line.type \in {"Launch", "Shutdown"} => line.id \in RequestIds
      BY <2>1 DEF Request
    <2> QED
      BY <2>1, <2>3, <2>4, <2>5, <2>6, <2>7, <1>4 DEF ReadLine, HandleLine
  <1>5. CASE ReadEof
    BY <1>5 DEF TypeOK, ReadEof, BeginForcedShutdown, pipeVars, tableVars, osVars
  <1>6. CASE ReadNothing
    BY <1>6 DEF TypeOK, ReadNothing, pipeVars, tableVars, stopVars, loopVars, osVars
  <1>7. CASE Drain
    <2>1. ASSUME NEW r \in RequestIds, ReapController(r) PROVE TypeOK'
      BY <2>1, EmitAppends, EventForms DEF TypeOK, ReapController, ProcState, pipeVars, stopVars
    <2>2. ASSUME NEW r \in RequestIds, ReapOrphan(r) PROVE TypeOK'
      BY <2>2 DEF TypeOK, ReapOrphan, ProcState, pipeVars, tableVars, stopVars
    <2> QED
      BY <1>7, <2>1, <2>2 DEF Drain
  <1>8. CASE Drained
    BY <1>8 DEF TypeOK, Drained, pipeVars, tableVars, osVars
  <1>9. CASE SignalTerm
    BY <1>9 DEF TypeOK, SignalTerm, pipeVars, tableVars, loopVars, osVars
  <1>10. CASE SignalKill
    BY <1>10 DEF TypeOK, SignalKill, ProcState, pipeVars, tableVars, stopVars, loopVars
  <1>11. CASE DrainedAfterSignal
    BY <1>11 DEF TypeOK, DrainedAfterSignal, pipeVars, tableVars, osVars
  <1>12. CASE TailReady
    BY <1>12, EmitAppends, EventForms DEF TypeOK, TailReady, pipeVars, tableVars, stopVars, osVars
  <1>13. CASE TailStopping
    BY <1>13 DEF TypeOK, TailStopping, pipeVars, tableVars, stopVars, loopVars, osVars
  <1>14. CASE TailStopped
    BY <1>14, EmitAppends, EventForms
       DEF TypeOK, TailStopped, pipeVars, tableVars, stopVars, loopVars, osVars
  <1>15. CASE DeadlinePasses \/ TermDelayPasses
    BY <1>15 DEF TypeOK, DeadlinePasses, TermDelayPasses, pipeVars, tableVars, loopVars, osVars
  <1>16. CASE ProcessStep
    BY <1>16 DEF TypeOK, ProcessStep, ControllerForks, ControllerDies, DescendantDies,
                 ProcState, pipeVars, tableVars, stopVars, loopVars
  <1>17. CASE SigtermArrives \/ ParentDies
    BY <1>17 DEF TypeOK, SigtermArrives, ParentDies, pipeVars, tableVars, stopVars, loopVars
  <1>18. CASE ClientCloses
    BY <1>18 DEF TypeOK, ClientCloses, tableVars, stopVars, loopVars, osVars
  <1>19. ASSUME NEW line \in ClientLines, ClientWrites(line) PROVE TypeOK'
    BY <1>19 DEF TypeOK, ClientWrites, tableVars, stopVars, loopVars, osVars
  <1>20. CASE UNCHANGED vars
    BY <1>20 DEF TypeOK, vars, pipeVars, tableVars, stopVars, loopVars, osVars
  <1> QED
    BY <1>1, <1>2, <1>3, <1>4, <1>5, <1>6, <1>7, <1>8, <1>9, <1>10, <1>11, <1>12, <1>13,
       <1>14, <1>15, <1>16, <1>17, <1>18, <1>19, <1>20
       DEF Next, DaemonStep, EnvStep

(* The variables of the supervisor always have their types: in particular   *)
(* in_flight is never below zero.                                           *)
THEOREM SessiondTypeCorrect == Spec => []TypeOK
  <1>1. Init => Flags
    BY Zenon DEF Init, Flags
  <1>2. Init => TypeOK
    BY <1>1, RequestIdsAssumption, BoundsAssumption DEF Init, TypeOK, ProcState
  <1> QED
    BY <1>2, TypeStep, PTL DEF Spec
-----------------------------------------------------------------------------
(* Inductive form of StoppedIsClean: the phase turns Stopped only on ECHILD *)
(* and only at the end of an iteration, after which nothing forks: the      *)
(* event follows the phase.                                                 *)
StopInv ==
    /\ phase = "Stopped" => pc \in {"tail", "exited"} /\ ~HasChildren
    /\ Emitted(Ev("Stopped", NoId)) => phase = "Stopped"

(* Children come only from a controller that runs. *)
LEMMA NoForkWithoutParent ==
    ASSUME ~HasChildren, ProcessStep PROVE FALSE
  BY DEF HasChildren, Exists, ProcessStep, ControllerForks, ControllerDies, DescendantDies

(* A history that does not change, or grows by another event, holds no new  *)
(* Stopped.                                                                 *)
LEMMA NoNewStopped ==
    ASSUME TypeOK, NEW type \in {"LaunchAccepted", "ControllerExited", "ShutdownAccepted",
                                 "Error", "Ready", "Idle"},
           NEW id, Ev(type, id) \in Event, Emit(type, id)
    PROVE  Emitted(Ev("Stopped", NoId))' => Emitted(Ev("Stopped", NoId))
  <1>1. Ev(type, id) # Ev("Stopped", NoId)
    BY DEF Ev
  <1> QED
    BY <1>1, EmitAppends DEF TypeOK

(* Each step keeps StopInv: most leave phase, children and history alone,   *)
(* Drained and DrainedAfterSignal set Stopped on ECHILD, TailStopped says   *)
(* it.                                                                      *)
LEMMA StopStep == TypeOK /\ StopInv /\ [Next]_vars => StopInv'
  <1> SUFFICES ASSUME TypeOK, StopInv, [Next]_vars PROVE StopInv'
    OBVIOUS
  <1> DEFINE said == Emitted(Ev("Stopped", NoId))
  <1>1. CASE HandshakeOk
    BY <1>1, NoNewStopped, EventForms DEF HandshakeOk, StopInv, HasChildren, stopVars, osVars
  <1>2. CASE HandshakeFails
    BY <1>2, NoNewStopped, EventForms DEF HandshakeFails, StopInv, HasChildren, stopVars, osVars
  <1>3. CASE LoopTop
    <2>1. phase # "Stopped"
      BY <1>3 DEF LoopTop, StopInv
    <2>2. phase' # "Stopped"
      BY <2>1, <1>3, Zenon DEF LoopTop, BeginForcedShutdown, stopVars
    <2>3. stdout' = stdout
      BY <1>3 DEF LoopTop
    <2> QED
      BY <2>1, <2>2, <2>3 DEF StopInv, Emitted
  <1>4. CASE ReadLine
    <2>1. phase # "Stopped" /\ ~said
      BY <1>4 DEF ReadLine, StopInv
    <2>2. Head(stdin) \in Request
      BY <1>4 DEF ReadLine, TypeOK
    <2>3. phase' # "Stopped"
      BY <1>4, <2>1, Zenon DEF ReadLine, HandleLine, LaunchRejected, LaunchFailed, LaunchForked,
         ShutdownRejected, ShutdownForces, ShutdownForked, BeginForcedShutdown, stopVars
    <2>4. PICK type \in {"LaunchAccepted", "ShutdownAccepted", "Error"},
               id \in {Head(stdin).id, NoId} :
             /\ Emit(type, id)
             /\ id = NoId => type = "Error"
             /\ id # NoId => id \in RequestIds
      <3>1. CASE Head(stdin).type \in {"Launch", "Shutdown"}
        <4>1. Head(stdin).id \in RequestIds
          BY <2>2, <3>1 DEF Request
        <4> QED
          BY <1>4, <3>1, <4>1, RequestIdsAssumption
             DEF ReadLine, HandleLine, LaunchRejected, LaunchFailed, LaunchForked,
                 ShutdownRejected, ShutdownForces, ShutdownForked
      <3>2. CASE Head(stdin).type \in {"Hello", "Malformed"}
        BY <1>4, <3>2 DEF ReadLine, HandleLine
      <3> QED
        BY <2>2, <3>1, <3>2 DEF Request
    <2>5. Ev(type, id) \in Event
      BY <2>4, EventForms
    <2> QED
      BY <2>1, <2>3, <2>4, <2>5, NoNewStopped DEF StopInv
  <1>5. CASE ReadEof
    BY <1>5 DEF ReadEof, BeginForcedShutdown, StopInv, Emitted
  <1>6. CASE ReadNothing \/ TailStopping
    BY <1>6 DEF ReadNothing, TailStopping, StopInv, HasChildren, Emitted, stopVars, osVars
  <1>7. CASE Drain
    <2> SUFFICES ASSUME NEW r \in RequestIds, ReapController(r) \/ ReapOrphan(r)
                 PROVE StopInv'
      BY <1>7 DEF Drain
    <2>1. phase # "Stopped" /\ ~said /\ phase' = phase
      BY DEF ReapController, ReapOrphan, StopInv, stopVars
    <2>2. stdout' = stdout \/ Emit("ControllerExited", r)
      BY DEF ReapController, ReapOrphan
    <2>3. ~said'
      BY <2>1, <2>2, NoNewStopped, EventForms DEF Emitted
    <2> QED
      BY <2>1, <2>3 DEF StopInv
  <1>8. CASE Drained \/ DrainedAfterSignal
    <2>1. ~said /\ stdout' = stdout /\ pc' \in {"tail", "signal"} /\ phase # "Stopped"
      BY <1>8 DEF Drained, DrainedAfterSignal, StopInv
    <2>2. phase' = "Stopped" => ~HasChildren /\ proc' = proc /\ kid' = kid /\ pc' = "tail"
      BY <1>8, <2>1 DEF Drained, DrainedAfterSignal, osVars
    <2> QED
      BY <2>1, <2>2 DEF StopInv, Emitted, HasChildren
  <1>9. CASE SignalTerm \/ SignalKill
    BY <1>9 DEF SignalTerm, SignalKill, StopInv, Emitted, stopVars
  <1>10. CASE TailReady
    <2>1. stdout' = stdout \/ Emit("Idle", NoId)
      BY <1>10 DEF TailReady
    <2>2. said' => said
      BY <2>1, NoNewStopped, EventForms DEF Emitted
    <2> QED
      BY <1>10, <2>2 DEF TailReady, StopInv, stopVars
  <1>11. CASE TailStopped
    BY <1>11 DEF TailStopped, StopInv, HasChildren, stopVars, osVars
  <1>12. CASE DeadlinePasses \/ TermDelayPasses
    BY <1>12 DEF DeadlinePasses, TermDelayPasses, StopInv, Emitted, HasChildren, osVars
  <1>13. CASE ProcessStep
    <2>1. phase # "Stopped"
      BY <1>13, NoForkWithoutParent DEF StopInv
    <2>2. phase' = phase /\ stdout' = stdout
      BY <1>13 DEF ProcessStep, ControllerForks, ControllerDies, DescendantDies, stopVars
    <2> QED
      BY <2>1, <2>2 DEF StopInv, Emitted
  <1>14. CASE SigtermArrives \/ ParentDies \/ ClientCloses \/ UNCHANGED vars
    BY <1>14 DEF SigtermArrives, ParentDies, ClientCloses, StopInv, Emitted, HasChildren,
                 stopVars, osVars, vars
  <1>15. ASSUME NEW line \in ClientLines, ClientWrites(line) PROVE StopInv'
    BY <1>15 DEF ClientWrites, StopInv, Emitted, HasChildren, stopVars, osVars
  <1> QED
    BY <1>1, <1>2, <1>3, <1>4, <1>5, <1>6, <1>7, <1>8, <1>9, <1>10, <1>11, <1>12, <1>13,
       <1>14, <1>15
       DEF Next, DaemonStep, EnvStep

(* Stopped means clean, for any number of requests, descendants and lines:  *)
(* when the launcher reads it, no process of the session is left.           *)
THEOREM StoppedMeansClean == Spec => []StoppedIsClean
  <1>1. Init => StopInv
    BY DEF Init, StopInv, Emitted
  <1>2. StopInv => StoppedIsClean
    BY DEF StopInv, StoppedIsClean
  <1> QED
    BY <1>1, <1>2, StopStep, SessiondTypeCorrect, PTL DEF Spec
-----------------------------------------------------------------------------
(* Inductive form of RequestsPair.  The count: every process that exists is *)
(* in the tables, an id is used once, and the shutdown request, which ends  *)
(* Ready, is never a launch.  The wire: a launch is announced when it forks *)
(* and its exit when it is reaped.                                          *)
Counted == {r \in RequestIds : Exists(proc[r]) /\ r # shutdownId}
CountInv ==
    /\ InFlightExact
    /\ \A r \in RequestIds : /\ Exists(proc[r]) => r \in controllers
                             /\ r \notin requestIds => proc[r] = "none"
    /\ shutdownId # NoId => shutdownId \in requestIds /\ phase # "Ready"

Announced(r) == Emitted(Ev("LaunchAccepted", r)) \/ Emitted(Ev("Error", NoId))
WireInv ==
    /\ Emitted(Ev("Stopped", NoId)) => pc = "exited"
    /\ \A r \in RequestIds :
         /\ proc[r] # "none" /\ r # shutdownId => Announced(r)
         /\ proc[r] = "gone" /\ r # shutdownId => Emitted(Ev("ControllerExited", r))
         /\ Emitted(Ev("ControllerExited", r)) => proc[r] = "gone"
         /\ Emitted(Ev("LaunchAccepted", r)) => proc[r] # "none" /\ r # shutdownId
         /\ Emitted(Ev("ShutdownAccepted", r)) => r = shutdownId
PairInv == CountInv /\ EventOrder /\ WireInv

(* ECHILD at the end of an iteration is still true when Idle is written. *)
IdleInv == pc = "tail" /\ lastEchild => ~HasChildren

(* The order of the events survives one more event, when an exit was        *)
(* announced and never reported and the last word was not said.             *)
LEMMA OrderGrows ==
    ASSUME TypeOK, EventOrder, ~Emitted(Ev("Stopped", NoId)),
           NEW type, NEW id, Ev(type, id) \in Event, Emit(type, id),
           type = "ControllerExited" =>
               /\ Announced(id)
               /\ ~Emitted(Ev("ControllerExited", id)) /\ ~Emitted(Ev("ShutdownAccepted", id)),
           type = "Stopped" =>
               \A r \in RequestIds : Emitted(Ev("LaunchAccepted", r))
                                     => Emitted(Ev("ControllerExited", r))
    PROVE  EventOrder'
  <1> DEFINE n == Len(stdout)
             e == Ev(type, id)
  <1>1. /\ n \in Nat /\ Len(stdout') = n + 1
        /\ stdout'[n + 1] = e
        /\ \A i \in 1..n : stdout'[i] = stdout[i] /\ stdout[i] \in Event
    BY DEF TypeOK, Emit
  <1>2. \A f : Emitted(f)' <=> Emitted(f) \/ f = e
    BY EmitAppends DEF TypeOK
  <1>3. e.type = type /\ e.id = id
    BY DEF Ev
  <1>4. ASSUME NEW i \in 1..n
        PROVE  /\ stdout[i].type # "Stopped"
               /\ stdout[i].type = "ControllerExited" =>
                  /\ \E j \in 1..(i - 1) :
                        stdout[j] \in {Ev("LaunchAccepted", stdout[i].id), Ev("Error", NoId)}
                  /\ \A j \in 1..(i - 1) :
                        stdout[j] \notin {stdout[i], Ev("ShutdownAccepted", stdout[i].id)}
    <2>1. stdout[i].type = "Stopped" => stdout[i] = Ev("Stopped", NoId)
      BY <1>1 DEF Event, Ev
    <2>2. stdout[i].type # "Stopped"
      BY <2>1 DEF Emitted
    <2> QED BY <2>2 DEF EventOrder
  <1>5. ASSUME NEW i \in 1..(n + 1), i # n + 1
        PROVE  /\ i \in 1..n /\ stdout'[i] = stdout[i]
               /\ \A j \in 1..(i - 1) : stdout'[j] = stdout[j]
    BY <1>1, <1>5
  <1>6. CASE type = "ControllerExited"
    <2>1. \E j \in 1..n : stdout'[j] \in {Ev("LaunchAccepted", id), Ev("Error", NoId)}
      BY <1>1, <1>6 DEF Announced, Emitted
    <2>2. \A j \in 1..n : stdout'[j] \notin {e, Ev("ShutdownAccepted", id)}
      BY <1>1, <1>6 DEF Emitted
    <2>3. (n + 1) - 1 = n
      BY <1>1
    <2>4. ASSUME NEW i \in 1..(n + 1)
          PROVE  /\ stdout'[i].type # "Stopped"
                 /\ stdout'[i].type = "ControllerExited" =>
                    /\ \E j \in 1..(i - 1) :
                          stdout'[j] \in {Ev("LaunchAccepted", stdout'[i].id), Ev("Error", NoId)}
                    /\ \A j \in 1..(i - 1) :
                          stdout'[j] \notin {stdout'[i], Ev("ShutdownAccepted", stdout'[i].id)}
      <3>1. CASE i = n + 1
        <4>1. stdout'[i] = e /\ i - 1 = n
          BY <1>1, <2>3, <3>1
        <4> QED BY <1>3, <1>6, <2>1, <2>2, <4>1
      <3>2. CASE i # n + 1
        <4>1. /\ i \in 1..n /\ stdout'[i] = stdout[i]
              /\ \A j \in 1..(i - 1) : stdout'[j] = stdout[j]
          BY <1>5, <3>2
        <4> QED BY <1>4, <4>1
      <3> QED BY <3>1, <3>2
    <2> HIDE DEF e, n
    <2> QED BY <1>1, <2>4 DEF EventOrder
  <1>7. CASE type = "Stopped"
    <2>1. \A r \in RequestIds : Emitted(Ev("LaunchAccepted", r))'
                                => Emitted(Ev("ControllerExited", r))'
      BY <1>2, <1>7 DEF Ev
    <2> QED BY <1>1, <1>3, <1>4, <1>5, <1>7, <2>1, SMTT(30) DEF EventOrder
  <1>8. CASE type \notin {"ControllerExited", "Stopped"}
    BY <1>1, <1>3, <1>4, <1>5, <1>8, SMTT(30) DEF EventOrder
  <1> QED BY <1>6, <1>7, <1>8

(* A step that forks, reaps and announces nothing, at most reads an id,     *)
(* complains or says that it is idle.                                       *)
LEMMA QuietStep ==
    ASSUME TypeOK, PairInv,
           \/ stdout' = stdout
           \/ pc # "exited" /\ \E type \in {"Ready", "Idle", "Error"}, id \in RequestIds \cup {NoId} :
                                  Ev(type, id) \in Event /\ Emit(type, id),
           requestIds \subseteq requestIds', UNCHANGED <<inFlight, controllers, shutdownId>>,
           phase # "Ready" => phase' # "Ready", pc = "exited" => pc' = "exited",
           \A r \in RequestIds : /\ proc'[r] \in {"run", "zombie"} <=> proc[r] \in {"run", "zombie"}
                                 /\ proc'[r] = "none" <=> proc[r] = "none"
                                 /\ proc'[r] = "gone" <=> proc[r] = "gone"
    PROVE  PairInv'
  <1>1. /\ Emitted(Ev("Error", NoId)) => Emitted(Ev("Error", NoId))'
        /\ \A r \in RequestIds : Announced(r) => Announced(r)'
        /\ \A type \in {"LaunchAccepted", "ControllerExited", "ShutdownAccepted", "Stopped"},
              id \in RequestIds \cup {NoId} : Emitted(Ev(type, id))' <=> Emitted(Ev(type, id))
    <2>1. CASE stdout' = stdout
      BY <2>1 DEF Emitted, Announced
    <2>2. ASSUME NEW t \in {"Ready", "Idle", "Error"}, NEW id \in RequestIds \cup {NoId},
                 Ev(t, id) \in Event, Emit(t, id)
          PROVE  <1>1!1 /\ <1>1!2 /\ <1>1!3
      <3>1. \A f : Emitted(f)' <=> Emitted(f) \/ f = Ev(t, id)
        BY <2>2, EmitAppends DEF TypeOK
      <3>2. \A type \in {"LaunchAccepted", "ControllerExited", "ShutdownAccepted", "Stopped"},
               d \in RequestIds \cup {NoId} : Ev(type, d) # Ev(t, id)
        BY DEF Ev
      <3> QED BY <3>1, <3>2 DEF Announced
    <2> QED BY <2>1, <2>2
  <1>2. EventOrder'
    <2>1. CASE stdout' = stdout
      BY <2>1 DEF PairInv, EventOrder, Emitted
    <2>2. ASSUME NEW t \in {"Ready", "Idle", "Error"}, NEW id \in RequestIds \cup {NoId},
                 Ev(t, id) \in Event, Emit(t, id), pc # "exited"
          PROVE  EventOrder'
      BY <2>2, OrderGrows DEF PairInv, WireInv
    <2> QED BY <2>1, <2>2
  <1>3. CountInv'
    <2>1. \A r \in RequestIds : Exists(proc'[r]) <=> Exists(proc[r])
      BY DEF Exists
    <2>2. Counted' = Counted
      BY <2>1 DEF Counted
    <2>3. InFlightExact'
      BY <2>1, <2>2 DEF PairInv, CountInv, InFlightExact, Counted
    <2> QED BY <2>1, <2>3 DEF PairInv, CountInv
  <1>4. WireInv'
    BY <1>1 DEF PairInv, WireInv
  <1> QED BY <1>2, <1>3, <1>4 DEF PairInv

(* handle_launch forks: one more controller is counted and announced. *)
LEMMA ForkPairs ==
    ASSUME TypeOK, PairInv, pc # "exited", pc' # "exited", NEW r \in RequestIds, LaunchForked(r)
    PROVE  PairInv'
  <1>1. /\ phase = "Ready" /\ r \notin requestIds /\ inFlight < MaxInFlight
        /\ requestIds' = requestIds \cup {r} /\ controllers' = controllers \cup {r}
        /\ proc' = [proc EXCEPT ![r] = "run"] /\ inFlight' = inFlight + 1
        /\ UNCHANGED <<shutdownId, phase>>
    BY BoundsAssumption DEF TypeOK, LaunchForked, LaunchRefused, Spawned, stopVars
  <1>2. PICK type \in {"LaunchAccepted", "Error"}, id \in {r, NoId} :
           /\ Emit(type, id)
           /\ type = "LaunchAccepted" <=> id = r
    BY RequestIdsAssumption DEF LaunchForked
  <1>3. proc[r] = "none" /\ shutdownId = NoId /\ shutdownId # r
    BY <1>1, RequestIdsAssumption DEF PairInv, CountInv
  <1>4. Ev(type, id) \in Event /\ ~Emitted(Ev("Stopped", NoId))
    BY <1>2, EventForms DEF PairInv, WireInv
  <1>5. \A f : Emitted(f)' <=> Emitted(f) \/ f = Ev(type, id)
    BY <1>2, <1>4, EmitAppends DEF TypeOK
  <1>6. EventOrder'
    BY <1>2, <1>4, OrderGrows DEF PairInv
  <1>7. CountInv'
    <2>1. Counted' = Counted \cup {r} /\ r \notin Counted
      BY <1>1, <1>3 DEF Counted, Exists, TypeOK
    <2>2. IsFiniteSet(Counted)
      BY FinitenessAssumption, FS_Subset DEF Counted
    <2>3. Cardinality(Counted') = Cardinality(Counted) + 1
      BY <2>1, <2>2, FS_AddElement
    <2>4. InFlightExact'
      BY <1>1, <2>3, BoundsAssumption DEF PairInv, CountInv, InFlightExact, Counted, TypeOK
    <2> QED BY <1>1, <1>3, <2>4 DEF PairInv, CountInv, Exists, TypeOK
  <1>8. WireInv'
    <2>1. \A q \in RequestIds : q # r => proc'[q] = proc[q]
      BY <1>1 DEF TypeOK
    <2>2. proc'[r] = "run"
      BY <1>1 DEF TypeOK
    <2>3. Announced(r)'
      BY <1>2, <1>5 DEF Announced
    <2>4. \A q \in RequestIds : Announced(q) => Announced(q)'
      BY <1>5 DEF Announced
    <2>5. \A q \in RequestIds : /\ Ev("ControllerExited", q) # Ev(type, id)
                                /\ Ev("ShutdownAccepted", q) # Ev(type, id)
                                /\ q # r => Ev("LaunchAccepted", q) # Ev(type, id)
      BY <1>2 DEF Ev
    <2>6. Ev("Stopped", NoId) # Ev(type, id)
      BY DEF Ev
    <2> QED BY <1>1, <1>3, <1>4, <1>5, <2>1, <2>2, <2>3, <2>4, <2>5, <2>6 DEF PairInv, WireInv
  <1> QED BY <1>6, <1>7, <1>8 DEF PairInv

(* handle_shutdown takes its id: it is fresh, so no launch changes sides. *)
LEMMA ShutdownPairs ==
    ASSUME TypeOK, PairInv, pc # "exited", pc' # "exited", NEW r \in RequestIds,
           ShutdownForces(r) \/ ShutdownForked(r)
    PROVE  PairInv'
  <1>1. /\ phase = "Ready" /\ phase' = "Stopping" /\ r \notin requestIds
        /\ requestIds' = requestIds \cup {r} /\ shutdownId' = r /\ inFlight' = inFlight
        /\ \/ controllers' = controllers /\ proc' = proc
           \/ controllers' = controllers \cup {r} /\ proc' = [proc EXCEPT ![r] = "run"]
    BY DEF ShutdownForces, ShutdownForked, BeginForcedShutdown, Spawned
  <1>2. PICK type \in {"ShutdownAccepted", "Error"} : Emit(type, r)
    BY DEF ShutdownForces, ShutdownForked
  <1>3. proc[r] = "none" /\ shutdownId = NoId
    BY <1>1 DEF PairInv, CountInv
  <1>4. Ev(type, r) \in Event /\ ~Emitted(Ev("Stopped", NoId))
    BY <1>2, EventForms DEF PairInv, WireInv
  <1>5. \A f : Emitted(f)' <=> Emitted(f) \/ f = Ev(type, r)
    BY <1>2, <1>4, EmitAppends DEF TypeOK
  <1>6. EventOrder'
    BY <1>2, <1>4, OrderGrows DEF PairInv
  <1>7. \A q \in RequestIds : q # r => proc'[q] = proc[q]
    BY <1>1 DEF TypeOK
  <1>8. CountInv'
    <2>1. Counted' = Counted
      BY <1>1, <1>3, <1>7, RequestIdsAssumption DEF Counted, Exists
    <2>2. InFlightExact'
      BY <1>1, <2>1 DEF PairInv, CountInv, InFlightExact, Counted
    <2>3. \A q \in RequestIds : /\ Exists(proc'[q]) => q \in controllers'
                                /\ q \notin requestIds' => proc'[q] = "none"
      BY <1>1, <1>3, <1>7 DEF PairInv, CountInv, Exists
    <2> QED BY <1>1, <2>2, <2>3 DEF CountInv
  <1>9. WireInv'
    <2>1. \A q \in RequestIds : Announced(q) => Announced(q)'
      BY <1>5 DEF Announced
    <2>2. \A q \in RequestIds : /\ Ev("ControllerExited", q) # Ev(type, r)
                                /\ q # r => Ev("ShutdownAccepted", q) # Ev(type, r)
                                /\ Ev("LaunchAccepted", q) # Ev(type, r)
      BY DEF Ev
    <2>3. Ev("Stopped", NoId) # Ev(type, r)
      BY DEF Ev
    <2>4. \A q \in RequestIds : shutdownId # q
      BY <1>3, RequestIdsAssumption
    <2>5. ~Emitted(Ev("LaunchAccepted", r)) /\ ~Emitted(Ev("ControllerExited", r))
      BY <1>3 DEF PairInv, WireInv
    <2> QED BY <1>1, <1>3, <1>4, <1>5, <1>7, <2>1, <2>2, <2>3, <2>4, <2>5 DEF PairInv, WireInv
  <1> QED BY <1>6, <1>8, <1>9 DEF PairInv

(* drain_reap_events reaps a controller: it is counted out and reported once. *)
LEMMA ReapPairs ==
    ASSUME TypeOK, PairInv, NEW r \in RequestIds, ReapController(r)
    PROVE  PairInv'
  <1>1. /\ proc[r] = "zombie" /\ r \in controllers /\ pc' = pc /\ pc # "exited"
        /\ proc' = [proc EXCEPT ![r] = "gone"] /\ controllers' = controllers \ {r}
        /\ UNCHANGED <<requestIds, shutdownId, phase>>
    BY DEF ReapController, ReapableControllers, stopVars, PairInv, CountInv, Exists
  <1>2. \A q \in RequestIds : q # r => proc'[q] = proc[q]
    BY <1>1 DEF TypeOK
  <1>3. proc'[r] = "gone"
    BY <1>1 DEF TypeOK
  <1>4. \A q \in RequestIds : /\ Exists(proc'[q]) => q \in controllers'
                              /\ q \notin requestIds' => proc'[q] = "none"
    BY <1>1, <1>2, <1>3 DEF PairInv, CountInv, Exists
  <1>5. CASE r = shutdownId
    <2>1. inFlight' = inFlight /\ stdout' = stdout
      BY <1>5 DEF ReapController
    <2>2. Counted' = Counted
      BY <1>1, <1>2, <1>5 DEF Counted
    <2>3. InFlightExact'
      BY <2>1, <2>2 DEF PairInv, CountInv, InFlightExact, Counted
    <2>4. WireInv'
      BY <1>1, <1>2, <1>3, <1>5, <2>1 DEF PairInv, WireInv, Announced, Emitted
    <2>5. EventOrder'
      BY <2>1 DEF PairInv, EventOrder, Emitted
    <2> QED BY <1>1, <1>4, <2>3, <2>4, <2>5 DEF PairInv, CountInv
  <1>6. CASE r # shutdownId
    <2>1. Emit("ControllerExited", r) /\ inFlight' = IF inFlight = 0 THEN 0 ELSE inFlight - 1
      BY <1>1, <1>6 DEF ReapController
    <2>2. Counted' = Counted \ {r} /\ r \in Counted
      BY <1>1, <1>2, <1>3, <1>6 DEF Counted, Exists
    <2>3. IsFiniteSet(Counted)
      BY FinitenessAssumption, FS_Subset DEF Counted
    <2>4. Cardinality(Counted') = Cardinality(Counted) - 1 /\ Cardinality(Counted) \in Nat
      BY <2>2, <2>3, FS_RemoveElement, FS_CardinalityType
    <2>5. Cardinality(Counted) # 0
      BY <2>2, <2>3, FS_EmptySet
    <2>6. InFlightExact'
      BY <2>1, <2>4, <2>5, BoundsAssumption DEF PairInv, CountInv, InFlightExact, Counted
    <2>7. Ev("ControllerExited", r) \in Event /\ ~Emitted(Ev("Stopped", NoId))
      BY <1>1, EventForms DEF PairInv, WireInv
    <2>8. \A f : Emitted(f)' <=> Emitted(f) \/ f = Ev("ControllerExited", r)
      BY <2>1, <2>7, EmitAppends DEF TypeOK
    <2>9. /\ Announced(r) /\ ~Emitted(Ev("ControllerExited", r))
          /\ ~Emitted(Ev("ShutdownAccepted", r))
      BY <1>1, <1>6 DEF PairInv, WireInv
    <2>10. EventOrder'
      BY <2>1, <2>7, <2>9, OrderGrows DEF PairInv
    <2>11. WireInv'
      <3>1. \A q \in RequestIds : Announced(q) => Announced(q)'
        BY <2>8 DEF Announced
      <3>2. \A q \in RequestIds : /\ Ev("LaunchAccepted", q) # Ev("ControllerExited", r)
                                  /\ Ev("ShutdownAccepted", q) # Ev("ControllerExited", r)
                                  /\ q # r => Ev("ControllerExited", q) # Ev("ControllerExited", r)
        BY DEF Ev
      <3>3. Ev("Stopped", NoId) # Ev("ControllerExited", r)
        BY DEF Ev
      <3> QED BY <1>1, <1>2, <1>3, <1>6, <2>7, <2>8, <2>9, <3>1, <3>2, <3>3 DEF PairInv, WireInv
    <2> QED BY <1>1, <1>4, <2>6, <2>10, <2>11 DEF PairInv, CountInv
  <1> QED BY <1>5, <1>6

(* Stopped is said when every process is reaped, so every exit was reported. *)
LEMMA StoppedPairs ==
    ASSUME TypeOK, StopInv, PairInv, TailStopped
    PROVE  PairInv'
  <1>1. /\ pc = "tail" /\ pc' = "exited" /\ Emit("Stopped", NoId) /\ ~HasChildren
        /\ UNCHANGED <<requestIds, inFlight, controllers, shutdownId, phase, proc>>
    BY DEF TailStopped, StopInv, tableVars, stopVars, osVars
  <1>2. \A r \in RequestIds : ~Exists(proc[r]) /\ proc[r] \in ProcState
    BY <1>1 DEF HasChildren, TypeOK
  <1>3. \A r \in RequestIds : proc[r] \in {"none", "gone"}
    BY <1>2 DEF Exists, ProcState
  <1>4. Ev("Stopped", NoId) \in Event /\ ~Emitted(Ev("Stopped", NoId))
    BY <1>1, EventForms DEF PairInv, WireInv
  <1>5. \A f : Emitted(f)' <=> Emitted(f) \/ f = Ev("Stopped", NoId)
    BY <1>1, <1>4, EmitAppends DEF TypeOK
  <1>6. EventOrder'
    <2>1. \A r \in RequestIds : Emitted(Ev("LaunchAccepted", r))
                                => Emitted(Ev("ControllerExited", r))
      BY <1>3 DEF PairInv, WireInv
    <2> QED BY <1>1, <1>4, <2>1, OrderGrows DEF PairInv
  <1>7. \A type \in {"LaunchAccepted", "ControllerExited", "ShutdownAccepted"}, r \in RequestIds :
           Ev(type, r) # Ev("Stopped", NoId)
    BY DEF Ev
  <1>8. WireInv'
    BY <1>1, <1>5, <1>7 DEF PairInv, WireInv, Announced
  <1>9. CountInv'
    BY <1>1 DEF PairInv, CountInv, InFlightExact
  <1> QED BY <1>6, <1>8, <1>9 DEF PairInv

(* Each step keeps PairInv. *)
LEMMA PairStep == TypeOK /\ StopInv /\ PairInv /\ [Next]_vars => PairInv'
  <1> SUFFICES ASSUME TypeOK, StopInv, PairInv, [Next]_vars PROVE PairInv'
    OBVIOUS
  <1>1. CASE HandshakeOk \/ HandshakeFails \/ TailReady
    <2>1. /\ UNCHANGED <<requestIds, inFlight, controllers, shutdownId, phase, proc>>
          /\ pc # "exited"
      BY <1>1 DEF HandshakeOk, HandshakeFails, TailReady, tableVars, stopVars, osVars
    <2>2. \/ stdout' = stdout
          \/ \E type \in {"Ready", "Idle", "Error"} : Ev(type, NoId) \in Event /\ Emit(type, NoId)
      BY <1>1, EventForms DEF HandshakeOk, HandshakeFails, TailReady
    <2> QED BY <2>1, <2>2, QuietStep
  <1>2. CASE ReadLine
    <2>1. pc # "exited" /\ pc' # "exited" /\ Head(stdin) \in Request
      BY <1>2 DEF ReadLine, TypeOK
    <2>2. ASSUME NEW r \in RequestIds,
                 LaunchRejected(r) \/ LaunchFailed(r) \/ ShutdownRejected(r)
          PROVE  PairInv'
      <3>1. /\ requestIds \subseteq requestIds' /\ Emit("Error", r)
            /\ UNCHANGED <<inFlight, controllers, shutdownId, phase, proc>>
        BY <2>2 DEF LaunchRejected, LaunchFailed, ShutdownRejected, tableVars, stopVars
      <3> QED BY <2>1, <3>1, EventForms, QuietStep
    <2>3. CASE Head(stdin).type \in {"Hello", "Malformed"}
      <3>1. /\ UNCHANGED <<requestIds, inFlight, controllers, shutdownId, proc>>
            /\ Emit("Error", NoId) /\ phase' \in {phase, "Stopping"}
        BY <1>2, <2>3 DEF ReadLine, HandleLine, BeginForcedShutdown, tableVars, stopVars
      <3> QED BY <2>1, <3>1, EventForms, QuietStep
    <2>4. Head(stdin).type \in {"Launch", "Shutdown"} => Head(stdin).id \in RequestIds
      BY <2>1 DEF Request
    <2> QED
      BY <1>2, <2>1, <2>2, <2>3, <2>4, ForkPairs, ShutdownPairs DEF ReadLine, HandleLine
  <1>3. CASE LoopTop \/ ReadEof
    <2>1. /\ UNCHANGED <<stdout, requestIds, inFlight, controllers, shutdownId, proc>>
          /\ pc # "exited" /\ phase' \in {phase, "Stopping"}
      BY <1>3 DEF LoopTop, ReadEof, BeginForcedShutdown, tableVars, stopVars, osVars
    <2> QED BY <2>1, QuietStep
  <1>4. CASE Drain
    <2>1. ASSUME NEW r \in RequestIds, ReapOrphan(r) PROVE PairInv'
      <3>1. UNCHANGED <<stdout, requestIds, inFlight, controllers, shutdownId, proc, phase, pc>>
        BY <2>1 DEF ReapOrphan, tableVars, stopVars
      <3> QED BY <3>1, QuietStep
    <2> QED BY <1>4, <2>1, ReapPairs DEF Drain
  <1>5. CASE Drained \/ DrainedAfterSignal
    <2>1. /\ UNCHANGED <<stdout, requestIds, inFlight, controllers, shutdownId, proc>>
          /\ pc # "exited" /\ phase' \in {phase, "Stopped"}
      BY <1>5 DEF Drained, DrainedAfterSignal, tableVars, osVars
    <2> QED BY <2>1, QuietStep
  <1>6. CASE SignalKill
    <2>1. /\ UNCHANGED <<stdout, requestIds, inFlight, controllers, shutdownId, phase>>
          /\ pc # "exited"
          /\ proc' = [r \in RequestIds |-> IF proc[r] = "run" THEN "zombie" ELSE proc[r]]
      BY <1>6 DEF SignalKill, tableVars, stopVars
    <2> QED BY <2>1, QuietStep
  <1>7. CASE ProcessStep
    <2>1. /\ UNCHANGED <<stdout, requestIds, inFlight, controllers, shutdownId, phase, pc>>
          /\ \/ proc' = proc
             \/ \E r \in RequestIds : proc[r] = "run" /\ proc' = [proc EXCEPT ![r] = "zombie"]
      BY <1>7 DEF ProcessStep, ControllerForks, ControllerDies, DescendantDies, tableVars, stopVars
    <2>2. \A r \in RequestIds : proc'[r] = proc[r] \/ (proc[r] = "run" /\ proc'[r] = "zombie")
      BY <2>1 DEF TypeOK
    <2> QED BY <2>1, <2>2, QuietStep
  <1>8. CASE ReadNothing \/ SignalTerm \/ TailStopping \/ DeadlinePasses \/ TermDelayPasses
             \/ SigtermArrives \/ ParentDies \/ ClientCloses \/ UNCHANGED vars
    <2>1. /\ UNCHANGED <<stdout, requestIds, inFlight, controllers, shutdownId, proc, phase>>
          /\ pc = "exited" => pc' = "exited"
      BY <1>8 DEF ReadNothing, SignalTerm, TailStopping, DeadlinePasses, TermDelayPasses,
                  SigtermArrives, ParentDies, ClientCloses, vars, tableVars, stopVars, osVars
    <2> QED BY <2>1, QuietStep
  <1>9. ASSUME NEW line \in ClientLines, ClientWrites(line) PROVE PairInv'
    <2>1. UNCHANGED <<stdout, requestIds, inFlight, controllers, shutdownId, proc, phase, pc>>
      BY <1>9 DEF ClientWrites, tableVars, stopVars, osVars
    <2> QED BY <2>1, QuietStep
  <1> QED
    BY <1>1, <1>2, <1>3, <1>4, <1>5, <1>6, <1>7, <1>8, <1>9, StoppedPairs
       DEF Next, DaemonStep, EnvStep

(* The supervisor starts with nothing counted and nothing said. *)
LEMMA PairStart == Init => PairInv
  <1> SUFFICES ASSUME Init PROVE PairInv
    OBVIOUS
  <1>1. Counted = {} /\ inFlight = 0 /\ shutdownId = NoId /\ requestIds = {} /\ stdout = <<>>
    BY DEF Init, Counted, Exists
  <1>2. InFlightExact
    <2>1. Cardinality(Counted) = 0
      BY <1>1, FS_EmptySet
    <2> QED BY <1>1, <2>1, BoundsAssumption DEF InFlightExact, Counted
  <1>3. \A e : ~Emitted(e)
    BY <1>1 DEF Emitted
  <1>4. EventOrder
    BY <1>1 DEF EventOrder
  <1>5. \A r \in RequestIds : proc[r] = "none"
    BY DEF Init
  <1>6. CountInv
    BY <1>1, <1>2, <1>5 DEF CountInv, Exists
  <1>7. WireInv
    BY <1>3, <1>5 DEF WireInv
  <1> QED BY <1>4, <1>6, <1>7 DEF PairInv

(* Requests pair, for any number of requests and any behaviour of processes *)
(* and client: the count of handle_launch is exact and bounded, and every   *)
(* exit and the final Stopped come in the order the launcher's reader       *)
(* relies on.                                                               *)
THEOREM RequestsAlwaysPair == Spec => []RequestsPair
  <1>1. Init => StopInv
    BY DEF Init, StopInv, Emitted
  <1>2. PairInv => RequestsPair
    BY DEF PairInv, CountInv, RequestsPair
  <1> QED
    BY <1>1, <1>2, PairStart, PairStep, StopStep, SessiondTypeCorrect, PTL DEF Spec
-----------------------------------------------------------------------------
(* ECHILD is found by the drain of one iteration and trusted at its end:    *)
(* with no child left nobody can fork in between.                           *)
LEMMA IdleStep == TypeOK /\ IdleInv /\ [Next]_vars => IdleInv'
  <1> SUFFICES ASSUME TypeOK, IdleInv, [Next]_vars PROVE IdleInv'
    OBVIOUS
  <1>1. CASE Drained \/ DrainedAfterSignal
    BY <1>1 DEF Drained, DrainedAfterSignal, IdleInv, HasChildren, osVars
  <1>2. CASE ProcessStep
    <2>1. pc' = pc /\ lastEchild' = lastEchild
      BY <1>2 DEF ProcessStep, ControllerForks, ControllerDies, DescendantDies, loopVars
    <2> QED BY <1>2, <2>1, NoForkWithoutParent DEF IdleInv
  <1>3. CASE HandshakeOk \/ HandshakeFails \/ LoopTop \/ ReadLine \/ ReadEof \/ ReadNothing
             \/ SignalTerm \/ SignalKill \/ TailReady \/ TailStopping \/ TailStopped
    BY <1>3 DEF HandshakeOk, HandshakeFails, LoopTop, ReadLine, ReadEof, ReadNothing, SignalTerm,
                SignalKill, TailReady, TailStopping, TailStopped, IdleInv
  <1>4. CASE Drain
    BY <1>4 DEF Drain, ReapController, ReapOrphan, IdleInv
  <1>5. CASE DeadlinePasses \/ TermDelayPasses \/ SigtermArrives \/ ParentDies \/ ClientCloses
             \/ UNCHANGED vars
    BY <1>5 DEF DeadlinePasses, TermDelayPasses, SigtermArrives, ParentDies, ClientCloses,
                IdleInv, HasChildren, vars, loopVars, osVars
  <1>6. ASSUME NEW line \in ClientLines, ClientWrites(line) PROVE IdleInv'
    BY <1>6 DEF ClientWrites, IdleInv, HasChildren, loopVars, osVars
  <1> QED
    BY <1>1, <1>2, <1>3, <1>4, <1>5, <1>6 DEF Next, DaemonStep, EnvStep

(* Only the end of an iteration that found ECHILD says Idle. *)
LEMMA OnlyTailSaysIdle ==
    ASSUME TypeOK, [Next]_vars, stdout' = Append(stdout, Ev("Idle", NoId))
    PROVE  TailReady /\ lastEchild
  <1>1. ASSUME NEW type, NEW id, Emit(type, id)
        PROVE  type = "Idle"
    <2>1. Append(stdout, Ev(type, id)) = Append(stdout, Ev("Idle", NoId))
      BY <1>1 DEF Emit
    <2>2. /\ Append(stdout, Ev(type, id))[Len(stdout) + 1] = Ev(type, id)
          /\ Append(stdout, Ev("Idle", NoId))[Len(stdout) + 1] = Ev("Idle", NoId)
      BY DEF TypeOK, Ev
    <2> QED BY <2>1, <2>2 DEF Ev
  <1>2. stdout' # stdout
    <2>1. Len(Append(stdout, Ev("Idle", NoId))) = Len(stdout) + 1 /\ Len(stdout) \in Nat
      BY DEF TypeOK
    <2> QED BY <2>1
  <1>3. ~(HandshakeOk \/ HandshakeFails \/ TailStopped)
    BY <1>1 DEF HandshakeOk, HandshakeFails, TailStopped
  <1>4. ~ReadLine
    BY <1>1 DEF ReadLine, HandleLine, LaunchRejected, LaunchFailed, LaunchForked,
                ShutdownRejected, ShutdownForces, ShutdownForked
  <1>5. ~Drain
    BY <1>1, <1>2 DEF Drain, ReapController, ReapOrphan
  <1>6. ~(LoopTop \/ ReadEof \/ ReadNothing \/ Drained \/ SignalTerm \/ SignalKill
          \/ DrainedAfterSignal \/ TailStopping \/ EnvStep \/ ClientCloses \/ UNCHANGED vars)
    BY <1>2 DEF LoopTop, ReadEof, ReadNothing, Drained, SignalTerm, SignalKill,
                DrainedAfterSignal, TailStopping, EnvStep, DeadlinePasses, TermDelayPasses,
                ProcessStep, ControllerForks, ControllerDies, DescendantDies, SigtermArrives,
                ParentDies, ClientCloses, vars
  <1>7. ~\E line \in ClientLines : ClientWrites(line)
    BY <1>2 DEF ClientWrites
  <1>8. TailReady
    BY <1>3, <1>4, <1>5, <1>6, <1>7 DEF Next, DaemonStep
  <1> QED BY <1>2, <1>8 DEF TailReady

(* Idle is never false: when run_session writes it no process of the        *)
(* session runs or waits to be reaped.                                      *)
THEOREM IdleAlwaysTruthful == Spec => IdleIsTruthful
  <1>1. TypeOK /\ IdleInv /\ [Next]_vars =>
           [\A e \in {Ev("Idle", NoId)} : stdout' = Append(stdout, e) => ~HasChildren']_vars
    <2> SUFFICES ASSUME TypeOK, IdleInv, [Next]_vars, stdout' = Append(stdout, Ev("Idle", NoId))
                 PROVE  ~HasChildren'
      OBVIOUS
    <2>1. TailReady /\ lastEchild
      BY OnlyTailSaysIdle
    <2> QED BY <2>1 DEF TailReady, IdleInv, HasChildren, osVars
  <1>2. Init => IdleInv
    BY DEF Init, IdleInv
  <1> QED
    BY <1>1, <1>2, IdleStep, SessiondTypeCorrect, PTL DEF Spec, IdleIsTruthful
=============================================================================
