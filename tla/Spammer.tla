------------------------------ MODULE Spammer ------------------------------
(***************************************************************************)
(* The spammer: its loop (tools/spammer/loop_runner.rs), the keyboard      *)
(* grabber ro-inputd that feeds it, the gear switch, and the worker they   *)
(* share with autopot.                                                     *)
(*                                                                         *)
(* The loop is one select with a fixed order of branches; its calls of     *)
(* release_spam block it.  A cycle runs on the blocking pool: it is        *)
(* spawned, starts later, and cannot be aborted once it started.  A        *)
(* session may be stopped at any time and another one started; a session   *)
(* that does not stop in time is aborted at one of its awaits.             *)
(***************************************************************************)
EXTENDS InputWorker, SequencesExt

CONSTANTS
    Keys,          \* the trigger keys
    ShiftKeys,     \* those that hold Shift during the cycle
    RuleKeys,      \* those with a gear rule, if the gear switch is on
    AtkKey, DefKey,  \* the sets of keys a rule equips on press and on release
    PotKey,        \* the key autopot presses
    MaxSessions,   \* bound on the sessions of a run
    CycleOf, GearOf,  \* of each session: the pool threads of its cycle and of its gear switch
    Scenarios      \* the runs to explore: a record of bounds for each

Sessions == 1..MaxSessions
ASSUME MaxSessionsAssumption == MaxSessions \in Nat
ASSUME KeysAssumption ==
    /\ Keys \subseteq Labels /\ PotKey \in Labels
    /\ AtkKey \in Seq(Labels) /\ DefKey \in Seq(Labels)
\* every task has a thread of its own, and nothing else calls the worker
ASSUME ThreadsAssumption ==
    /\ CycleOf \in [Sessions -> Writers \ {"loop", "autopot"}]
    /\ GearOf \in [Sessions -> Writers \ {"loop", "autopot"}]
    /\ \A s, t \in Sessions : /\ CycleOf[s] # GearOf[t]
                              /\ s # t => CycleOf[s] # CycleOf[t] /\ GearOf[s] # GearOf[t]
    /\ {"loop", "autopot"} \subseteq Writers
Bounds == {"presses", "cycles", "pots", "sessions"}
ASSUME ScenariosAssumption ==
    \A s \in Scenarios : /\ \A x \in Bounds : s[x] \in Nat
                         /\ s.sessions <= MaxSessions /\ s.gear \in BOOLEAN
NoTask == [st |-> "none", key |-> NoKey, ticket |-> 0]

VARIABLES
    loop,      \* where the loop stands
    active,    \* active_key
    held,      \* held_keys
    armed,     \* cycle_armed
    ready,     \* ready_received
    pending,   \* the gear set that waits for the spammer to pause, if any
    task,      \* cycle_tasks of each session
    equips,    \* the gear task of each session: the keys it still presses
    session,   \* number of the current session
    stop,      \* stop_rx
    inputd,    \* ro-inputd
    lines,     \* its standard output
    phys,      \* the triggers the user holds
    passed,    \* alt_passthrough_keys
    left,      \* the presses, cycles, potions and sessions still to come
    gearOn,    \* gear_switch.enabled
    quiet      \* the last release succeeded and no cycle was dispatched since

loopVars == <<active, held, armed, ready, pending>>
inputdVars == <<inputd, lines, phys, passed>>
spammerVars == <<loop, loopVars, task, equips, session, stop, inputdVars,
                 left, gearOn, quiet, inputVars>>

SpammerInit ==
    /\ InputInit
    /\ loop = "off"
    /\ active = NoKey /\ held = <<>> /\ armed = FALSE /\ ready = FALSE /\ pending = <<>>
    /\ task = [s \in Sessions |-> NoTask] /\ equips = [s \in Sessions |-> <<>>]
    /\ session = 0 /\ stop = FALSE
    /\ inputd = "gone" /\ lines = <<>> /\ phys = {} /\ passed = {}
    /\ \E s \in Scenarios : /\ left = [x \in Bounds |-> s[x]]
                            /\ faults = s.faults /\ gearOn = s.gear
    /\ quiet = TRUE

workerOnly == <<worker, high, normal, cmd, wpc, device, spam, faults>>

(* --------------------------- ro-inputd -------------------------------- *)

(* main: devices found and grabbed, or a fatal line and exit *)
InputdStarts ==
    /\ inputd = "starting"
    /\ \/ inputd' = "up" /\ lines' = Append(lines, [type |-> "ready", key |-> NoKey, held |-> FALSE])
       \/ inputd' = "gone" /\ lines' = Append(lines, [type |-> "fatal", key |-> NoKey, held |-> FALSE])
    /\ UNCHANGED <<loop, loopVars, task, equips, session, stop, phys, passed, left,
                   quiet, inputVars>>
InputdDies ==
    /\ inputd = "up" /\ faults > 0 /\ faults' = faults - 1
    /\ inputd' = "gone"
    /\ lines' \in {lines, Append(lines, [type |-> "fatal", key |-> NoKey, held |-> FALSE])}
    /\ UNCHANGED <<loop, loopVars, task, equips, session, stop, phys, passed, left,
                   quiet, worker, high, normal, cmd, wpc, device, spam,
                   generation, sequence, call>>

EmitTrigger(k, h) ==
    lines' = IF inputd = "up" THEN Append(lines, [type |-> "trigger", key |-> k, held |-> h])
             ELSE lines
(* The user's keyboard.  A trigger pressed while Alt is down goes to the desktop
   and is announced as not held; its release is passed on in silence
   (trigger_uses_alt_passthrough).  Repeats are ignored. *)
PressTrigger(k, alt) ==
    /\ k \notin phys /\ phys' = phys \union {k}
    /\ left.presses > 0 /\ left' = [left EXCEPT !.presses = @ - 1]
    /\ passed' = IF inputd = "up" /\ alt THEN passed \union {k} ELSE passed
    /\ EmitTrigger(k, ~alt)
ReleaseTrigger(k) ==
    /\ k \in phys /\ phys' = phys \ {k}
    /\ passed' = passed \ {k}
    /\ IF k \in passed THEN UNCHANGED lines ELSE EmitTrigger(k, FALSE)
    /\ UNCHANGED left
KeyboardEvent ==
    /\ \E k \in Keys : ReleaseTrigger(k) \/ \E alt \in BOOLEAN : PressTrigger(k, alt)
    /\ UNCHANGED <<loop, loopVars, task, equips, session, stop, inputd, quiet, inputVars>>

(* ------------------------------ session ------------------------------- *)

(* start_session and SessionController::replace, after the stop *)
StartSpammer ==
    /\ loop = "off" /\ left.sessions > 0 /\ worker = "running"
    /\ left' = [left EXCEPT !.sessions = @ - 1]
    /\ session' = session + 1 /\ loop' = "select" /\ stop' = FALSE
    /\ inputd' = "starting" /\ lines' = <<>> /\ passed' = {}
    /\ UNCHANGED <<loopVars, task, equips, phys, quiet, inputVars>>
StopSpammer ==
    /\ loop # "off" /\ ~stop /\ stop' = TRUE
    /\ UNCHANGED <<loop, loopVars, task, equips, session, inputdVars, left, quiet,
                   inputVars>>

(* cycle_tasks.abort_all: a cycle that has not started never will *)
AbortTasks == task' = [task EXCEPT ![session] = IF @.st = "spawned" THEN NoTask ELSE @]

(* the locals of the loop are not read again *)
ForgetLocals == active' = NoKey /\ held' = <<>> /\ armed' = FALSE /\ ready' = FALSE /\ pending' = <<>>

(* stop_locked times out: the loop is dropped at its await; the tasks go first,
   then SpamReleaseGuard releases, and kill_on_drop ends ro-inputd *)
AbortLoop ==
    /\ stop /\ loop \in {"select", "equip", "joining"} /\ faults > 0
    /\ faults' = faults - 1
    /\ loop' = "dropping" /\ SubmitRelease("loop") /\ AbortTasks
    /\ inputd' = "gone" /\ lines' = <<>> /\ quiet' = FALSE
    /\ ForgetLocals
    /\ UNCHANGED <<equips, session, stop, phys, passed, left,
                   worker, high, normal, cmd, wpc, device, spam>>

(* ------------------------------- loop --------------------------------- *)

(* every way out of 'main ends in a release *)
BreakMain == loop' = "ending" /\ SubmitRelease("loop") /\ quiet' = FALSE /\ ForgetLocals
LoopFrame == <<equips, session, stop, phys, passed, left, workerOnly>>

SeesStop ==
    /\ loop = "select" /\ stop
    /\ BreakMain
    /\ UNCHANGED <<task, inputd, lines, LoopFrame>>
ReadyTimeout ==
    /\ loop = "select" /\ ~stop /\ ~ready /\ lines = <<>> /\ inputd = "starting"
    /\ BreakMain
    /\ UNCHANGED <<task, inputd, lines, LoopFrame>>
SeesEof ==
    /\ loop = "select" /\ ~stop /\ lines = <<>> /\ inputd = "gone"
    /\ BreakMain
    /\ UNCHANGED <<task, inputd, lines, LoopFrame>>

Line(type) ==
    /\ loop = "select" /\ ~stop /\ lines # <<>>
    /\ Head(lines).type = type /\ lines' = Tail(lines)
ReadFatal ==
    /\ Line("fatal") /\ BreakMain
    /\ UNCHANGED <<task, inputd, LoopFrame>>
ReadReady ==
    /\ Line("ready") /\ ready' = TRUE
    /\ loop' = "readying" /\ SubmitRelease("loop") /\ quiet' = FALSE
    /\ UNCHANGED <<active, held, armed, pending, task, inputd, LoopFrame>>

(* a trigger line: held_keys, active_key and the timer *)
IsHeld(k) == \E i \in DOMAIN held : held[i] = k        \* at most once
HeldAfter(k, h) ==
    CASE h /\ ~IsHeld(k) -> Append(held, k)
      [] ~h /\ IsHeld(k) -> RemoveAt(held, CHOOSE i \in DOMAIN held : held[i] = k)
      [] OTHER -> held
ActiveAfter(k, h) ==
    IF h THEN k
    ELSE IF active # k THEN active
    ELSE IF HeldAfter(k, h) = <<>> THEN NoKey
    ELSE HeldAfter(k, h)[Len(HeldAfter(k, h))]
ArmedByTheCycleOnly(k, h) == ActiveAfter(k, h) # NoKey /\ armed
ArmedAfter(k, h) ==
    IF ActiveAfter(k, h) = NoKey THEN FALSE
    ELSE IF active = NoKey THEN task[session].st = "none"
    ELSE armed
(* the gear keys of a fresh press or a fresh release of a key with a rule *)
GearAfter(k, h) ==
    IF gearOn /\ k \in RuleKeys /\ h # IsHeld(k)
    THEN <<IF h THEN AtkKey ELSE DefKey>> ELSE <<>>
ReadTrigger ==
    LET k == Head(lines).key
        h == Head(lines).held IN
    /\ Line("trigger") /\ ready
    /\ held' = HeldAfter(k, h) /\ active' = ActiveAfter(k, h) /\ armed' = ArmedAfter(k, h)
    /\ pending' = GearAfter(k, h)
    /\ \/ /\ active # NoKey /\ active' # active
          /\ loop' = "cancel" /\ SubmitRelease("loop") /\ quiet' = FALSE
       \/ /\ active = NoKey \/ active' = active
          /\ pending' # <<>>
          /\ loop' = "pause" /\ SubmitRelease("loop") /\ quiet' = FALSE
       \/ /\ active = NoKey \/ active' = active
          /\ pending' = <<>>
          /\ UNCHANGED <<loop, quiet, call, generation, sequence>>
    /\ UNCHANGED <<ready, task, inputd, LoopFrame>>

(* release_spam returns; without an answer in time, or with an error, the loop ends *)
ReleaseReturns ==
    LET ok == call["loop"].st = "ok"
        answered == [call EXCEPT !["loop"] = NoCall]
        To(l) == loop' = l /\ call' = answered /\ quiet' = ok /\ UNCHANGED <<generation, sequence>>
        Again(l) == loop' = l /\ SubmitRelease("loop") /\ quiet' = FALSE IN
    /\ Answered("loop")
    /\ \/ /\ loop \in {"readying", "cancel", "pause"} /\ ~ok
          /\ Again("ending") /\ ForgetLocals /\ UNCHANGED <<task, equips>>
       \/ /\ loop = "readying" /\ ok
          /\ To("select") /\ UNCHANGED <<loopVars, task, equips>>
       \/ /\ loop = "cancel" /\ ok /\ pending = <<>>
          /\ To("select") /\ UNCHANGED <<loopVars, task, equips>>
       \/ /\ loop = "cancel" /\ ok /\ pending # <<>>
          /\ Again("pause") /\ UNCHANGED <<loopVars, task, equips>>
       \/ /\ loop = "pause" /\ ok /\ worker = "running"
          /\ To("equip") /\ equips' = [equips EXCEPT ![session] = pending[1]]
          /\ pending' = <<>> /\ UNCHANGED <<active, held, armed, ready, task>>
       \/ /\ loop = "ending"
          /\ To("joining") /\ AbortTasks /\ UNCHANGED <<loopVars, equips>>
       \/ /\ loop = "dropping"
          /\ To("off") /\ UNCHANGED <<loopVars, task, equips>>
    /\ UNCHANGED <<session, stop, inputdVars, left, workerOnly>>

(* gear::equip on the blocking pool; the loop waits for it, an aborted one does not *)
EquipPress(s) ==
    /\ equips[s] # <<>> /\ call[GearOf[s]].st = "none"
    /\ SubmitPress(GearOf[s], Head(equips[s]))
    /\ UNCHANGED <<loop, loopVars, task, equips, session, stop, inputdVars, left,
                   quiet>>
EquipReturns(s) ==
    /\ Answered(GearOf[s])
    /\ call' = [call EXCEPT ![GearOf[s]] = NoCall]
    /\ equips' = [equips EXCEPT ![s] = IF call[GearOf[s]].st = "ok" THEN Tail(@) ELSE <<>>]
    /\ UNCHANGED <<loop, loopVars, task, session, stop, inputdVars, left, quiet,
                   generation, sequence, workerOnly>>
EquipDone ==
    /\ loop = "equip" /\ equips[session] = <<>>
    /\ loop' = "select"
    /\ UNCHANGED <<loopVars, task, equips, session, stop, inputdVars, left, quiet,
                   inputVars>>

(* cycle_sleep fires: the ticket is taken here, not on the pool *)
TicketNow == generation
TimerFires ==
    /\ loop = "select" /\ ~stop /\ lines = <<>> /\ inputd # "gone"
    /\ ready /\ armed /\ armed' = FALSE
    /\ IF active = NoKey THEN UNCHANGED <<task, quiet, left>>
       ELSE /\ left.cycles > 0 /\ left' = [left EXCEPT !.cycles = @ - 1]
            /\ task' = [task EXCEPT ![session] =
                          [st |-> "spawned", key |-> active, ticket |-> TicketNow]]
            /\ quiet' = FALSE
    /\ UNCHANGED <<loop, active, held, ready, pending, equips, session, stop, inputdVars,
                   inputVars>>
CycleStartsWithNewTicket(s) ==
    /\ task[s].st = "spawned" /\ task' = [task EXCEPT ![s].st = "running"]
    /\ SubmitCycle(CycleOf[s], task[s].key, task[s].key \in ShiftKeys, generation)
    /\ UNCHANGED <<loop, loopVars, equips, session, stop, inputdVars, left, quiet,
                   workerOnly>>
CycleStarts(s) ==
    /\ task[s].st = "spawned" /\ task' = [task EXCEPT ![s].st = "running"]
    /\ SubmitCycle(CycleOf[s], task[s].key, task[s].key \in ShiftKeys, task[s].ticket)
    /\ UNCHANGED <<loop, loopVars, equips, session, stop, inputdVars, left, quiet,
                   workerOnly>>
JoinCycle ==
    /\ loop = "select" /\ ~stop /\ lines = <<>> /\ inputd # "gone"
    /\ Answered(CycleOf[session]) /\ task[session].st = "running"
    /\ task' = [task EXCEPT ![session] = NoTask]
    /\ \/ /\ call[CycleOf[session]].st \in {"ok", "skipped"}
          /\ armed' = (armed \/ active # NoKey)
          /\ call' = [call EXCEPT ![CycleOf[session]] = NoCall]
          /\ UNCHANGED <<loop, quiet, generation, sequence, active, held, ready, pending>>
       \/ /\ call[CycleOf[session]].st = "failed"
          /\ loop' = "ending" /\ quiet' = FALSE /\ ForgetLocals
          /\ generation' = generation + 1 /\ sequence' = sequence + 1
          /\ call' = [call EXCEPT ![CycleOf[session]] = NoCall,
                                  !["loop"] = CallOf("loop", "release", NoKey, FALSE, 0)]
    /\ UNCHANGED <<equips, session, stop, inputdVars, left, workerOnly>>

(* join_next until the set is empty; then ro-inputd is stopped and the guard drops *)
JoinAll ==
    /\ loop = "joining" /\ task[session].st # "running"
    /\ inputd' = "gone" /\ lines' = <<>>
    /\ loop' = "dropping" /\ SubmitRelease("loop") /\ quiet' = FALSE
    /\ UNCHANGED <<loopVars, task, equips, session, stop, phys, passed, left, workerOnly>>
(* a cycle that nobody joins any more, or that join_next collects *)
CycleReturns(s) ==
    /\ task[s].st = "running" /\ Answered(CycleOf[s])
    /\ s # session \/ loop \in {"joining", "dropping", "off"}
    /\ task' = [task EXCEPT ![s] = NoTask]
    /\ call' = [call EXCEPT ![CycleOf[s]] = NoCall]
    /\ UNCHANGED <<loop, loopVars, equips, session, stop, inputdVars, left, quiet,
                   generation, sequence, workerOnly>>

(* ------------------------------ others -------------------------------- *)

AutopotPress ==
    /\ left.pots > 0 /\ left' = [left EXCEPT !.pots = @ - 1] /\ ~InCall("autopot")
    /\ SubmitPress("autopot", PotKey)
    /\ UNCHANGED <<loop, loopVars, task, equips, session, stop, inputdVars, quiet>>

spammerOnly == <<loop, loopVars, task, equips, session, stop, inputdVars, left, quiet>>

LoopStep == \/ SeesStop \/ ReadyTimeout \/ SeesEof \/ ReadFatal \/ ReadReady \/ ReadTrigger
            \/ ReleaseReturns \/ EquipDone \/ TimerFires \/ JoinCycle \/ JoinAll
PoolStep == \E s \in Sessions : \/ EquipPress(s) \/ EquipReturns(s)
                               \/ CycleStarts(s) \/ CycleReturns(s)

SpammerNext ==
    /\ UNCHANGED gearOn
    /\ \/ LoopStep \/ PoolStep
       \/ InputdStarts \/ InputdDies \/ KeyboardEvent
       \/ StartSpammer \/ StopSpammer \/ AbortLoop \/ AutopotPress
       \/ WorkerStep /\ UNCHANGED spammerOnly
       \/ CallStep /\ UNCHANGED spammerOnly
       \/ loop = "off" /\ WorkerShutdown /\ UNCHANGED spammerOnly

SpammerSpec == SpammerInit /\ [][SpammerNext]_spammerVars

(* ----------------------------- properties ----------------------------- *)

(* A click reaches the game only with the skill key of its cycle down and with
   Shift exactly when that trigger wants it, whatever failed before and whatever
   session left inputs behind (spam_cycle, reconcile_spam_modifier). *)
ClickIsIntended ==
    [][Mouse \notin device /\ Mouse \in device' =>
         /\ cmd.key \in device'
         /\ (Shift \in device') = (cmd.key \in ShiftKeys)]_spammerVars

(* Once release_spam has succeeded, neither Shift nor the button nor a skill key
   of the spammer is down until the loop dispatches another cycle: no older cycle
   that waits on the pool, in a queue or in one of its sleeps comes through. *)
ReleasedIsQuiet ==
    quiet => spam.key = NoKey /\ device \intersect {Shift, Mouse} = {}

(* invariant=active_without_timer_or_task and invariant=multiple_inflight_tasks
   of the loop's diagnostics: with an active key there is a timer or a cycle in
   flight, and never both. *)
ActiveHasWork ==
    loop = "select" /\ active # NoKey => armed = (task[session].st = "none")

(* When everything has been processed and the user holds no trigger, or the loop
   has ended, no input of the spammer is down and no key is active: neither a lost
   release line nor a failed, late or dropped release leaves one held. *)
AtRest ==
    /\ high = <<>> /\ normal = <<>> /\ wpc = "idle"
    /\ \A w \in Writers : ~InCall(w)
    /\ \A s \in Sessions : task[s].st = "none" /\ equips[s] = <<>>
    /\ \/ loop = "off"
       \/ loop = "select" /\ ~stop /\ inputd = "up" /\ lines = <<>> /\ phys = {}
RestIsReleased ==
    AtRest => /\ spam.key = NoKey /\ device \intersect {Shift, Mouse} = {}
              /\ active = NoKey

(* A release is final: after one, and at rest, nothing the spammer pressed stays down
   (release_spam, SpamReleaseGuard). *)
ReleaseIsFinal == ReleasedIsQuiet /\ RestIsReleased
=============================================================================
