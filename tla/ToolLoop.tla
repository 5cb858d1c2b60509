------------------------------ MODULE ToolLoop ------------------------------
(***************************************************************************)
(* The loops of autopot and autobuff (tools/*/loop_runner.rs), their       *)
(* engines (ro-tools-core), and the SessionController that starts and      *)
(* stops them (tools/session.rs), against a client that is replaced by     *)
(* handoffs and ends.                                                      *)
(*                                                                         *)
(* Commands hold tool_lifecycle; the exit task of the client publishes a   *)
(* handoff without it.  A branch of the select runs to its end, so a       *)
(* session can be aborted only while the loop waits in the select.         *)
(***************************************************************************)
EXTENDS Naturals, Sequences, FiniteSets

CONSTANTS
    Tools,       \* "autopot", "autobuff"
    MaxGames,    \* bound on the processes the client goes through
    Rules,       \* autobuff: the enabled rules by priority
    MaxTicks     \* bound on the ticks that press a key

Games == 1..MaxGames
NoGame == 0

VARIABLES
    combatTool,  \* the tool this is the loop of; fixed
    loopAt,      \* where the loop stands: "off", "select", "locked" or "done"
    command,     \* what holds tool_lifecycle: "none", "start" or "stop"
    at,          \* where that command stands
    mine,        \* the identity the start command read
    taskSlot,    \* SessionController.task holds a session
    stopSent,    \* stop_tx
    sender,      \* identity_tx: "none", of a session that is over ("old"), or "live"
    rx, unread,  \* the identity channel of the loop
    engine,      \* the process whose session the engine reads
    usable,      \* memory_access and profile_memory of the loop
    potCount,    \* hp_pot_count
    cooling,     \* last_used of the rules that cool down
    pressed,     \* the keys of the last tick
    ticks,
    game, alive, \* identity of the client and the processes that live
    registered,  \* MemorySessionRegistry
    handoff      \* the exit task: "watch", "replaced", "finishing" or "over"

toolLoopVars == <<loopAt, command, at, mine, taskSlot, stopSent, sender, rx, unread, engine,
                  usable, potCount, cooling, pressed, ticks, game, alive, registered, handoff>>
commandVars == <<command, at, mine, taskSlot, stopSent, sender>>
engineVars == <<engine, usable, potCount, cooling, pressed, ticks>>
clientVars == <<game, alive, registered, handoff>>

ToolLoopInit ==
    /\ combatTool \in Tools
    /\ loopAt = "off" /\ command = "none" /\ at = "idle" /\ mine = NoGame
    /\ taskSlot = FALSE /\ stopSent = FALSE /\ sender = "none"
    /\ rx = NoGame /\ unread = FALSE
    /\ engine = NoGame /\ usable = FALSE /\ potCount = 0 /\ cooling = {} /\ pressed = <<>>
    /\ ticks = 0
    /\ game = 1 /\ alive = {1} /\ registered = {1} /\ handoff = "watch"

(* ------------------------------ engines ------------------------------- *)

(* AutopotEngine::tick for what it read: the keys it presses, in order.  A press
   that fails ends the tick; fails is the number of the press that does. *)
SpThen(count, spLow) == IF count = 3 /\ spLow THEN <<"sp">> ELSE <<>>
AutopotKeys(count, hpLow, spLow, proactive) ==
    LET first == IF hpLow THEN <<"hp">> \o SpThen(count + 1, spLow) ELSE <<>>
        second == IF spLow /\ "sp" \notin {first[i] : i \in DOMAIN first} THEN <<"sp">> ELSE <<>>
        third == IF proactive /\ first = <<>> /\ second = <<>> THEN <<"hp">> ELSE <<>>
    IN first \o second \o third
AutopotCount(count, hpLow, sent) ==
    IF hpLow /\ sent > 0 THEN (count + 1) % 3 ELSE count

(* AutobuffEngine::tick: the first rule by priority that is neither present nor
   cooling down nor blocked by Quagmire *)
AutobuffRule(statuses, quagmire, blocked) ==
    LET open(i) == /\ Rules[i] \notin statuses /\ Rules[i] \notin cooling
                   /\ ~(quagmire /\ Rules[i] \in blocked)
        hits == {i \in DOMAIN Rules : open(i)}
    IN IF hits = {} THEN <<>> ELSE <<Rules[CHOOSE i \in hits : \A j \in hits : i <= j]>>

(* a tick: skipped without usable memory; an error when the process is gone *)
TickSkipped ==
    /\ loopAt = "select" /\ (~usable \/ engine \notin alive)
    /\ pressed' = <<>> /\ pressed # <<>>
    /\ UNCHANGED <<loopAt, commandVars, rx, unread, engine, usable, potCount, cooling, ticks,
                   clientVars>>
AutopotTick ==
    /\ combatTool = "autopot" /\ loopAt = "select" /\ usable /\ engine \in alive
    /\ ticks < MaxTicks /\ ticks' = ticks + 1
    /\ \E hpLow, spLow, proactive \in BOOLEAN :
         LET keys == AutopotKeys(potCount, hpLow, spLow, proactive) IN
         \E sent \in 0..Len(keys) :
            /\ pressed' = SubSeq(keys, 1, sent)
            /\ potCount' = AutopotCount(potCount, hpLow, sent)
    /\ UNCHANGED <<loopAt, commandVars, rx, unread, engine, usable, cooling, clientVars>>
AutobuffTick ==
    /\ combatTool = "autobuff" /\ loopAt = "select" /\ usable /\ engine \in alive
    /\ ticks < MaxTicks /\ ticks' = ticks + 1
    /\ \E statuses, blocked \in SUBSET {Rules[i] : i \in DOMAIN Rules}, quagmire, login, sends \in BOOLEAN :
         LET keys == IF login THEN AutobuffRule(statuses, quagmire, blocked) ELSE <<>> IN
         /\ pressed' = IF sends THEN keys ELSE <<>>
         /\ cooling' = IF sends THEN cooling \union {keys[i] : i \in DOMAIN keys} ELSE cooling
    /\ UNCHANGED <<loopAt, commandVars, rx, unread, engine, usable, potCount, clientVars>>
CooldownOver ==
    /\ \E r \in cooling : cooling' = cooling \ {r}
    /\ UNCHANGED <<loopAt, commandVars, rx, unread, engine, usable, potCount, pressed, ticks,
                   clientVars>>
UpdateConfig ==
    /\ loopAt = "select" /\ potCount # 0 /\ potCount' = 0
    /\ UNCHANGED <<loopAt, commandVars, rx, unread, engine, usable, cooling, pressed, ticks,
                   clientVars>>

(* ------------------------------- loop --------------------------------- *)

(* identity_rx.changed() with a session in the registry: replace_memory *)
SeesReplacement ==
    /\ loopAt = "select" /\ unread /\ rx \in registered
    /\ unread' = FALSE
    /\ \E access, valid \in BOOLEAN :
          /\ usable' = (access /\ valid)
          /\ engine' = IF access THEN rx ELSE engine
          /\ cooling' = IF access THEN {} ELSE cooling
    /\ UNCHANGED <<loopAt, commandVars, rx, potCount, pressed, ticks, clientVars>>
(* and without one.  Autopot builds the status from status_arc.lock() inside the
   call that locks status_arc again: the guard lives to the end of the statement
   and the thread waits for itself. *)
MissingSession == IF combatTool = "autopot" THEN "locked" ELSE "select"
SeesNoSession ==
    /\ loopAt = "select" /\ unread /\ rx \notin registered
    /\ unread' = FALSE /\ usable' = FALSE /\ loopAt' = MissingSession
    /\ UNCHANGED <<commandVars, rx, engine, potCount, cooling, pressed, ticks, clientVars>>
LoopSeesStop ==
    /\ loopAt = "select" /\ stopSent /\ loopAt' = "done"
    /\ UNCHANGED <<commandVars, rx, unread, engineVars, clientVars>>

(* ------------------------------ commands ------------------------------ *)

(* Mutant: it waits for a task whether there is one or not. *)
TakeTaskUnchecked ==
    /\ taskSlot' = FALSE /\ stopSent' = (stopSent \/ taskSlot) /\ at' = "stopping"
(* stop_locked takes the task of the slot and tells it to stop *)
TakeTask ==
    /\ taskSlot' = FALSE /\ stopSent' = (stopSent \/ taskSlot)
    /\ at' = IF taskSlot THEN "stopping" ELSE "stopped"
(* start_autopot and start_autobuff: the identity is read before the old session
   is stopped; a missing or unusable session refuses the command at once *)
StartCommand ==
    /\ command = "none" /\ handoff # "over" /\ game \in registered
    /\ command' = "start" /\ mine' = game /\ TakeTask
    /\ UNCHANGED <<loopAt, sender, rx, unread, engineVars, clientVars>>
StopCommand ==
    /\ command = "none" /\ taskSlot
    /\ command' = "stop" /\ TakeTask
    /\ UNCHANGED <<loopAt, mine, sender, rx, unread, engineVars, clientVars>>
(* the end of the exit task: finish drops the memory session of the client, then
   the tools are stopped *)
FinishCommand ==
    /\ command = "none" /\ handoff = "finishing"
    /\ command' = "finish" /\ registered' = registered \ {game} /\ handoff' = "over" /\ TakeTask
    /\ UNCHANGED <<loopAt, mine, sender, rx, unread, engineVars, game, alive>>
StopJoined ==
    /\ at = "stopping" /\ loopAt = "done"
    /\ at' = "stopped" /\ loopAt' = "off"
    /\ UNCHANGED <<command, mine, taskSlot, stopSent, sender, rx, unread, engineVars, clientVars>>
(* the timeout aborts the task and waits for it: an abort takes effect at an await *)
StopTimesOut ==
    /\ at = "stopping" /\ loopAt # "done" /\ at' = "aborting"
    /\ UNCHANGED <<loopAt, command, mine, taskSlot, stopSent, sender, rx, unread, engineVars, clientVars>>
AbortJoined ==
    /\ at = "aborting" /\ loopAt \in {"select", "done"}
    /\ at' = "failed" /\ loopAt' = "off"
    /\ UNCHANGED <<command, mine, taskSlot, stopSent, sender, rx, unread, engineVars, clientVars>>
Outdated == IF sender = "none" THEN "none" ELSE "old"
SpawnLoop ==
    /\ command = "start" /\ at = "stopped"
    /\ loopAt' = "select" /\ taskSlot' = TRUE /\ stopSent' = FALSE /\ at' = "spawned"
    /\ rx' = mine /\ unread' = FALSE /\ engine' = mine /\ usable' \in BOOLEAN
    /\ potCount' = 0 /\ cooling' = {} /\ pressed' = <<>> /\ sender' = Outdated
    /\ UNCHANGED <<command, mine, ticks, clientVars>>
StartReturns ==
    /\ command = "start" /\ at \in {"spawned", "failed"}
    /\ sender' = IF at = "spawned" THEN "live" ELSE Outdated
    /\ command' = "none" /\ at' = "idle" /\ mine' = NoGame
    /\ UNCHANGED <<loopAt, taskSlot, stopSent, rx, unread, engineVars, clientVars>>
StopReturned ==
    /\ command \in {"stop", "finish"} /\ at \in {"stopped", "failed"}
    /\ sender' = "none" /\ command' = "none" /\ at' = "idle"
    /\ UNCHANGED <<loopAt, mine, taskSlot, stopSent, rx, unread, engineVars, clientVars>>

(* ------------------------------- client ------------------------------- *)

GameDies ==
    /\ game \in alive /\ alive' = alive \ {game}
    /\ UNCHANGED <<loopAt, commandVars, rx, unread, engineVars, game, registered, handoff>>
(* memory.register and game.replace_running, which drops the old session *)
Handoff ==
    /\ handoff = "watch" /\ game \notin alive /\ game < MaxGames
    /\ game' = game + 1 /\ alive' = alive \union {game + 1}
    /\ registered' = (registered \ {game}) \union {game + 1} /\ handoff' = "replaced"
    /\ UNCHANGED <<loopAt, commandVars, rx, unread, engineVars>>
(* autopot.handoff and autobuff.handoff, without tool_lifecycle *)
PublishHandoff ==
    /\ handoff = "replaced" /\ handoff' = "watch"
    /\ IF sender = "live" /\ loopAt \in {"select", "locked"}
          THEN rx' = game /\ unread' = TRUE
          ELSE UNCHANGED <<rx, unread>>
    /\ UNCHANGED <<loopAt, commandVars, engineVars, game, alive, registered>>
ClientEnds ==
    /\ handoff = "watch" /\ game \notin alive /\ handoff' = "finishing"
    /\ UNCHANGED <<loopAt, commandVars, rx, unread, engineVars, game, alive, registered>>

(* ---------------------------- specification --------------------------- *)

LoopReacts == SeesReplacement \/ SeesNoSession \/ LoopSeesStop
CommandStep ==
    \/ StopJoined \/ StopTimesOut \/ AbortJoined \/ SpawnLoop \/ StartReturns \/ StopReturned
ToolLoopStep ==
    \/ TickSkipped \/ AutopotTick \/ AutobuffTick \/ CooldownOver \/ UpdateConfig
    \/ LoopReacts
    \/ StartCommand \/ StopCommand \/ FinishCommand \/ CommandStep
    \/ GameDies \/ Handoff \/ PublishHandoff \/ ClientEnds
ToolLoopNext == ToolLoopStep /\ UNCHANGED combatTool

(* The loop is polled, and a timer of three seconds fires. *)
ToolLoopSpec ==
    /\ ToolLoopInit /\ [][ToolLoopNext]_<<toolLoopVars, combatTool>>
    /\ WF_toolLoopVars(LoopReacts) /\ WF_toolLoopVars(CommandStep)

(* Starting or stopping a tool returns, with an error after the timeout at the
   latest: whatever the loop does, tool_lifecycle is free again ("aborts a session
   after timeout", tools/session.rs:133). *)
StopReturns == command # "none" ~> command = "none"

(* The same for a loop that has not locked itself up in the status of autopot. *)
LifecycleFrees == command # "none" ~> command = "none" \/ loopAt = "locked"
=============================================================================
