-------------------------- MODULE GameClientsProofs --------------------------
(* Clients, identities and combat tools, for any number of clients and      *)
(* processes.                                                               *)
EXTENDS GameClients, TLAPS

(* The labels of a task tell what the registry holds for it, and which of   *)
(* them hold tool_lifecycle.                                                *)
LaunchLabels == {"admit", "baseline", "prepare", "spawn", "mark", "search", "register",
                 "promote", "abort"}
RunLabels == {"watch", "handoff", "reregister", "replace", "publish", "terminate", "finish"}
Holding == {"admit", "cleanup"}

EntryTypes ==
    /\ client \in [Clients -> {"absent", "Launching", "Running"}]
    /\ pc \in [Clients -> LaunchLabels \cup RunLabels \cup {"idle", "cleanup", "end"}]
    /\ DOMAIN stop = Clients /\ DOMAIN ident = Clients

LabelsMatch ==
    \A c \in Clients : /\ client[c] = "Launching" <=> pc[c] \in LaunchLabels
                       /\ client[c] = "Running" <=> pc[c] \in RunLabels

(* tool_lifecycle has one holder. *)
OneHolder ==
    \A c \in Clients : pc[c] \in Holding =>
        cmd = "idle" /\ \A d \in Clients : pc[d] \in Holding => d = c

(* A tool that runs or is being started has its one client, unless whoever  *)
(* holds tool_lifecycle is about to stop it.                                *)
ToolInv ==
    /\ cmd = "signal" => tool = "off"
    /\ tool = "off" \/ tool = "on"
    /\ \/ \E c \in Clients : pc[c] \in Holding \/ SoleRunning(c)
       \/ cmd \in {"stop", "stopAll"}
       \/ tool = "off" /\ cmd # "start"

ClientInv ==
    EntryTypes /\ LabelsMatch /\ OneHolder /\ ToolInv /\ IdentityUnique
    /\ RelaunchExcludesClients

(* A step that neither touches an entry nor takes or gives back the lock. *)
LEMMA QuietStep ==
    ASSUME ClientInv, UNCHANGED <<client, stop, ident, closed, tool, cmd>>,
           NEW c \in Clients, NEW label,
           pc' = [pc EXCEPT ![c] = label],
           \/ pc[c] \in LaunchLabels \ Holding /\ label \in LaunchLabels \ Holding
           \/ pc[c] \in RunLabels /\ label \in RunLabels
    PROVE  ClientInv'
  <1> USE DEF ClientInv
  <1>1. EntryTypes'
    BY DEF EntryTypes, LaunchLabels, RunLabels, Holding
  <1>2. /\ \A d \in Clients : pc'[d] \in LaunchLabels <=> pc[d] \in LaunchLabels
        /\ \A d \in Clients : pc'[d] \in RunLabels <=> pc[d] \in RunLabels
        /\ \A d \in Clients : pc'[d] \in Holding <=> pc[d] \in Holding
    BY DEF EntryTypes, LaunchLabels, RunLabels, Holding
  <1>3. LabelsMatch'
    BY <1>2 DEF LabelsMatch
  <1>4. OneHolder'
    BY <1>2 DEF OneHolder
  <1>5. Present' = Present
    BY DEF Present
  <1>6. ToolInv'
    BY <1>2, <1>5, Zenon DEF ToolInv, SoleRunning
  <1> QED
    BY <1>1, <1>3, <1>4, <1>5, <1>6 DEF IdentityUnique, RelaunchExcludesClients

(* launch_game after its admission, except for its last step. *)
LEMMA LaunchQuiet ==
    ASSUME ClientInv, NEW c \in Clients,
           \/ Baseline(c) \/ Prepare(c) \/ SpawnFails(c) \/ SpawnController(c)
           \/ MarkController(c) \/ SearchFinds(c) \/ SearchGivesUp(c) \/ LaunchRegisters(c)
           \/ MarkRunningFails(c)
    PROVE  ClientInv'
  <1> USE DEF Goto, entryVars, taskVars, toolVars, cmdVars, osVars, LaunchLabels, Holding
  <1>1. UNCHANGED <<client, stop, ident, closed, tool, cmd>>
    BY DEF Baseline, Prepare, SpawnFails, SpawnController, MarkController, SearchFinds,
       SearchGivesUp, LaunchRegisters, RegisterMemory, RegisterFails, MarkRunningFails
  <1>2. PICK label \in LaunchLabels \ Holding :
           pc[c] \in LaunchLabels \ Holding /\ pc' = [pc EXCEPT ![c] = label]
    BY DEF Baseline, Prepare, SpawnFails, SpawnController, MarkController, SearchFinds,
       SearchGivesUp, LaunchRegisters, RegisterMemory, RegisterFails, MarkRunningFails
  <1> QED
    BY <1>1, <1>2, QuietStep

(* The exit task while it watches the game or follows it to a new process. *)
LEMMA ExitQuiet ==
    ASSUME ClientInv, NEW c \in Clients,
           \/ WatchEnds(c) \/ HandoffFinds(c) \/ HandoffGivesUp(c) \/ HandoffRegisters(c)
           \/ ReplaceRefused(c) \/ PublishHandoff(c) \/ Terminated(c)
    PROVE  ClientInv'
  <1> USE DEF Goto, entryVars, taskVars, toolVars, cmdVars, osVars, RunLabels
  <1>1. UNCHANGED <<client, stop, ident, closed, tool, cmd>>
    BY DEF WatchEnds, HandoffFinds, HandoffGivesUp, HandoffRegisters, RegisterMemory,
       RegisterFails, ReplaceRefused, PublishHandoff, Terminated
  <1>2. PICK label \in RunLabels : pc[c] \in RunLabels /\ pc' = [pc EXCEPT ![c] = label]
    BY DEF WatchEnds, HandoffFinds, HandoffGivesUp, HandoffRegisters, RegisterMemory,
       RegisterFails, ReplaceRefused, PublishHandoff, Terminated
  <1> QED
    BY <1>1, <1>2, QuietStep

(* No client is the sole running one while another is present. *)
LEMMA SoleIsAlone ==
    ASSUME NEW c \in Clients, NEW d \in Clients, SoleRunning(d), client[c] # "absent"
    PROVE  c = d /\ client[c] = "Running" /\ Others(c) = {}
  BY DEF SoleRunning, Present, Others

(* begin_launch: with a client present the tools are stopped before the     *)
(* lock is given back; without one there is no tool.                        *)
LEMMA BeginLaunchStep ==
    ASSUME ClientInv, NEW c \in Clients, BeginLaunch(c)
    PROVE  ClientInv'
  <1> USE DEF ClientInv, Goto, LaunchLabels, RunLabels, Holding
  <1>1. /\ client[c] = "absent" /\ client' = [client EXCEPT ![c] = "Launching"]
        /\ UNCHANGED <<stop, ident, closed, tool, cmd>> /\ cmd = "idle" /\ ~closed
        /\ \A d \in Clients : pc[d] \notin Holding
    BY DEF BeginLaunch, LabelsMatch, EntryTypes, toolVars, cmdVars, LifecycleFree, Admissible
  <1>2. /\ pc'[c] = IF Present = {} THEN "baseline" ELSE "admit"
        /\ \A d \in Clients \ {c} : pc'[d] = pc[d] /\ client'[d] = client[d]
        /\ client'[c] = "Launching"
    BY <1>1 DEF BeginLaunch, EntryTypes
  <1>3. EntryTypes'
    BY <1>1 DEF EntryTypes, BeginLaunch
  <1>4. LabelsMatch' /\ OneHolder'
    BY <1>1, <1>2 DEF LabelsMatch, OneHolder
  <1>5. ToolInv'
    <2>1. CASE Present = {}
      <3>1. tool = "off"
        BY <2>1, <1>1 DEF ToolInv, SoleRunning
      <3> QED
        BY <3>1, <1>1 DEF ToolInv
    <2>2. CASE Present # {}
      BY <2>2, <1>1, <1>2 DEF ToolInv
    <2> QED
      BY <2>1, <2>2
  <1>6. IdentityUnique' /\ RelaunchExcludesClients'
    BY <1>1, <1>2 DEF IdentityUnique, RelaunchExcludesClients
  <1> QED
    BY <1>3, <1>4, <1>5, <1>6

(* The steps that stop the tools and give tool_lifecycle back. *)
LEMMA HolderStopsTools ==
    ASSUME ClientInv, NEW c \in Clients, AdmitStopsTools(c) \/ CleanupStopsTools(c)
    PROVE  ClientInv'
  <1> USE DEF ClientInv, Goto, LaunchLabels, RunLabels, Holding
  <1>1. /\ UNCHANGED <<client, stop, ident, closed, cmd>> /\ tool' = "off"
        /\ pc[c] \in Holding /\ cmd = "idle"
    BY DEF AdmitStopsTools, CleanupStopsTools, ToolsOff, entryVars, cmdVars, OneHolder
  <1>2. PICK label :
           /\ pc' = [pc EXCEPT ![c] = label]
           /\ \/ pc[c] = "admit" /\ label \in {"baseline", "abort"}
              \/ pc[c] = "cleanup" /\ label = "end"
    BY DEF AdmitStopsTools, CleanupStopsTools
  <1>3. EntryTypes'
    BY <1>1, <1>2 DEF EntryTypes
  <1>4. LabelsMatch' /\ OneHolder'
    BY <1>1, <1>2 DEF LabelsMatch, OneHolder, EntryTypes
  <1>5. ToolInv'
    BY <1>1 DEF ToolInv
  <1> QED
    BY <1>1, <1>3, <1>4, <1>5 DEF IdentityUnique, RelaunchExcludesClients, Present

(* mark_running: the identity is nobody else's, and no tool is running      *)
(* since the client was Launching.                                          *)
LEMMA MarkRunningStep ==
    ASSUME ClientInv, NEW c \in Clients, MarkRunning(c)
    PROVE  ClientInv'
  <1> USE DEF ClientInv, Goto, LaunchLabels, RunLabels, Holding
  <1>1. /\ client[c] = "Launching" /\ client' = [client EXCEPT ![c] = "Running"]
        /\ ident' = [ident EXCEPT ![c] = cand[c]]
        /\ pc' = [pc EXCEPT ![c] = "watch"] /\ pc[c] = "promote"
        /\ UNCHANGED <<stop, closed, tool, cmd>>
        /\ \A d \in Others(c) : ident[d] # cand[c]
    BY DEF MarkRunning, Promotable, LabelsMatch, toolVars, cmdVars
  <1>2. EntryTypes' /\ LabelsMatch' /\ OneHolder'
    BY <1>1 DEF EntryTypes, LabelsMatch, OneHolder
  <1>3. Present' = Present
    BY <1>1 DEF Present, EntryTypes
  <1>4. ToolInv'
    <2>1. \A d \in Clients : ~SoleRunning(d)
      BY <1>1, SoleIsAlone
    <2>2. \A d \in Clients : pc[d] \in Holding => pc'[d] \in Holding
      BY <1>1 DEF EntryTypes
    <2> QED
      BY <1>1, <2>1, <2>2 DEF ToolInv
  <1>5. IdentityUnique'
    BY <1>1 DEF IdentityUnique, Others, Present, EntryTypes
  <1> QED
    BY <1>1, <1>2, <1>3, <1>4, <1>5 DEF RelaunchExcludesClients

(* A failed launch leaves the registry. *)
LEMMA AbortEndsStep ==
    ASSUME ClientInv, NEW c \in Clients, AbortEnds(c)
    PROVE  ClientInv'
  <1> USE DEF ClientInv, Goto, LaunchLabels, RunLabels, Holding
  <1>1. /\ client[c] = "Launching" /\ client' = [client EXCEPT ![c] = "absent"]
        /\ stop' = [stop EXCEPT ![c] = FALSE]
        /\ pc' = [pc EXCEPT ![c] = "end"] /\ pc[c] = "abort"
        /\ UNCHANGED <<ident, closed, tool, cmd>>
    BY DEF AbortEnds, LabelsMatch, toolVars, cmdVars
  <1>2. EntryTypes' /\ LabelsMatch' /\ OneHolder'
    BY <1>1 DEF EntryTypes, LabelsMatch, OneHolder
  <1>3. ToolInv'
    <2>1. \A d \in Clients : ~SoleRunning(d)
      BY <1>1, SoleIsAlone
    <2>2. \A d \in Clients : pc[d] \in Holding => pc'[d] \in Holding
      BY <1>1 DEF EntryTypes
    <2> QED
      BY <1>1, <2>1, <2>2 DEF ToolInv
  <1> QED
    BY <1>1, <1>2, <1>3 DEF IdentityUnique, RelaunchExcludesClients, Present, EntryTypes

(* replace_running: the replacement is nobody else's. *)
LEMMA ReplaceRunningStep ==
    ASSUME ClientInv, NEW c \in Clients, ReplaceRunning(c)
    PROVE  ClientInv'
  <1> USE DEF ClientInv, Goto, LaunchLabels, RunLabels, Holding
  <1>1. /\ ident' = [ident EXCEPT ![c] = cand[c]]
        /\ pc' = [pc EXCEPT ![c] = "publish"] /\ pc[c] = "replace"
        /\ UNCHANGED <<client, stop, closed, tool, cmd>>
        /\ \A d \in Others(c) : ident[d] # cand[c]
    BY DEF ReplaceRunning, Replaceable, Foreign, toolVars, cmdVars
  <1>2. EntryTypes' /\ LabelsMatch' /\ OneHolder'
    BY <1>1 DEF EntryTypes, LabelsMatch, OneHolder
  <1>3. Present' = Present
    BY <1>1 DEF Present
  <1>4. ToolInv'
    <2>1. \A d \in Clients : pc[d] \in Holding => pc'[d] \in Holding
      BY <1>1 DEF EntryTypes
    <2> QED
      BY <1>1, <1>3, <2>1, Zenon DEF ToolInv, SoleRunning
  <1>5. IdentityUnique'
    BY <1>1 DEF IdentityUnique, Others, Present, EntryTypes
  <1> QED
    BY <1>1, <1>2, <1>3, <1>4, <1>5 DEF RelaunchExcludesClients

(* finish: the last client keeps tool_lifecycle until the tools are down. *)
LEMMA FinishStep ==
    ASSUME ClientInv, NEW c \in Clients, Finish(c)
    PROVE  ClientInv'
  <1> USE DEF ClientInv, Goto, LaunchLabels, RunLabels, Holding
  <1>1. /\ client[c] = "Running" /\ client' = [client EXCEPT ![c] = "absent"]
        /\ stop' = [stop EXCEPT ![c] = FALSE] /\ ident' = [ident EXCEPT ![c] = NoProc]
        /\ pc' = [pc EXCEPT ![c] = IF Others(c) = {} THEN "cleanup" ELSE "end"]
        /\ UNCHANGED <<closed, tool, cmd>>
        /\ cmd = "idle" /\ \A d \in Clients : pc[d] \notin Holding
    BY DEF Finish, LastClient, LabelsMatch, toolVars, cmdVars, LifecycleFree
  <1>2. EntryTypes' /\ LabelsMatch' /\ OneHolder'
    BY <1>1 DEF EntryTypes, LabelsMatch, OneHolder
  <1>3. ToolInv'
    <2>1. CASE Others(c) = {}
      BY <2>1, <1>1 DEF ToolInv, EntryTypes
    <2>2. CASE Others(c) # {}
      <3>1. \A d \in Clients : ~SoleRunning(d)
        BY <2>2, <1>1, SoleIsAlone
      <3> QED
        BY <3>1, <1>1 DEF ToolInv
    <2> QED
      BY <2>1, <2>2
  <1> QED
    BY <1>1, <1>2, <1>3 DEF IdentityUnique, RelaunchExcludesClients, Present, EntryTypes

(* The commands, from the moment they take tool_lifecycle to the moment     *)
(* they give it back; entries change only in their stop flag.               *)
LEMMA CommandSteps ==
    ASSUME ClientInv,
           \/ \E c \in Clients : StopGame(c) \/ StartTool(c)
           \/ StopGameStopsTools \/ StopAllGames \/ StopAllRequests \/ SignalTargets
           \/ ToolStarts \/ ToolStartFails \/ StopTool
    PROVE  ClientInv'
  <1> USE DEF ClientInv, entryVars, toolVars, cmdVars
  <1>1. /\ UNCHANGED <<client, ident, pc, closed>> /\ DOMAIN stop' = Clients
        /\ cmd # "idle" \/ LifecycleFree
    BY DEF StopGame, StartTool, StopGameStopsTools, StopAllGames, StopAllRequests, SignalTargets,
       ToolStarts, ToolStartFails, StopTool, EntryTypes
  <1>2. Present' = Present
    BY <1>1 DEF Present
  <1>3. EntryTypes' /\ LabelsMatch' /\ IdentityUnique' /\ RelaunchExcludesClients'
    BY <1>1, <1>2 DEF EntryTypes, LabelsMatch, IdentityUnique, RelaunchExcludesClients
  <1>4. \A d \in Clients : pc[d] \notin Holding
    BY <1>1 DEF OneHolder, LifecycleFree, Holding
  <1>5. OneHolder'
    BY <1>1, <1>4 DEF OneHolder
  <1>6. ToolInv'
    <2>1. CASE \E c \in Clients : StopGame(c)
      <3> PICK c \in Clients : StopGame(c)
        BY <2>1
      <3>1. cmd = "idle" /\ c \in Present /\ tool' = tool
        BY DEF StopGame, LifecycleFree
      <3>2. CASE Present = {c}
        <4>1. cmd' = "stop"
          BY <3>2 DEF StopGame
        <4> QED
          BY <3>1, <4>1 DEF ToolInv
      <3>3. CASE Present # {c}
        <4>1. cmd' = "signal"
          BY <3>3 DEF StopGame
        <4>2. \A d \in Clients : ~SoleRunning(d)
          BY <3>1, <3>3 DEF SoleRunning
        <4> QED
          BY <1>4, <3>1, <4>1, <4>2 DEF ToolInv
      <3> QED
        BY <3>2, <3>3
    <2>2. CASE StopGameStopsTools \/ StopAllRequests \/ StopTool
      BY <2>2 DEF ToolInv, StopGameStopsTools, StopAllRequests, StopTool, ToolsOff, LifecycleFree
    <2>3. CASE StopAllGames \/ SignalTargets
      BY <2>3 DEF ToolInv, StopAllGames, SignalTargets
    <2>4. CASE \E c \in Clients : StartTool(c)
      <3> PICK c \in Clients : StartTool(c)
        BY <2>4
      <3>1. SoleRunning(c) /\ UNCHANGED <<client, stop, tool>> /\ cmd' = "start"
        BY DEF StartTool
      <3>2. SoleRunning(c)'
        BY <3>1, <1>2, Zenon DEF SoleRunning
      <3> QED
        BY <3>1, <3>2 DEF ToolInv
    <2>5. CASE ToolStarts \/ ToolStartFails
      <3>1. /\ cmd = "start" /\ cmd' = "idle" /\ UNCHANGED <<client, stop>>
            /\ tool' \in {tool, "on", "off"}
        BY <2>5 DEF ToolStarts, ToolStartFails, ToolsOff
      <3>2. PICK c \in Clients : SoleRunning(c)
        BY <1>4, <3>1 DEF ToolInv
      <3>3. SoleRunning(c)'
        BY <3>1, <3>2, <1>2, Zenon DEF SoleRunning
      <3> QED
        BY <3>1, <3>3 DEF ToolInv
    <2> QED
      BY <2>1, <2>2, <2>3, <2>4, <2>5
  <1> QED
    BY <1>3, <1>5, <1>6

(* Signals to a controller, processes that appear or die, and the admission *)
(* of the updater.                                                          *)
LEMMA OtherSteps ==
    ASSUME ClientInv,
           \/ \E c \in Clients : TerminateController(c)
           \/ CloseAdmission \/ ReopenAdmission \/ GameAppears
           \/ \E p \in Procs : ProcessDies(p)
           \/ UNCHANGED vars
    PROVE  ClientInv'
  <1> USE DEF ClientInv, entryVars, toolVars, cmdVars
  <1>1. /\ UNCHANGED <<client, stop, ident, pc, tool, cmd>>
        /\ closed' => closed \/ Present = {}
    BY DEF TerminateController, CloseAdmission, ReopenAdmission, GameAppears, ProcessDies, vars
  <1>2. Present' = Present
    BY <1>1 DEF Present
  <1>3. ToolInv'
    BY <1>1, <1>2, Zenon DEF ToolInv, SoleRunning
  <1> QED
    BY <1>1, <1>2, <1>3
       DEF EntryTypes, LabelsMatch, OneHolder, IdentityUnique, RelaunchExcludesClients

(* ClientInv is an invariant: in every reachable state the labels of the    *)
(* tasks, the entries of the registry, the holder of tool_lifecycle and the *)
(* tools agree.                                                             *)
THEOREM ClientInvariant == Spec => []ClientInv
  <1>1. Init => ClientInv
    <2> SUFFICES ASSUME Init PROVE ClientInv
      OBVIOUS
    <2>1. Present = {}
      BY DEF Init, Present
    <2> QED
      BY <2>1 DEF Init, ClientInv, EntryTypes, LabelsMatch, OneHolder, ToolInv, IdentityUnique,
         RelaunchExcludesClients, LaunchLabels, RunLabels, Holding
  <1>2. ClientInv /\ [Next]_vars => ClientInv'
    BY LaunchQuiet, ExitQuiet, BeginLaunchStep, HolderStopsTools, MarkRunningStep,
       AbortEndsStep, ReplaceRunningStep, FinishStep, CommandSteps, OtherSteps
       DEF Next, LaunchStep, ExitStep, CommandStep
  <1> QED
    BY <1>1, <1>2, PTL DEF Spec

(* No two clients ever hold the same process, however their searches for a  *)
(* game or for its replacement overlap.                                     *)
THEOREM IdentitiesAreUnique == Spec => []IdentityUnique
  BY ClientInvariant, PTL DEF ClientInv

(* While the updater holds the relaunch admission no client is registered. *)
THEOREM RelaunchIsExclusive == Spec => []RelaunchExcludesClients
  BY ClientInvariant, PTL DEF ClientInv

(* A combat tool that runs while tool_lifecycle is free has exactly one     *)
(* client, Running and not being stopped.                                   *)
THEOREM ToolsAreOwned == Spec => []ToolsHaveOneClient
  <1>1. ClientInv => ToolsHaveOneClient
    BY DEF ClientInv, ToolInv, ToolsHaveOneClient, LifecycleFree, Holding
  <1> QED
    BY <1>1, ClientInvariant, PTL

-----------------------------------------------------------------------------
(* ------------------------ whose process is signalled -------------------- *)

(* Who a process belongs to is decided before it is signalled: by a search, *)
(* a handoff or a stop that have been over for a while.                     *)

(* Processes are numbered as they appear. *)
SpareTypes ==
    /\ born \in Nat /\ alive \subseteq 1..born /\ game \subseteq alive /\ targets \subseteq 1..born
    /\ stop \in [Clients -> BOOLEAN] /\ ident \in [Clients -> 0..born]
    /\ child \in [Clients -> 0..born] /\ cand \in [Clients -> 0..born]
    /\ controller \in [Clients -> 0..born] /\ seen \in [Clients -> SUBSET (1..born)]
    /\ \A c \in Clients : controller[c] \in {NoProc, child[c]}

(* begin_launch admits one launch at a time. *)
OneLaunches ==
    \A c, d \in Clients : client[c] = "Launching" /\ client[d] = "Launching" => c = d

(* A controller is nobody else's controller, candidate or game. *)
ControllersApart ==
    \A c, d \in Clients : c # d /\ child[c] # NoProc => child[c] \notin {child[d], cand[d], ident[d]}

(* The baseline covers the controllers and games of the others until the    *)
(* search is over, and what it finds is none of theirs; a controller that   *)
(* is the game itself is found first; whoever follows its game to another   *)
(* process, or gives it up, has seen it end.                                *)
PlaceInv(c) ==
    /\ client[c] # "Running" => ident[c] = NoProc
    /\ pc[c] \in {"idle", "admit", "baseline", "prepare", "spawn", "cleanup", "end"} =>
          child[c] = NoProc /\ cand[c] = NoProc
    /\ pc[c] \in {"mark", "search"} => cand[c] = NoProc /\ child[c] \notin seen[c]
    /\ pc[c] \in {"prepare", "spawn", "mark", "search"} =>
          \A d \in Clients : d # c => {child[d], ident[d]} \cap game \subseteq seen[c]
    /\ pc[c] \in {"register", "promote", "reregister", "replace", "publish"} => cand[c] # NoProc
    /\ pc[c] \in {"register", "promote"} /\ child[c] \in game => cand[c] = child[c]
    /\ client[c] = "Launching" /\ cand[c] # NoProc => \A d \in Clients : d # c => ident[d] # cand[c]
    /\ client[c] = "Running" /\ child[c] \in game => ident[c] = child[c]
    /\ pc[c] \in {"handoff", "reregister", "replace", "terminate", "finish"} => ident[c] \notin alive

(* A command only holds processes of clients it has asked to stop, or that  *)
(* are gone or signalled by now.                                            *)
TargetInv ==
    /\ cmd \in {"idle", "start", "stopAll"} => targets = {}
    /\ \A p \in targets \cap (alive \ signalled) :
          \E c \in Clients : stop[c] /\ p \in {ident[c], child[c]}

SpareInv ==
    /\ SpareTypes /\ OneLaunches /\ ControllersApart /\ TargetInv
    /\ \A c \in Clients : PlaceInv(c)

(* A step of the task of one client: the others stay, no process appears or *)
(* dies.                                                                    *)
TaskMoves(c) ==
    /\ UNCHANGED <<born, alive, game, cmd, targets>> /\ signalled \subseteq signalled'
    /\ \A d \in Clients \ {c} :
          /\ client'[d] = client[d] /\ stop'[d] = stop[d] /\ ident'[d] = ident[d]
          /\ pc'[d] = pc[d] /\ child'[d] = child[d] /\ cand'[d] = cand[d] /\ seen'[d] = seen[d]
(* What the client has next is what it had, or nothing, or what it found    *)
(* while nobody else could have it.                                         *)
OwnOnly(c) ==
    /\ child'[c] \in {child[c], NoProc}
    /\ cand'[c] \in {cand[c], NoProc} \/ \A d \in Clients \ {c} : child[d] \notin {cand'[c]} \ {NoProc}
    /\ \/ ident'[c] \in {ident[c], NoProc}
       \/ ident'[c] = cand[c] /\ \A d \in Clients \ {c} : client[d] # "Launching"
    /\ \A p \in targets \cap (alive \ signalled') :
          stop[c] /\ p \in {ident[c], child[c]} => stop'[c] /\ p \in {ident'[c], child'[c]}

LEMMA TaskSpares ==
    ASSUME ClientInv, SpareInv, NEW c \in Clients, TaskMoves(c), OwnOnly(c),
           SpareTypes', OneLaunches', PlaceInv(c)'
    PROVE  SpareInv'
  <1> USE DEF SpareInv, NoProc
  <1>0. 0 \notin game /\ 0 \notin targets
    BY DEF SpareTypes
  <1>1. ControllersApart'
    <2> SUFFICES ASSUME NEW a \in Clients, NEW b \in Clients, a # b, child'[a] # NoProc
                 PROVE  child'[a] \notin {child'[b], cand'[b], ident'[b]}
      BY DEF ControllersApart
    <2>1. child'[a] = child[a] /\ child[a] \notin {child[b], cand[b], ident[b]}
      BY DEF TaskMoves, OwnOnly, ControllersApart
    <2>2. CASE b # c
      BY <2>1, <2>2 DEF TaskMoves
    <2>3. CASE b = c
      BY <2>1, <2>3 DEF OwnOnly
    <2> QED BY <2>2, <2>3
  <1>2. TargetInv'
    <2>1. UNCHANGED <<cmd, targets, alive>>
      BY DEF TaskMoves
    <2>2. ASSUME NEW p \in targets \cap (alive \ signalled')
          PROVE  \E d \in Clients : stop'[d] /\ p \in {ident'[d], child'[d]}
      <3>1. p \in alive \ signalled
        BY DEF TaskMoves
      <3>2. PICK d \in Clients : stop[d] /\ p \in {ident[d], child[d]}
        BY <3>1 DEF TargetInv
      <3>3. stop'[d] /\ p \in {ident'[d], child'[d]}
        BY <3>2 DEF TaskMoves, OwnOnly
      <3> QED BY <3>3
    <2> QED BY <2>1, <2>2 DEF TargetInv
  <1>3. ASSUME NEW d \in Clients, d # c PROVE PlaceInv(d)'
    <2>1. PlaceInv(d) /\ d \in Clients \ {c}
      BY <1>3
    <2>2. UNCHANGED <<game, alive>> /\ client'[d] = client[d] /\ ident'[d] = ident[d] /\ pc'[d] = pc[d]
          /\ child'[d] = child[d] /\ cand'[d] = cand[d] /\ seen'[d] = seen[d]
      BY <2>1 DEF TaskMoves
    <2>3. client[d] = "Launching" => ident'[c] \in {ident[c], 0}
      BY <2>1 DEF OwnOnly
    <2>4. pc[d] \in {"prepare", "spawn", "mark", "search"} => client[d] = "Launching"
      BY DEF ClientInv, LabelsMatch, LaunchLabels
    <2>5. ASSUME pc[d] \in {"prepare", "spawn", "mark", "search"}, NEW e \in Clients, e # d
          PROVE  {child'[e], ident'[e]} \cap game \subseteq seen[d]
      <3>1. child'[e] \in {child[e], 0} /\ ident'[e] \in {ident[e], 0}
        BY <2>3, <2>4, <2>5 DEF TaskMoves, OwnOnly
      <3> QED BY <1>0, <2>1, <2>5, <3>1 DEF PlaceInv
    <2>6. client[d] = "Launching" /\ cand[d] # 0 => \A e \in Clients : e # d => ident'[e] # cand[d]
      BY <1>0, <2>1, <2>3 DEF PlaceInv, TaskMoves
    <2> QED BY <2>1, <2>2, <2>5, <2>6 DEF PlaceInv
  <1> QED BY <1>1, <1>2, <1>3

(* Most steps only move the task to its next place.                         *)
LEMMA PlaceSpares ==
    ASSUME ClientInv, SpareInv, NEW c \in Clients,
           \/ AdmitStopsTools(c) \/ Prepare(c) \/ SpawnFails(c) \/ MarkController(c)
           \/ SearchGivesUp(c) \/ LaunchRegisters(c) \/ MarkRunningFails(c)
           \/ WatchEnds(c) \/ HandoffGivesUp(c) \/ HandoffRegisters(c) \/ Terminated(c)
           \/ CleanupStopsTools(c)
    PROVE  SpareInv'
  <1> USE DEF SpareInv, NoProc
  <1>1. /\ UNCHANGED <<client, stop, ident, child, cand, seen, cmd, targets, born, alive, game, signalled>>
        /\ controller' = controller \/ controller' = [controller EXCEPT ![c] = child[c]]
    BY DEF AdmitStopsTools, Prepare, SpawnFails, MarkController, SearchGivesUp, LaunchRegisters,
       MarkRunningFails, WatchEnds, HandoffGivesUp, HandoffRegisters, Terminated, CleanupStopsTools,
       RegisterMemory, RegisterFails, entryVars, taskVars, cmdVars, osVars
  <1>2. PICK label :
           /\ pc' = [pc EXCEPT ![c] = label]
           /\ \/ label = "abort" /\ pc[c] \in {"admit", "prepare", "spawn", "mark", "search", "register", "promote"}
              \/ label = "baseline" /\ pc[c] = "admit"
              \/ label = "spawn" /\ pc[c] = "prepare"
              \/ label = "search" /\ pc[c] = "mark"
              \/ label = "promote" /\ pc[c] = "register"
              \/ label \in {"handoff", "terminate"} /\ pc[c] = "watch" /\ ident[c] \notin alive
              \/ label = "terminate" /\ pc[c] \in {"handoff", "reregister"}
              \/ label = "replace" /\ pc[c] = "reregister"
              \/ label = "finish" /\ pc[c] = "terminate"
              \/ label = "end" /\ pc[c] = "cleanup"
    BY DEF AdmitStopsTools, Prepare, SpawnFails, MarkController, SearchGivesUp, LaunchRegisters,
       MarkRunningFails, WatchEnds, HandoffGivesUp, HandoffRegisters, Terminated, CleanupStopsTools,
       RegisterMemory, RegisterFails, Goto
  <1>3. pc'[c] = label /\ \A d \in Clients \ {c} : pc'[d] = pc[d]
    BY <1>2 DEF ClientInv, EntryTypes
  <1>4. SpareTypes' /\ OneLaunches'
    BY <1>1 DEF SpareTypes, OneLaunches
  <1>5. PlaceInv(c)'
    BY <1>1, <1>2, <1>3 DEF PlaceInv
  <1>6. TaskMoves(c) /\ OwnOnly(c)
    BY <1>1, <1>3 DEF TaskMoves, OwnOnly
  <1> QED BY <1>4, <1>5, <1>6, TaskSpares

(* begin_launch, which finds no other launch under way, and the baseline of *)
(* the new one.                                                             *)
LEMMA BeginSpares ==
    ASSUME ClientInv, SpareInv, NEW c \in Clients, BeginLaunch(c) \/ Baseline(c)
    PROVE  SpareInv'
  <1> USE DEF SpareInv, NoProc
  <1>1. /\ UNCHANGED <<stop, ident, controller, child, cand, cmd, targets, born, alive, game, signalled>>
        /\ \A d \in Clients \ {c} : pc'[d] = pc[d] /\ client'[d] = client[d] /\ seen'[d] = seen[d]
        /\ client'[c] = "Launching" /\ seen'[c] \in {seen[c], game}
        /\ pc[c] \in {"idle", "baseline"} /\ pc'[c] \in {"baseline", "admit", "prepare"}
        /\ pc'[c] = "prepare" => seen'[c] = game
    BY DEF BeginLaunch, Baseline, Goto, entryVars, taskVars, cmdVars, osVars, ClientInv, EntryTypes,
       LabelsMatch, LaunchLabels, SpareTypes
  <1>2. SpareTypes'
    <2>1. seen' = seen \/ seen' = [seen EXCEPT ![c] = game]
      BY DEF BeginLaunch, Baseline, taskVars
    <2>2. game \subseteq 1..born
      BY DEF SpareTypes
    <2> QED BY <1>1, <2>1, <2>2 DEF SpareTypes
  <1>3. OneLaunches'
    <2>1. client[c] = "Launching" \/ \A d \in Clients : client[d] # "Launching"
      BY DEF BeginLaunch, Baseline, Admissible, ClientInv, LabelsMatch, LaunchLabels
    <2> QED BY <1>1, <2>1 DEF OneLaunches
  <1>4. client[c] # "Running"
    BY <1>1 DEF ClientInv, LabelsMatch, RunLabels
  <1>5. PlaceInv(c)'
    BY <1>1, <1>4 DEF PlaceInv
  <1>6. TaskMoves(c) /\ OwnOnly(c)
    BY <1>1 DEF TaskMoves, OwnOnly
  <1> QED BY <1>2, <1>3, <1>5, <1>6, TaskSpares

(* What a search or a handoff finds was not there before the launch, or is  *)
(* the controller, and is no client's.                                      *)
LEMMA FindSpares ==
    ASSUME ClientInv, SpareInv, NEW c \in Clients, SearchFinds(c) \/ HandoffFinds(c)
    PROVE  SpareInv'
  <1> USE DEF SpareInv, NoProc
  <1>1. PICK p \in Candidates(c, seen[c]) :
           /\ cand' = [cand EXCEPT ![c] = p]
           /\ \/ pc[c] = "search" /\ pc' = [pc EXCEPT ![c] = "register"]
              \/ pc[c] = "handoff" /\ pc' = [pc EXCEPT ![c] = "reregister"] /\ ~Foreign(c, p)
    BY DEF SearchFinds, HandoffFinds, Goto
  <1>2. UNCHANGED <<client, stop, ident, controller, child, seen, cmd, targets, born, alive, game, signalled>>
    BY DEF SearchFinds, HandoffFinds, entryVars, cmdVars, osVars
  <1>3. p \in game \ seen[c] /\ (child[c] \in game \ seen[c] => p = child[c]) /\ p \in 1..born
    BY DEF Candidates, SpareTypes
  <1>4. /\ cand'[c] = p /\ pc'[c] \in {"register", "reregister"}
        /\ pc[c] = "search" => pc'[c] = "register"
        /\ pc[c] = "handoff" => pc'[c] = "reregister"
        /\ \A d \in Clients \ {c} : pc'[d] = pc[d] /\ cand'[d] = cand[d]
    BY <1>1 DEF ClientInv, EntryTypes, SpareTypes
  <1>5. SpareTypes' /\ OneLaunches'
    BY <1>1, <1>2, <1>3 DEF SpareTypes, OneLaunches
  <1>6. /\ pc[c] = "search" => client[c] = "Launching"
        /\ pc[c] = "handoff" => client[c] = "Running"
    BY DEF ClientInv, LabelsMatch, LaunchLabels, RunLabels
  <1>7. \A d \in Clients \ {c} : child[d] # p /\ (pc[c] = "search" => ident[d] # p)
    <2> SUFFICES ASSUME NEW d \in Clients \ {c}
                 PROVE  child[d] # p /\ (pc[c] = "search" => ident[d] # p)
      OBVIOUS
    <2>1. CASE pc[c] = "search"
      BY <1>3, <2>1 DEF PlaceInv
    <2>2. CASE pc[c] = "handoff"
      <3> SUFFICES ASSUME child[d] = p PROVE FALSE
        BY <2>2
      <3>1. p \in 1..born /\ p # 0
        BY <1>3 DEF SpareTypes
      <3>2. pc[d] \notin {"idle", "cleanup", "end"}
        BY <3>1 DEF PlaceInv
      <3>3. client[d] # "absent"
        BY <3>2 DEF ClientInv, EntryTypes, LabelsMatch
      <3>4. d \in Others(c)
        BY <3>3 DEF Others, Present
      <3>5. client[d] # "Launching" /\ ident[d] # p
        BY <1>1, <2>2, <3>4 DEF Foreign
      <3>6. client[d] = "Running"
        BY <3>3, <3>5 DEF ClientInv, EntryTypes
      <3> QED BY <1>3, <3>5, <3>6 DEF PlaceInv
    <2> QED BY <1>1, <2>1, <2>2
  <1>8. PlaceInv(c)'
    <2>1. CASE pc[c] = "search"
      BY <1>2, <1>3, <1>4, <1>6, <1>7, <2>1 DEF PlaceInv
    <2>2. CASE pc[c] = "handoff"
      BY <1>2, <1>3, <1>4, <1>6, <1>7, <2>2 DEF PlaceInv
    <2> QED BY <1>1, <2>1, <2>2
  <1>9. TaskMoves(c) /\ OwnOnly(c)
    BY <1>2, <1>4, <1>7 DEF TaskMoves, OwnOnly
  <1> QED BY <1>5, <1>8, <1>9, TaskSpares

(* mark_running and replace_running publish what was found; a replacement   *)
(* that is refused or published is forgotten.                               *)
LEMMA OwnSpares ==
    ASSUME ClientInv, SpareInv, NEW c \in Clients,
           MarkRunning(c) \/ ReplaceRunning(c) \/ ReplaceRefused(c) \/ PublishHandoff(c)
    PROVE  SpareInv'
  <1> USE DEF SpareInv, NoProc
  <1>1. UNCHANGED <<stop, controller, child, cmd, targets, born, alive, game, signalled>>
    BY DEF MarkRunning, ReplaceRunning, ReplaceRefused, PublishHandoff, entryVars, taskVars, cmdVars, osVars
  <1>2. /\ client' = client \/ client' = [client EXCEPT ![c] = "Running"]
        /\ ident' = ident \/ ident' = [ident EXCEPT ![c] = cand[c]]
        /\ seen' = seen \/ seen' = [seen EXCEPT ![c] = @ \cup {cand[c]}]
        /\ cand' = cand \/ cand' = [cand EXCEPT ![c] = NoProc]
        /\ \E label : pc' = [pc EXCEPT ![c] = label]
    BY DEF MarkRunning, ReplaceRunning, ReplaceRefused, PublishHandoff, Goto, entryVars, taskVars
  <1>3. /\ client'[c] = "Running" /\ cand'[c] \in {cand[c], 0}
        /\ \A d \in Clients \ {c} : /\ client'[d] = client[d] /\ ident'[d] = ident[d] /\ pc'[d] = pc[d]
                                    /\ cand'[d] = cand[d] /\ seen'[d] = seen[d]
        /\ \/ pc[c] = "promote" /\ pc'[c] = "watch" /\ ident'[c] = cand[c] /\ ~stop[c]
           \/ /\ pc[c] = "replace" /\ pc'[c] = "publish" /\ ident'[c] = cand[c] /\ ~stop[c]
              /\ ~Foreign(c, cand[c]) /\ cand'[c] = cand[c]
           \/ pc[c] = "replace" /\ pc'[c] = "terminate" /\ ident'[c] = ident[c]
           \/ pc[c] = "publish" /\ pc'[c] = "watch" /\ ident'[c] = ident[c]
    BY <1>2 DEF MarkRunning, ReplaceRunning, ReplaceRefused, PublishHandoff, Goto, Promotable, Replaceable,
       entryVars, taskVars, ClientInv, EntryTypes, LabelsMatch, RunLabels, SpareTypes
  <1>4. SpareTypes'
    <2>1. cand[c] \in 0..born
      BY DEF SpareTypes
    <2>2. seen' = seen \/ (cand[c] \in 1..born /\ seen' = [seen EXCEPT ![c] = @ \cup {cand[c]}])
      <3>1. seen' = seen \/ cand[c] # 0
        BY DEF MarkRunning, ReplaceRunning, ReplaceRefused, PublishHandoff, taskVars, PlaceInv
      <3> QED BY <1>2, <2>1, <3>1
    <2> QED BY <1>1, <1>2, <2>1, <2>2 DEF SpareTypes
  <1>5. OneLaunches'
    <2> SUFFICES ASSUME NEW d \in Clients, NEW e \in Clients,
                        client'[d] = "Launching", client'[e] = "Launching"
                 PROVE  d = e
      BY DEF OneLaunches
    <2>1. d # c /\ e # c
      BY <1>3
    <2>2. client[d] = "Launching" /\ client[e] = "Launching"
      BY <1>3, <2>1
    <2> QED BY <2>2 DEF OneLaunches
  <1>6. \A d \in Clients \ {c} : ident'[c] # ident[c] => client[d] # "Launching"
    <2> SUFFICES ASSUME NEW d \in Clients \ {c}, ident'[c] # ident[c], client[d] = "Launching"
                 PROVE  FALSE
      OBVIOUS
    <2>1. CASE pc[c] = "promote"
      <3>1. client[c] = "Launching"
        BY <2>1 DEF ClientInv, LabelsMatch, LaunchLabels
      <3> QED BY <3>1 DEF OneLaunches
    <2>2. CASE pc[c] = "replace" /\ ~Foreign(c, cand[c])
      BY <2>2 DEF Foreign, Others, Present
    <2> QED BY <1>3, <2>1, <2>2
  <1>7. PlaceInv(c)'
    <2>1. PlaceInv(c)
      OBVIOUS
    <2>2. CASE pc[c] = "promote" /\ pc'[c] = "watch" /\ ident'[c] = cand[c]
      <3>1. child[c] \in game => cand[c] = child[c]
        BY <2>1, <2>2 DEF PlaceInv
      <3> QED BY <1>1, <1>3, <2>2, <3>1 DEF PlaceInv
    <2>3. CASE pc[c] = "replace" /\ pc'[c] = "publish" /\ ident'[c] = cand[c] /\ cand'[c] = cand[c]
      <3>1. client[c] = "Running" /\ ident[c] \notin alive /\ game \subseteq alive
        BY <2>1, <2>3 DEF PlaceInv, ClientInv, LabelsMatch, RunLabels, SpareTypes
      <3>2. child[c] \notin game /\ cand[c] # 0
        BY <2>1, <2>3, <3>1 DEF PlaceInv
      <3> QED BY <1>1, <1>3, <2>3, <3>2 DEF PlaceInv
    <2>4. CASE pc[c] = "replace" /\ pc'[c] = "terminate" /\ ident'[c] = ident[c]
      <3>1. client[c] = "Running"
        BY <2>4 DEF ClientInv, LabelsMatch, RunLabels
      <3> QED BY <1>1, <1>3, <2>1, <2>4, <3>1 DEF PlaceInv
    <2>5. CASE pc[c] = "publish" /\ pc'[c] = "watch" /\ ident'[c] = ident[c]
      <3>1. client[c] = "Running"
        BY <2>5 DEF ClientInv, LabelsMatch, RunLabels
      <3> QED BY <1>1, <1>3, <2>1, <2>5, <3>1 DEF PlaceInv
    <2> QED BY <1>3, <2>2, <2>3, <2>4, <2>5
  <1>8. TaskMoves(c) /\ OwnOnly(c)
    BY <1>1, <1>3, <1>6 DEF TaskMoves, OwnOnly
  <1> QED BY <1>4, <1>5, <1>7, <1>8, TaskSpares

(* What ends a client: the launch that failed, after its controller is gone *)
(* or signalled, and the exit task.                                         *)
LEMMA EndSpares ==
    ASSUME ClientInv, SpareInv, NEW c \in Clients, AbortEnds(c) \/ Finish(c)
    PROVE  SpareInv'
  <1> USE DEF SpareInv, NoProc
  <1>1. /\ UNCHANGED <<cmd, targets, born, alive, game>> /\ signalled \subseteq signalled'
        /\ signalled' = signalled \/ child[c] \notin alive \ signalled
    BY DEF AbortEnds, Finish, ControllerGone, cmdVars, osVars
  <1>2. /\ client' = [client EXCEPT ![c] = "absent"] /\ stop' = [stop EXCEPT ![c] = FALSE]
        /\ ident' = ident \/ ident' = [ident EXCEPT ![c] = 0]
        /\ controller' = [controller EXCEPT ![c] = 0] /\ child' = [child EXCEPT ![c] = 0]
        /\ cand' = [cand EXCEPT ![c] = 0] /\ seen' = [seen EXCEPT ![c] = {}]
        /\ pc' = [pc EXCEPT ![c] = "end"] \/ pc' = [pc EXCEPT ![c] = "cleanup"]
    BY DEF AbortEnds, Finish, Goto
  <1>3. /\ client'[c] = "absent" /\ stop'[c] = FALSE /\ child'[c] = 0 /\ cand'[c] = 0 /\ ident'[c] = 0
        /\ pc'[c] \in {"end", "cleanup"}
        /\ \A d \in Clients \ {c} :
              /\ client'[d] = client[d] /\ stop'[d] = stop[d] /\ ident'[d] = ident[d]
              /\ pc'[d] = pc[d] /\ child'[d] = child[d] /\ cand'[d] = cand[d] /\ seen'[d] = seen[d]
    <2>1. AbortEnds(c) => client[c] # "Running"
      BY DEF AbortEnds, ClientInv, LabelsMatch, RunLabels
    <2>2. ident'[c] = 0
      BY <1>2, <2>1 DEF AbortEnds, Finish, SpareTypes, PlaceInv
    <2> QED BY <1>2, <2>2 DEF ClientInv, EntryTypes, SpareTypes
  <1>4. SpareTypes'
    BY <1>1, <1>2 DEF SpareTypes
  <1>5. OneLaunches'
    BY <1>3 DEF OneLaunches
  <1>6. PlaceInv(c)'
    BY <1>3 DEF PlaceInv
  <1>7. ASSUME NEW p \in targets \cap (alive \ signalled')
        PROVE  ~(stop[c] /\ p \in {ident[c], child[c]})
    <2>1. CASE AbortEnds(c)
      <3>1. ident[c] = 0 /\ p # 0
        BY <2>1 DEF AbortEnds, ClientInv, LabelsMatch, RunLabels, PlaceInv, SpareTypes
      <3>2. child[c] \notin alive \ signalled
        BY <2>1 DEF AbortEnds, ControllerGone
      <3> QED BY <1>1, <3>1, <3>2
    <2>2. CASE Finish(c)
      BY <2>2 DEF Finish, LifecycleFree, TargetInv
    <2> QED BY <2>1, <2>2
  <1>8. TaskMoves(c) /\ OwnOnly(c)
    BY <1>1, <1>3, <1>7 DEF TaskMoves, OwnOnly
  <1> QED BY <1>4, <1>5, <1>6, <1>8, TaskSpares

(* The processes that appear are new to everybody; only the controller is   *)
(* known, to its launch.                                                    *)
LEMMA SpawnSpares ==
    ASSUME ClientInv, SpareInv, NEW c \in Clients, SpawnController(c)
    PROVE  SpareInv'
  <1> USE DEF SpareInv, NoProc
  <1>1. /\ born' = born + 1 /\ alive' = alive \cup {born + 1} /\ game' \subseteq game \cup {born + 1}
        /\ UNCHANGED <<client, stop, ident, controller, cand, seen, cmd, targets, signalled>>
        /\ child' = [child EXCEPT ![c] = born + 1] /\ pc' = [pc EXCEPT ![c] = "mark"] /\ pc[c] = "spawn"
        /\ game \subseteq game'
    BY DEF SpawnController, Goto, entryVars, cmdVars
  <1>2. /\ child'[c] = born + 1 /\ pc'[c] = "mark" /\ child[c] = 0 /\ cand[c] = 0
        /\ \A d \in Clients \ {c} : child'[d] = child[d] /\ pc'[d] = pc[d]
    BY <1>1 DEF PlaceInv, ClientInv, EntryTypes, SpareTypes
  <1>3. born \in Nat /\ born + 1 \notin 0..born /\ 0..born \subseteq 0..(born + 1) /\ 1..born \subseteq 1..(born + 1)
    BY DEF SpareTypes
  <1>4. \A d \in Clients : /\ child[d] # born + 1 /\ cand[d] # born + 1 /\ ident[d] # born + 1
                           /\ born + 1 \notin seen[d]
    BY <1>3 DEF SpareTypes
  <1>5. SpareTypes'
    <2>1. /\ born' \in Nat /\ alive' \subseteq 1..born' /\ game' \subseteq alive' /\ targets' \subseteq 1..born'
      BY <1>1, <1>3 DEF SpareTypes
    <2>2. /\ stop' \in [Clients -> BOOLEAN] /\ ident' \in [Clients -> 0..born']
          /\ child' \in [Clients -> 0..born'] /\ cand' \in [Clients -> 0..born']
          /\ controller' \in [Clients -> 0..born'] /\ seen' \in [Clients -> SUBSET (1..born')]
      BY <1>1, <1>3 DEF SpareTypes
    <2>3. \A d \in Clients : controller'[d] \in {0, child'[d]}
      BY <1>1, <1>2 DEF SpareTypes
    <2> QED BY <2>1, <2>2, <2>3 DEF SpareTypes
  <1>6. OneLaunches'
    BY <1>1 DEF OneLaunches
  <1>7. ControllersApart'
    BY <1>1, <1>2, <1>3, <1>4 DEF ControllersApart
  <1>8. TargetInv'
    <2>1. born + 1 \notin targets /\ 0 \notin targets
      BY <1>3 DEF SpareTypes
    <2> QED BY <1>1, <1>2, <2>1 DEF TargetInv
  <1>9. client[c] = "Launching"
    BY <1>1 DEF ClientInv, LabelsMatch, LaunchLabels
  <1>10. ASSUME NEW d \in Clients PROVE PlaceInv(d)'
    <2>1. PlaceInv(d)
      OBVIOUS
    <2>2. CASE d = c
      BY <1>1, <1>2, <1>4, <1>9, <2>1, <2>2 DEF PlaceInv
    <2>3. CASE d # c
      <3>1. client[d] # "Launching" /\ pc[d] \notin LaunchLabels
        BY <1>9, <2>3 DEF OneLaunches, ClientInv, LabelsMatch
      <3> QED BY <1>1, <1>2, <1>4, <2>1, <2>3, <3>1 DEF PlaceInv, LaunchLabels
    <2> QED BY <2>2, <2>3
  <1> QED BY <1>5, <1>6, <1>7, <1>8, <1>10

(* Other processes appear, unknown to everybody, and processes die.         *)
LEMMA ProcessSpares ==
    ASSUME SpareInv, GameAppears \/ \E p \in Procs : ProcessDies(p)
    PROVE  SpareInv'
  <1> USE DEF SpareInv, NoProc
  <1>1. /\ born \in Nat /\ alive \subseteq 1..born /\ game \subseteq alive
        /\ born + 1 \notin 0..born /\ 0..born \subseteq 0..(born + 1) /\ 1..born \subseteq 1..(born + 1)
    BY DEF SpareTypes
  <1>2. /\ UNCHANGED <<client, stop, ident, controller, pc, child, cand, seen, cmd, targets>>
        /\ born' \in {born, born + 1} /\ alive' \subseteq alive \cup {born + 1} /\ game' \subseteq game \cup {born + 1}
        /\ alive' \subseteq 1..born' /\ game' \subseteq alive'
        /\ (alive' \ signalled') \cap (1..born) \subseteq alive \ signalled
    <2>1. CASE GameAppears
      <3>1. /\ UNCHANGED <<client, stop, ident, controller, pc, child, cand, seen, cmd, targets, signalled>>
            /\ born' = born + 1 /\ alive' = alive \cup {born + 1} /\ game' = game \cup {born + 1}
        BY <2>1 DEF GameAppears, entryVars, taskVars, toolVars, cmdVars
      <3>2. born + 1 \in 1..(born + 1)
        BY <1>1
      <3> QED BY <1>1, <3>1, <3>2
    <2>2. CASE \E p \in Procs : ProcessDies(p)
      <3> PICK p \in Procs : ProcessDies(p)
        BY <2>2
      <3>1. /\ UNCHANGED <<client, stop, ident, controller, pc, child, cand, seen, cmd, targets, born>>
            /\ alive' = alive \ {p} /\ game' = game \ {p} /\ signalled' = signalled \ {p}
        BY DEF ProcessDies, entryVars, taskVars, toolVars, cmdVars
      <3> QED BY <1>1, <3>1
    <2> QED BY <2>1, <2>2
  <1>3. \A d \in Clients : child[d] # born + 1 /\ ident[d] # born + 1
    BY <1>1 DEF SpareTypes
  <1>4. SpareTypes'
    BY <1>1, <1>2 DEF SpareTypes
  <1>5. OneLaunches' /\ ControllersApart'
    BY <1>2 DEF OneLaunches, ControllersApart
  <1>6. TargetInv'
    BY <1>1, <1>2 DEF TargetInv, SpareTypes
  <1>7. ASSUME NEW d \in Clients PROVE PlaceInv(d)'
    BY <1>2, <1>3 DEF PlaceInv
  <1> QED BY <1>4, <1>5, <1>6, <1>7

(* The commands take the processes of clients they ask to stop, and drop    *)
(* them when they have been signalled.                                      *)
LEMMA CommandSpares ==
    ASSUME SpareInv,
           \/ \E c \in Clients : StopGame(c) \/ StartTool(c)
           \/ StopGameStopsTools \/ StopAllGames \/ StopAllRequests \/ SignalTargets
           \/ ToolStarts \/ ToolStartFails \/ StopTool \/ CloseAdmission \/ ReopenAdmission
    PROVE  SpareInv'
  <1> USE DEF SpareInv, NoProc
  <1>1. UNCHANGED <<client, ident, controller, pc, child, cand, seen, born, alive, game>>
    BY DEF StopGame, StartTool, StopGameStopsTools, StopAllGames, StopAllRequests, SignalTargets,
       ToolStarts, ToolStartFails, StopTool, CloseAdmission, ReopenAdmission, entryVars, taskVars, osVars
  <1>2. OneLaunches' /\ ControllersApart' /\ \A c \in Clients : PlaceInv(c)'
    BY <1>1 DEF OneLaunches, ControllersApart, PlaceInv
  <1>3. ASSUME targets' \subseteq 1..born, stop' \in [Clients -> BOOLEAN], TargetInv'
        PROVE  SpareInv'
    BY <1>1, <1>2, <1>3 DEF SpareTypes
  <1>4. ASSUME NEW c \in Clients, StopGame(c) PROVE SpareInv'
    <2>1. /\ targets' = {ident[c], controller[c]} \ {0} /\ stop' = [stop EXCEPT ![c] = TRUE]
          /\ cmd' \in {"stop", "signal"}
      BY <1>4 DEF StopGame
    <2>2. targets' \subseteq 1..born /\ stop' \in [Clients -> BOOLEAN] /\ stop'[c]
      BY <2>1 DEF SpareTypes
    <2>3. \A p \in targets' : p \in {ident[c], child[c]}
      BY <2>1 DEF SpareTypes
    <2> QED BY <1>1, <1>3, <2>1, <2>2, <2>3 DEF TargetInv
  <1>5. CASE StopAllRequests
    <2> DEFINE all == {c \in Clients : client[c] # "absent"}
    <2>1. /\ targets' = (UNION {{ident[c], controller[c]} : c \in all}) \ {0}
          /\ stop' = [c \in Clients |-> c \in all] /\ cmd' = "signal"
      BY <1>5 DEF StopAllRequests, Present
    <2>2. ASSUME NEW p \in targets'
          PROVE  p \in 1..born /\ \E c \in Clients : stop'[c] /\ p \in {ident[c], child[c]}
      <3>1. PICK S \in {{ident[c], controller[c]} : c \in Present} : p \in S /\ p # 0
        BY <1>5 DEF StopAllRequests
      <3>2. PICK c \in Present : S = {ident[c], controller[c]}
        BY <3>1
      <3>3. c \in Clients /\ stop'[c]
        BY <2>1, <3>2 DEF Present
      <3>4. p \in 1..born /\ p \in {ident[c], child[c]}
        BY <3>1, <3>2, <3>3 DEF SpareTypes
      <3> QED BY <3>3, <3>4
    <2>3. targets' \subseteq 1..born /\ stop' \in [Clients -> BOOLEAN]
      BY <2>1, <2>2
    <2>4. TargetInv'
      BY <1>1, <2>1, <2>2 DEF TargetInv
    <2> QED BY <1>3, <2>3, <2>4
  <1>6. CASE SignalTargets
    <2>1. targets' = {} /\ stop' = stop
      BY <1>6 DEF SignalTargets, entryVars
    <2> QED BY <1>3, <2>1 DEF TargetInv, SpareTypes
  <1>7. CASE \/ StopGameStopsTools \/ StopAllGames \/ ToolStarts \/ ToolStartFails \/ StopTool
             \/ CloseAdmission \/ ReopenAdmission \/ \E c \in Clients : StartTool(c)
    <2>1. /\ UNCHANGED <<stop, targets, signalled>>
          /\ cmd' = cmd \/ cmd \in {"idle", "start"} \/ (cmd = "stop" /\ cmd' = "signal")
      BY <1>7 DEF StopGameStopsTools, StopAllGames, ToolStarts, ToolStartFails, StopTool, CloseAdmission,
         ReopenAdmission, StartTool, entryVars, cmdVars, osVars, LifecycleFree
    <2>2. TargetInv'
      BY <1>1, <2>1 DEF TargetInv
    <2> QED BY <1>3, <2>1, <2>2 DEF SpareTypes
  <1> QED BY <1>4, <1>5, <1>6, <1>7

(* Every other step changes nothing the invariant speaks of, or signals the *)
(* controller of a launch that ends.                                        *)
LEMMA RestSpares ==
    ASSUME SpareInv, (\E c \in Clients : TerminateController(c)) \/ UNCHANGED vars
    PROVE  SpareInv'
  <1>1. /\ UNCHANGED <<client, stop, ident, controller, pc, child, cand, seen, cmd, targets, born, alive, game>>
        /\ signalled \subseteq signalled'
    BY DEF TerminateController, entryVars, taskVars, cmdVars, osVars, vars
  <1> QED BY <1>1 DEF SpareInv, SpareTypes, OneLaunches, ControllersApart, PlaceInv, TargetInv

LEMMA SpareStep == ClientInv /\ SpareInv /\ [Next]_vars => SpareInv'
  BY PlaceSpares, BeginSpares, FindSpares, OwnSpares, EndSpares, SpawnSpares, ProcessSpares,
     CommandSpares, RestSpares DEF Next, LaunchStep, ExitStep, CommandStep

(* What is signalled belongs to no client that nobody asked to stop.        *)
Spared == \A p \in signalled' \ signalled : \A c \in Clients :
             client'[c] = "Running" /\ ident'[c] = p => stop'[c]
LEMMA SpareStepSpares == ClientInv /\ SpareInv /\ [Next]_vars => Spared
  <1> SUFFICES ASSUME ClientInv, SpareInv, [Next]_vars, NEW p \in signalled' \ signalled,
                      NEW c \in Clients, client'[c] = "Running", ident'[c] = p
               PROVE  stop'[c]
    BY DEF Spared
  <1> USE DEF SpareInv, NoProc
  <1>1. CASE \E d \in Clients : TerminateController(d)
    <2> PICK d \in Clients : TerminateController(d)
      BY <1>1
    <2>1. /\ p = child[d] /\ child[d] \in alive /\ pc[d] \in {"abort", "terminate"}
          /\ UNCHANGED <<client, stop, ident>>
      BY DEF TerminateController, entryVars
    <2>2. p \in 1..born
      BY <2>1 DEF SpareTypes
    <2>3. CASE c = d
      <3>1. pc[d] # "abort"
        BY <2>1, <2>3 DEF ClientInv, LabelsMatch, RunLabels
      <3> QED BY <2>1, <2>3, <3>1 DEF PlaceInv
    <2>4. CASE c # d
      BY <2>1, <2>2, <2>4 DEF ControllersApart
    <2> QED BY <2>3, <2>4
  <1>2. CASE \E d \in Clients : AbortEnds(d)
    <2> PICK d \in Clients : AbortEnds(d)
      BY <1>2
    <2>1. /\ p = cand[d] /\ p \in alive /\ pc[d] = "abort" /\ client' = [client EXCEPT ![d] = "absent"]
          /\ UNCHANGED ident
      BY DEF AbortEnds
    <2>2. p # 0
      BY <2>1 DEF SpareTypes
    <2>3. c # d /\ client[d] = "Launching"
      BY <2>1 DEF ClientInv, EntryTypes, LabelsMatch, LaunchLabels
    <2> QED BY <2>1, <2>2, <2>3 DEF PlaceInv
  <1>3. CASE SignalTargets
    <2>1. p \in targets \cap (alive \ signalled) /\ UNCHANGED <<client, stop, ident>>
      BY <1>3 DEF SignalTargets, entryVars
    <2>2. PICK d \in Clients : stop[d] /\ p \in {ident[d], child[d]}
      BY <2>1 DEF TargetInv
    <2>3. p # 0
      BY <2>1 DEF SpareTypes
    <2>4. CASE p = child[d]
      BY <2>1, <2>2, <2>3, <2>4 DEF ControllersApart
    <2>5. CASE p = ident[d]
      <3>1. client[d] = "Running"
        BY <2>3, <2>5 DEF PlaceInv
      <3> QED BY <2>1, <2>2, <2>5, <3>1 DEF ClientInv, IdentityUnique
    <2> QED BY <2>2, <2>4, <2>5
  <1>4. CASE ~(\E d \in Clients : TerminateController(d) \/ AbortEnds(d)) /\ ~SignalTargets
    <2>1. signalled' \subseteq signalled
      BY <1>4 DEF Next, LaunchStep, ExitStep, CommandStep, vars, osVars, BeginLaunch, AdmitStopsTools,
         Baseline, Prepare, SpawnFails, SpawnController, MarkController, SearchFinds, SearchGivesUp,
         LaunchRegisters, RegisterMemory, RegisterFails, MarkRunning, MarkRunningFails, WatchEnds,
         HandoffFinds, HandoffGivesUp, HandoffRegisters, ReplaceRunning, ReplaceRefused, PublishHandoff,
         Terminated, Finish, CleanupStopsTools, StopGame, StopGameStopsTools, StopAllGames,
         StopAllRequests, StartTool, ToolStarts, ToolStartFails, StopTool, CloseAdmission,
         ReopenAdmission, GameAppears, ProcessDies
    <2> QED BY <2>1
  <1> QED BY <1>1, <1>2, <1>3, <1>4

(* OthersSpared: a failed or stopped launch, an exit task, stop_game and    *)
(* stop_all_games never signal the process of a client that nobody asked to *)
(* stop, whatever was decided when.                                         *)
THEOREM OthersAlwaysSpared == Spec => OthersSpared
  <1>1. Init => SpareInv
    BY DEF Init, SpareInv, SpareTypes, OneLaunches, ControllersApart, TargetInv, PlaceInv, NoProc
  <1>2. Spec => [](ClientInv /\ SpareInv)
    BY <1>1, ClientInvariant, SpareStep, PTL DEF Spec
  <1>3. Spec => [][Spared]_vars
    BY <1>2, SpareStepSpares, PTL DEF Spec
  <1> QED BY <1>3 DEF OthersSpared, Spared
=============================================================================
