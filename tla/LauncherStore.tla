---------------------------- MODULE LauncherStore ----------------------------
(* The list of running clients in the window (features/launcher). Events arrive in
   the order they were emitted; the answers of launch_game and list_game_clients
   come on their own and may be overtaken by events. A client is removed for good:
   its id is remembered in closedClientIds. The backend is external here; module
   GameClients models it.                                                        *)
EXTENDS Naturals, Sequences, FiniteSets

CONSTANTS
    Windows,       \* client ids the window creates
    Refreshes,     \* bound: calls of refreshGameClients in flight at once
    MaxHandoffs    \* bound: game-client events of the exit tasks

VARIABLES
    backendClients,       \* clients of the backend (its launches included)
    emitted,       \* events on their way
    launchCall,    \* runTask: the client being launched and the answer on its way
    listed, closedIds,   \* clients and closedClientIds
    refreshes,     \* the calls of refreshGameClients in flight
    newest,        \* the call started last, while clientsRevision is what it was then
    fresh,         \* client ids not used yet
    handoffs

storeState == <<listed, closedIds, newest>>
launcherVars == <<backendClients, emitted, launchCall, storeState, refreshes,
                  fresh, handoffs>>

NoLaunch == [step |-> "none"]
NoRefresh == [step |-> "none"]
NoRefreshId == "no call"
ASSUME RefreshesAssumption == NoRefreshId \notin Refreshes

LauncherInit ==
    /\ backendClients = {} /\ emitted = <<>> /\ launchCall = NoLaunch
    /\ listed = {} /\ closedIds = {} /\ newest = NoRefreshId
    /\ refreshes = [r \in Refreshes |-> NoRefresh]
    /\ fresh = Windows /\ handoffs = 0

-----------------------------------------------------------------------------
(* The store. Every change counts up clientsRevision, so the calls in flight are outdated. *)

SetClients(ids) ==
    listed' = ids \ closedIds /\ newest' = NoRefreshId /\ UNCHANGED closedIds
(* Mutant: a client that was closed comes back with a late answer. *)
UpsertedAnyway(c) == listed' = listed \cup {c} /\ UNCHANGED closedIds
Upserted(c) ==
    listed' = (IF c \in closedIds THEN listed ELSE listed \cup {c}) /\ UNCHANGED closedIds
UpsertClient(c) == Upserted(c) /\ newest' = IF c \in closedIds THEN newest ELSE NoRefreshId
RemoveClient(c) ==
    listed' = listed \ {c} /\ newest' = NoRefreshId /\ closedIds' = closedIds \cup {c}

-----------------------------------------------------------------------------
(* useLauncherTask admits one task at a time; handleLaunch is the task. *)

HandleLaunch(c) ==
    /\ launchCall = NoLaunch /\ c \in fresh /\ fresh' = fresh \ {c}
    /\ launchCall' = [step |-> "asked", client |-> c] /\ UpsertClient(c)
    /\ UNCHANGED <<backendClients, emitted, refreshes, handoffs>>

(* launch_game (external): the client is reserved, then runs or is refused *)
BackendLaunch ==
    /\ \/ /\ launchCall.step = "asked" /\ backendClients' = backendClients \cup {launchCall.client}
          /\ launchCall' = [launchCall EXCEPT !.step = "reserved"]
       \/ /\ launchCall.step = "reserved" /\ launchCall' = [launchCall EXCEPT !.step = "ok"]
          /\ UNCHANGED backendClients
       \/ /\ launchCall.step \in {"asked", "reserved"}
          /\ launchCall' = [launchCall EXCEPT !.step = "refused"]
          /\ backendClients' = backendClients \ {launchCall.client}
    /\ UNCHANGED <<emitted, storeState, refreshes, fresh, handoffs>>

(* refreshGameClients: a new generation, at the revision of this moment *)
StartRefresh(r) ==
    /\ refreshes[r] = NoRefresh /\ newest' = r
    /\ refreshes' = [refreshes EXCEPT ![r] = [step |-> "asked", ids |-> {}]]

(* The answer reaches handleLaunch: the client it names, or the client removed. *)
LaunchAnswered ==
    /\ launchCall' = NoLaunch
    /\ \/ /\ launchCall.step = "ok" /\ Upserted(launchCall.client)
          /\ \E r \in Refreshes : StartRefresh(r)
       \/ /\ launchCall.step = "refused" /\ RemoveClient(launchCall.client)
          /\ UNCHANGED refreshes
    /\ UNCHANGED <<backendClients, emitted, fresh, handoffs>>

(* the census at start, or after a stop that failed *)
RefreshClients(r) ==
    /\ StartRefresh(r) /\ UNCHANGED <<listed, closedIds>>
    /\ UNCHANGED <<backendClients, emitted, launchCall, fresh, handoffs>>
(* list_game_clients (external) *)
ListClients(r) ==
    /\ refreshes[r].step = "asked"
    /\ refreshes' = [refreshes EXCEPT ![r].step = "answered", ![r].ids = backendClients]
    /\ UNCHANGED <<backendClients, emitted, launchCall, storeState, fresh, handoffs>>
(* Only the newest call counts, and only if the list did not change meanwhile. *)
RefreshAnswered(r) ==
    /\ refreshes[r].step = "answered"
    /\ refreshes' = [refreshes EXCEPT ![r] = NoRefresh]
    /\ IF newest = r
       THEN SetClients(refreshes[r].ids) ELSE UNCHANGED storeState
    /\ UNCHANGED <<backendClients, emitted, launchCall, fresh, handoffs>>

(* setClientStatus: "stopping" is shown at once *)
StopClient(c) ==
    /\ c \in listed /\ newest' = NoRefreshId
    /\ UNCHANGED <<backendClients, emitted, launchCall, listed, closedIds, refreshes, fresh, handoffs>>

-----------------------------------------------------------------------------
(* Events of the exit task (external) and useLauncherEvents. *)

Started(c) == c \in backendClients /\ ~(launchCall.step \in {"asked", "reserved"} /\ launchCall.client = c)
GameEvent(c) ==
    /\ Started(c)
    /\ \/ /\ backendClients' = backendClients \ {c} /\ emitted' = Append(emitted, [type |-> "game-exit", id |-> c])
          /\ UNCHANGED handoffs
       \/ /\ handoffs < MaxHandoffs /\ handoffs' = handoffs + 1
          /\ emitted' = Append(emitted, [type |-> "game-client", id |-> c]) /\ UNCHANGED backendClients
    /\ UNCHANGED <<launchCall, storeState, refreshes, fresh>>
EventArrives ==
    /\ emitted # <<>> /\ emitted' = Tail(emitted)
    /\ IF Head(emitted).type = "game-exit" THEN RemoveClient(Head(emitted).id)
       ELSE UpsertClient(Head(emitted).id)
    /\ UNCHANGED <<backendClients, launchCall, refreshes, fresh, handoffs>>

LauncherNext ==
    \/ BackendLaunch \/ LaunchAnswered \/ EventArrives
    \/ \E c \in Windows : HandleLaunch(c) \/ StopClient(c) \/ GameEvent(c)
    \/ \E r \in Refreshes : RefreshClients(r) \/ ListClients(r) \/ RefreshAnswered(r)

-----------------------------------------------------------------------------
LauncherTypeOK ==
    /\ backendClients \subseteq Windows /\ listed \subseteq Windows /\ closedIds \subseteq Windows
    /\ newest \in Refreshes \cup {NoRefreshId} /\ handoffs \in 0 .. MaxHandoffs

(* Once no event and no answer is on its way, the window lists exactly the clients that run:
   no answer overtaken by an exit brings one back, and no census drops one that was launched
   after it was taken (launcher.store.ts:41, refreshGameClients.ts:11). *)
ListIsTrue ==
    (emitted = <<>> /\ launchCall = NoLaunch /\ \A r \in Refreshes : refreshes[r] = NoRefresh)
      => listed = backendClients
=============================================================================
