---------------------------- MODULE Installations ----------------------------
(***************************************************************************)
(* Installing a game: the draft and its task (tools/installations), the    *)
(* confirmation that adds the server to servers.json, and the store of the *)
(* frontend that writes the same file (servers.store.ts with               *)
(* LatestSnapshotWriter).  Documents are whole (JsonStore implements       *)
(* AtomicDocument): a write lands or fails.                                *)
(***************************************************************************)
EXTENDS Naturals, Sequences, FiniteSets

CONSTANTS
    MaxRuns,       \* runs of the installer
    MaxEdits,      \* edits of the user
    MaxFaults      \* writes that fail, restarts of the launcher

Mine == "mine"                    \* a server the user has
Extra == "extra"                  \* one the user adds
Installed == "installed"          \* the server of the draft
Ids == {Mine, Extra, Installed}
ActiveStatus == {"preparing", "running", "stopping"}
Restartable == {"pending", "failed", "interrupted", "awaiting"}
Unread == [status |-> "unread", bound |-> FALSE]

VARIABLES
    draft, draftFile,  \* the draft in memory and in installations.json
    active, cancel,    \* State.active and its channel
    task,              \* where the task of the draft stands
    marker,            \* the protection in the prefix
    prefixBy,          \* who holds the guard of the prefix: "none", "task" or "confirm"
    confirm,           \* where confirm() stands; it holds installation-confirm unless "none"
    closing,           \* admission of new runs is closed
    servers,           \* servers.json
    view, edits,       \* servers and editGeneration of the store
    queue, inflight,   \* serializeDiskOperation and the snapshot of the save it runs
    running, dirty,    \* LatestSnapshotWriter: a drain runs; there is a newer revision
    register,          \* where registerInstallation stands
    undo,              \* the edit that waits for its write, to be undone if it fails
    load,              \* loadServers: the list it read and the edits it started from
    error,             \* the store shows an error, with a button to load again
    removed,           \* the user removed the installed server
    left               \* what the bounds still allow

taskVars == <<draft, draftFile, active, cancel, task, marker, prefixBy, closing>>
storeVars == <<view, edits, queue, inflight, running, dirty, register, undo, load, error, removed>>
installVars == <<draft, draftFile, active, cancel, task, marker, prefixBy, closing, confirm,
                 servers, view, edits, queue, inflight, running, dirty, register, undo, load,
                 error, removed, left>>

NoUndo == [kind |-> "none", wait |-> "now", id |-> Mine, before |-> {}, at |-> 0]
NoLoad == [st |-> "none", first |-> FALSE, value |-> {}, at |-> 0]
FirstLoad == [NoLoad EXCEPT !.st = "sent", !.first = TRUE]
InstallInit ==
    /\ draftFile = [status |-> "pending", bound |-> FALSE] /\ draft = Unread
    /\ active = FALSE /\ cancel = FALSE /\ task = "none" /\ marker = FALSE
    /\ prefixBy = "none" /\ confirm = "none" /\ closing = FALSE
    /\ servers = {Mine}
    /\ view = {} /\ edits = 0 /\ queue = <<>> /\ inflight = {} /\ running = FALSE /\ dirty = FALSE
    /\ register = "none" /\ undo = NoUndo /\ error = FALSE /\ removed = FALSE
    /\ load = FirstLoad                               \* useAppInit
    /\ left = [runs |-> MaxRuns, edits |-> MaxEdits, faults |-> MaxFaults]

Spend(what) == left[what] > 0 /\ left' = [left EXCEPT ![what] = @ - 1]

(* ------------------------------- drafts ------------------------------- *)

(* transaction: the first access after a start recovers a run that was cut off *)
Recovered(d) == IF d.status \in ActiveStatus THEN [d EXCEPT !.status = "interrupted"] ELSE d
Current == IF draft = Unread THEN Recovered(draftFile) ELSE draft
(* update: the file first, then the memory *)
Update(d) == draft' = d /\ draftFile' = d
UpdateFails == Spend("faults") /\ draft' = Current /\ draftFile' = Current

(* reserve, under the guard a confirmation holds.  Mutant: without that guard. *)
ReserveUnguarded ==
    /\ ~closing /\ ~active
    /\ Current.status \in Restartable /\ Spend("runs")
    /\ Update([Current EXCEPT !.status = "preparing"])
    /\ active' = TRUE /\ cancel' = FALSE /\ task' = "prepare"
    /\ UNCHANGED <<marker, prefixBy, confirm, closing, servers, storeVars>>
Reserve ==
    /\ confirm = "none" /\ ~closing /\ ~active
    /\ Current.status \in Restartable /\ Spend("runs")
    /\ Update([Current EXCEPT !.status = "preparing"])
    /\ active' = TRUE /\ cancel' = FALSE /\ task' = "prepare"
    /\ UNCHANGED <<marker, prefixBy, confirm, closing, servers, storeVars>>
CancelRun ==
    /\ active /\ ~cancel /\ cancel' = TRUE
    /\ \/ Update([draft EXCEPT !.status = "stopping"]) /\ UNCHANGED left
       \/ UpdateFails
    /\ UNCHANGED <<active, task, marker, prefixBy, confirm, closing, servers, storeVars>>
RequestShutdown ==
    /\ ~closing /\ closing' = TRUE /\ cancel' = (cancel \/ active)
    /\ UNCHANGED <<draft, draftFile, active, task, marker, prefixBy, confirm, servers, storeVars, left>>

(* run: what ends it, with the status it records; the guards go with it *)
EndTask(status) ==
    /\ task' = "ended" /\ prefixBy' = IF prefixBy = "task" THEN "none" ELSE prefixBy
    /\ \/ Update([draft EXCEPT !.status = status]) /\ UNCHANGED left
       \/ Spend("faults") /\ (Update(draft) \/ Update([draft EXCEPT !.status = "failed"]))
TaskStep(from) == task = from /\ UNCHANGED <<active, cancel, closing, confirm, servers, storeVars>>
(* the runtime and the prefix are prepared to the end, cancelled or not *)
Prepare ==
    /\ TaskStep("prepare")
    /\ \/ EndTask(IF cancel THEN "interrupted" ELSE "failed")
       \/ ~cancel /\ task' = "guard" /\ UNCHANGED <<draft, draftFile, prefixBy, left>>
    /\ UNCHANGED marker
TakePrefix ==
    /\ TaskStep("guard")
    /\ \/ prefixBy = "none" /\ prefixBy' = "task" /\ task' = "protect" /\ UNCHANGED <<draft, draftFile, left>>
       \/ EndTask("failed")
    /\ UNCHANGED marker
(* write_protection and the binding of the draft, before any installer code *)
Protect ==
    /\ TaskStep("protect")
    /\ \/ /\ marker' = TRUE /\ task' = "spawn" /\ Update([draft EXCEPT !.bound = TRUE])
          /\ UNCHANGED <<prefixBy, left>>
       \/ marker' \in {marker, TRUE} /\ EndTask("failed")
SpawnInstaller ==
    /\ TaskStep("spawn")
    /\ \/ cancel /\ EndTask("interrupted")
       \/ ~cancel /\ EndTask("failed")
       \/ /\ ~cancel /\ task' = "wait"
          /\ Update([draft EXCEPT !.status = IF @ = "stopping" THEN @ ELSE "running"])
          /\ UNCHANGED <<prefixBy, left>>
    /\ UNCHANGED marker
(* wait_installer: the wizard and the programs it left, or the cancellation *)
InstallerExits ==
    /\ TaskStep("wait") /\ ~cancel
    /\ (EndTask("awaiting") \/ EndTask("failed")) /\ UNCHANGED marker
(* Mutant: the wait for the programs of the prefix ignores the cancellation. *)
InstallerUncancelled == TaskStep("wait") /\ ~cancel /\ EndTask("interrupted") /\ UNCHANGED marker
InstallerCancelled ==
    /\ TaskStep("wait") /\ cancel /\ EndTask("interrupted") /\ UNCHANGED marker
(* Drop of ActiveInstallation: memory is set even when the file cannot be.
   Mutant: the status of a run that ended without recording one is left alone. *)
DropKeepsStatus ==
    /\ task = "ended" /\ task' = "none" /\ active' = FALSE /\ UNCHANGED <<draft, draftFile, left>>
    /\ UNCHANGED <<cancel, marker, prefixBy, confirm, closing, servers, storeVars>>
DropActive ==
    /\ task = "ended" /\ task' = "none" /\ active' = FALSE
    /\ \/ Update(Recovered(draft)) /\ UNCHANGED left
       \/ Spend("faults") /\ draft' = Recovered(draft) /\ UNCHANGED draftFile
    /\ UNCHANGED <<cancel, marker, prefixBy, confirm, closing, servers, storeVars>>

TaskRuns ==
    \/ Prepare \/ TakePrefix \/ Protect \/ SpawnInstaller \/ InstallerCancelled \/ DropActive

(* ---------------------------- confirmation ---------------------------- *)

ConfirmFails == confirm' = "none" /\ register' = "recover"
(* confirm: registerInstallation calls it from its turn of the disk queue *)
ConfirmCall ==
    /\ register = "queued" /\ Head(queue) = "register"
    /\ IF Current.status \in {"awaiting", "completed"} /\ ~active
          THEN confirm' = "checked" /\ register' = "confirming"
          ELSE ConfirmFails
    /\ UNCHANGED <<taskVars, servers, view, edits, queue, inflight, running, dirty, undo, load,
                   error, removed, left>>
ConfirmGuard ==
    /\ confirm = "checked"
    /\ \/ prefixBy = "none" /\ prefixBy' = "confirm" /\ confirm' = "guarded" /\ UNCHANGED register
       \/ ConfirmFails /\ UNCHANGED prefixBy
    /\ UNCHANGED <<draft, draftFile, active, cancel, task, marker, closing, servers, view, edits,
                   queue, inflight, running, dirty, undo, load, error, removed, left>>
(* write_protection and ServerRepository::insert_installed *)
ConfirmInsert ==
    /\ confirm = "guarded"
    /\ \/ /\ marker' = TRUE /\ servers' = servers \union {Installed} /\ confirm' = "inserted"
          /\ UNCHANGED <<prefixBy, register, left>>
       \/ /\ Spend("faults") /\ prefixBy' = "none" /\ ConfirmFails /\ UNCHANGED <<marker, servers>>
    /\ UNCHANGED <<draft, draftFile, active, cancel, task, closing, view, edits, queue, inflight,
                   running, dirty, undo, load, error, removed>>
ConfirmComplete ==
    /\ confirm = "inserted" /\ prefixBy' = "none"
    /\ \/ /\ Update([Current EXCEPT !.status = "completed"])
          /\ confirm' = "none" /\ register' = "settle" /\ UNCHANGED left
       \/ UpdateFails /\ ConfirmFails
    /\ UNCHANGED <<active, cancel, task, marker, closing, servers, view, edits, queue, inflight,
                   running, dirty, undo, load, error, removed>>

(* -------------------------------- store ------------------------------- *)

backend == <<taskVars, confirm>>
Ready == ~load.first
(* LatestSnapshotWriter.write with q in front *)
Write(q) ==
    IF running THEN dirty' = TRUE /\ queue' = q /\ UNCHANGED running
               ELSE running' = TRUE /\ dirty' = FALSE /\ queue' = Append(q, "save")
Waits == IF running THEN "next" ELSE "now"
EditOf(kind, id) ==
    [kind |-> kind, wait |-> Waits, id |-> id, before |-> view, at |-> edits + 1]
(* addServer, removeServer and updateServer *)
Edit(kind, id, shown) ==
    /\ Ready /\ undo.kind = "none" /\ Spend("edits")
    /\ view' = shown /\ edits' = edits + 1 /\ Write(queue)
    /\ undo' = EditOf(kind, id)
    /\ removed' = (removed \/ (Installed \in view /\ Installed \notin shown))
    /\ error' = FALSE
    /\ UNCHANGED <<backend, servers, inflight, register, load>>
AddServer == Extra \notin view /\ Edit("add", Extra, view \union {Extra})
RemoveServer == \E id \in view : Edit("remove", id, view \ {id})
UpdateServer == \E id \in view : Edit("update", id, view)

(* registerInstallation drains the earlier writes first *)
RegisterInstallation ==
    /\ Ready /\ register = "none" /\ Current.status \in {"awaiting", "completed"}
    /\ Installed \notin view
    /\ Write(queue) /\ register' = IF running THEN "behind" ELSE "flushing"
    /\ UNCHANGED <<backend, servers, view, edits, inflight, undo, load, error, removed, left>>
(* a save reads the store when its turn comes *)
SaveStarts ==
    /\ queue # <<>> /\ Head(queue) = "save" /\ queue' = <<"saving">> \o Tail(queue)
    /\ inflight' = view
    /\ UNCHANGED <<backend, servers, view, edits, running, dirty, register, undo, load, error, removed, left>>
Drained(q) == IF dirty THEN Append(q, "save") ELSE q
SaveLands ==
    /\ queue # <<>> /\ Head(queue) = "saving" /\ servers' = inflight
    /\ queue' = <<"saved">> \o Tail(queue)
    /\ UNCHANGED <<backend, view, edits, inflight, running, dirty, register, undo, load, error, removed, left>>
(* drain: the waiters of this revision are resolved; a newer one is saved next *)
SaveSettles ==
    /\ queue # <<>> /\ Head(queue) = "saved"
    /\ queue' = Drained(Tail(queue)) \o (IF register = "flushing" THEN <<"register">> ELSE <<>>)
    /\ running' = dirty /\ dirty' = FALSE
    /\ register' = CASE register = "flushing" -> "queued"
                     [] register = "behind" -> "flushing"
                     [] OTHER -> register
    /\ undo' = IF undo.wait = "now" THEN NoUndo ELSE [undo EXCEPT !.wait = "now"]
    /\ UNCHANGED <<backend, servers, view, edits, inflight, load, error, removed, left>>
(* a save that fails rejects every waiter; addServer and removeServer undo *)
Undone ==
    CASE undo.kind = "add" -> view \ {undo.id}
      [] undo.kind = "remove" /\ undo.at = edits -> undo.before
      [] OTHER -> view
SaveFails ==
    /\ queue # <<>> /\ Head(queue) = "saving" /\ Spend("faults")
    /\ queue' = Tail(queue) /\ running' = FALSE /\ dirty' = FALSE
    /\ register' = IF register \in {"flushing", "behind"} THEN "none" ELSE register
    /\ view' = Undone /\ undo' = NoUndo /\ removed' = (removed /\ Installed \notin Undone)
    /\ error' = (error \/ (undo.kind # "none" /\ undo.at = edits))
    /\ UNCHANGED <<backend, servers, edits, inflight, load>>
(* the confirmation answered: the store takes the server over before the queue
   goes on.  Mutant: only a successful answer is taken over. *)
RegisterForgets ==
    /\ register = "recover" /\ register' = "none" /\ queue' = Tail(queue)
    /\ UNCHANGED <<backend, servers, view, edits, running, dirty, inflight, undo, load, error, removed, left>>
RegisterRecovers ==
    /\ register = "recover" /\ register' = "none" /\ queue' = Tail(queue)
    /\ \/ /\ Installed \in servers /\ Installed \notin view
          /\ view' = view \union {Installed} /\ edits' = edits + 1 /\ UNCHANGED left
       \/ (Installed \notin servers \/ Installed \in view) /\ UNCHANGED <<view, edits, left>>
       \/ Spend("faults") /\ UNCHANGED <<view, edits>>
    /\ UNCHANGED <<backend, servers, running, dirty, inflight, undo, load, error, removed>>
RegisterSettles ==
    /\ register = "settle" /\ register' = "none"
    /\ view' = view \union {Installed} /\ edits' = edits + 1 /\ Write(Tail(queue))
    /\ error' = FALSE /\ UNCHANGED <<backend, servers, inflight, undo, load, removed, left>>

(* loadServers, at the start and from the button an error shows *)
LoadServers ==
    /\ load.st = "none" /\ error /\ error' = FALSE
    /\ load' = [NoLoad EXCEPT !.st = "sent", !.at = edits]
    /\ UNCHANGED <<backend, servers, view, edits, queue, inflight, running, dirty, register, undo,
                   removed, left>>
LoadReads ==
    /\ load.st = "sent" /\ load' = [load EXCEPT !.st = "read", !.value = servers]
    /\ UNCHANGED <<backend, servers, view, edits, queue, inflight, running, dirty, register, undo,
                   error, removed, left>>
LoadApplies ==
    /\ load.st = "read" /\ load' = NoLoad
    /\ view' = IF load.at = edits THEN load.value ELSE view
    /\ UNCHANGED <<backend, servers, edits, queue, inflight, running, dirty, register, undo,
                   error, removed, left>>

(* the launcher ends, in order or not, and starts again *)
RestartLauncher ==
    /\ Spend("faults")
    /\ draft' = Unread /\ active' = FALSE /\ cancel' = FALSE /\ task' = "none" /\ prefixBy' = "none"
    /\ confirm' = "none" /\ closing' = FALSE
    /\ view' = {} /\ edits' = 0 /\ queue' = <<>> /\ inflight' = {} /\ running' = FALSE
    /\ dirty' = FALSE /\ register' = "none" /\ undo' = NoUndo
    /\ load' = FirstLoad /\ error' = FALSE /\ removed' = (removed /\ Installed \notin servers)
    /\ UNCHANGED <<draftFile, marker, servers>>

InstallNext ==
    \/ Reserve \/ CancelRun \/ RequestShutdown \/ InstallerExits \/ TaskRuns
    \/ ConfirmCall \/ ConfirmGuard \/ ConfirmInsert \/ ConfirmComplete
    \/ AddServer \/ RemoveServer \/ UpdateServer \/ RegisterInstallation
    \/ SaveStarts \/ SaveLands \/ SaveSettles \/ SaveFails \/ RegisterRecovers \/ RegisterSettles
    \/ LoadServers \/ LoadReads \/ LoadApplies
    \/ RestartLauncher

(* ----------------------------- properties ----------------------------- *)

InstallTypeOK ==
    /\ draft.status \in ActiveStatus \union Restartable \union {"completed", "unread"}
    /\ draftFile.status \in ActiveStatus \union Restartable \union {"completed"}
    /\ task \in {"none", "prepare", "guard", "protect", "spawn", "wait", "ended"}
    /\ prefixBy \in {"none", "task", "confirm"}
    /\ confirm \in {"none", "checked", "guarded", "inserted"}
    /\ servers \in SUBSET Ids /\ view \in SUBSET Ids
    /\ register \in {"none", "behind", "flushing", "queued", "confirming", "recover", "settle"}

(* The server a confirmation wrote to servers.json stays there until the user
   removes it: no save of the store that was prepared, queued or under way before
   takes it out again, also when the confirmation answered with an error
   (serializeDiskOperation, registerInstallation). *)
InstalledStays ==
    [][(Installed \in servers /\ Installed \notin servers') => removed]_installVars

(* A completed installation is final: its prefix is protected and no run of its
   installer is under way or admitted any more (confirm, reserve). *)
CompletedIsFinal ==
    draft.status = "completed" => /\ ~active /\ task = "none"
                                  /\ draft.bound /\ marker

(* No draft says that it runs without a task that owns the run, whatever write
   failed and wherever the launcher was cut off (ActiveInstallation, transaction). *)
NoGhostRun == draft.status \in ActiveStatus => active

(* A draft can be trusted across failed writes, cancellations and restarts: what is
   completed is final, and what says that it runs is run by a task (repository.rs). *)
DraftsAreSound == CompletedIsFinal /\ NoGhostRun

(* A cancelled run ends, cleans up and gives the draft free. *)
CancelEnds == (active /\ cancel) ~> ~active

InstallSpec == InstallInit /\ [][InstallNext]_installVars /\ WF_installVars(TaskRuns)
=============================================================================
