------------------------------- MODULE Updater -------------------------------
(***************************************************************************)
(* tools/updater: the lease of the updater (session.rs), the slot of its   *)
(* backend (backend.rs), the activation of the AppImage (activate.rs) and  *)
(* the relaunch, with windows that ask for a check, an installation or a   *)
(* relaunch at any time and waiters that go away.                          *)
(* The plugin that finds, downloads and verifies a release is external.    *)
(***************************************************************************)
EXTENDS Naturals, FiniteSets

CONSTANTS
    Operations,     \* operations a window can have asked for at a time
    MaxReleases,    \* releases published while the launcher runs
    MaxRequests,    \* checks and installations asked for
    MaxRestarts     \* crashes and relaunches

(* A value that no window's operation is stands for a free gate. *)
ASSUME OperationsAssumption == "none" \notin Operations

NoRelease == 0
Releases == 1..MaxReleases
Retry == {"available", "clients active"}        \* phases that keep a checked candidate

VARIABLES
    phase,          \* UpdatePhase; Failed is split by its class
    gate,           \* op: the operation that owns the guard; NoOperation: free
    pc,             \* where each operation stands
    owned,          \* the candidate an operation moved out of the slot
    slot,           \* the candidate of the backend
    image,          \* the AppImage on disk: the release it is
    currentVersion, \* the release this process was started from
    published,      \* the newest release
    busyGame, busyInstall,      \* a client runs; an installation runs
    gameClosed, installClosed,  \* their admission is closed for a relaunch
    relaunch,       \* "none", "half" (the game is closed) or "reserved"
    updates         \* what the bounds still allow

NoOperation == "none"
updaterVars == <<phase, gate, pc, owned, slot, image, currentVersion, published, busyGame, busyInstall,
                 gameClosed, installClosed, relaunch, updates>>
world == <<currentVersion, published, busyGame, busyInstall, gameClosed, installClosed, relaunch>>

UpdaterInit ==
    /\ phase = "idle" /\ gate = NoOperation /\ pc = [o \in Operations |-> "none"]
    /\ owned = [o \in Operations |-> NoRelease] /\ slot = NoRelease
    /\ image = NoRelease /\ currentVersion = NoRelease
    /\ published = NoRelease /\ busyGame = FALSE /\ busyInstall = FALSE
    /\ gameClosed = FALSE /\ installClosed = FALSE /\ relaunch = "none"
    /\ updates = [requests |-> MaxRequests, restarts |-> MaxRestarts]

Uses(what) == updates[what] > 0 /\ updates' = [updates EXCEPT ![what] = @ - 1]
(* the body of an operation ends: the guard goes with its task *)
Finish(o, result) ==
    /\ phase' = result /\ pc' = [pc EXCEPT ![o] = "none"] /\ gate' = NoOperation
Goto(o, where) == pc' = [pc EXCEPT ![o] = where]

(* run_owned: an operation that does not get the gate answers with a snapshot.
   Its waiter may go away at any time; the task keeps the guard. *)
RunOwned(o) ==
    /\ gate = NoOperation /\ pc[o] = "none" /\ Uses("requests")
    /\ gate' = o /\ \E kind \in {"check", "install"} : Goto(o, kind)
    /\ UNCHANGED <<phase, owned, slot, image, world>>
(* check_owned *)
CheckBegins(o) ==
    /\ pc[o] = "check"
    /\ \/ phase = "ready" /\ Finish(o, "ready") /\ UNCHANGED slot
       \/ phase # "ready" /\ slot' = NoRelease /\ Finish(o, "unavailable")
       \/ phase # "ready" /\ slot' = NoRelease /\ phase' = "checking" /\ Goto(o, "asked")
          /\ UNCHANGED gate
    /\ UNCHANGED <<owned, image, world, updates>>
(* backend.check fills the slot, then the phase is published.  It compares with the
   version of the process, which an activation leaves behind the image. *)
CheckAnswers(o) ==
    /\ pc[o] = "asked"
    /\ \/ slot' = published /\ published > currentVersion /\ Goto(o, "found")
       \/ slot' = NoRelease /\ published <= currentVersion /\ Goto(o, "current")
       \/ slot' = NoRelease /\ Goto(o, "check failed")
    /\ UNCHANGED <<phase, gate, owned, image, world, updates>>
CheckEnds(o) ==
    /\ \/ pc[o] = "found" /\ Finish(o, "available") /\ UNCHANGED slot
       \/ pc[o] = "current" /\ slot' = NoRelease /\ Finish(o, "current")
       \/ pc[o] = "check failed" /\ slot' = NoRelease /\ Finish(o, "failed")
    /\ UNCHANGED <<owned, image, world, updates>>

(* install_owned: only a checked candidate is installed; a census that fails
   clears it, one that finds clients keeps it *)
InstallBegins(o) ==
    /\ pc[o] = "install"
    /\ \/ phase = "ready" /\ Finish(o, "ready") /\ UNCHANGED slot
       \/ phase \notin Retry \union {"ready"} /\ slot' = NoRelease /\ Finish(o, "failed")
       \/ phase \in Retry /\ Goto(o, "census") /\ UNCHANGED <<phase, gate, slot>>
    /\ UNCHANGED <<owned, image, world, updates>>
Census(o) ==
    /\ pc[o] = "census"
    /\ \/ slot' = NoRelease /\ Finish(o, "failed") /\ UNCHANGED owned
       \/ busyGame /\ Finish(o, "clients active") /\ UNCHANGED <<slot, owned>>
       \/ /\ ~busyGame /\ slot # NoRelease
          /\ owned' = [owned EXCEPT ![o] = slot] /\ slot' = NoRelease
          /\ phase' = "downloading" /\ Goto(o, "download") /\ UNCHANGED gate
       \/ ~busyGame /\ slot = NoRelease /\ Finish(o, "failed") /\ UNCHANGED <<slot, owned>>
    /\ UNCHANGED <<image, world, updates>>
Consumed(o) == owned' = [owned EXCEPT ![o] = NoRelease]
(* Mutant: the candidate that clients turned down is not returned to its slot. *)
DownloadedAndDropped(o) ==
    /\ pc[o] = "download"
    /\ \/ Consumed(o) /\ Finish(o, "failed")
       \/ busyGame /\ Consumed(o) /\ Finish(o, "clients active")
       \/ ~busyGame /\ Goto(o, "activate") /\ UNCHANGED <<phase, gate, owned>>
    /\ UNCHANGED <<slot, image, world, updates>>
Downloaded(o) ==
    /\ pc[o] = "download"
    /\ \/ Consumed(o) /\ Finish(o, "failed") /\ UNCHANGED slot
       \/ busyGame /\ slot = NoRelease /\ slot' = owned[o] /\ Consumed(o) /\ Finish(o, "clients active")
       \/ busyGame /\ slot # NoRelease /\ Consumed(o) /\ Finish(o, "failed") /\ UNCHANGED slot
       \/ ~busyGame /\ Goto(o, "activate") /\ UNCHANGED <<phase, gate, owned, slot>>
    /\ UNCHANGED <<image, world, updates>>
(* activate_appimage: a temporary file, then one rename; an error before it leaves
   the old image, one after it the new *)
Activate(o) ==
    /\ pc[o] = "activate" /\ Consumed(o)
    /\ \/ image' = owned[o] /\ Goto(o, "activated") /\ UNCHANGED <<phase, gate>>
       \/ image' \in {image, owned[o]} /\ Finish(o, "failed")
    /\ UNCHANGED <<slot, world, updates>>
InstallEnds(o) ==
    /\ pc[o] = "activated" /\ slot' = NoRelease /\ Finish(o, "ready")
    /\ UNCHANGED <<owned, image, world, updates>>

(* reserve_relaunch: each owner closes its admission only when idle; if the
   installations refuse, the guard of the game is dropped again *)
CloseGame ==
    /\ relaunch = "none" /\ phase = "ready" /\ ~busyGame /\ ~gameClosed
    /\ gameClosed' = TRUE /\ relaunch' = "half"
    /\ UNCHANGED <<phase, gate, pc, owned, slot, image, currentVersion, published, busyGame, busyInstall,
                   installClosed, updates>>
(* Mutant: a refusal leaves the game closed. *)
CloseInstallationsKeepsGame ==
    /\ relaunch = "half"
    /\ \/ ~busyInstall /\ installClosed' = TRUE /\ relaunch' = "reserved"
       \/ busyInstall /\ relaunch' = "none" /\ UNCHANGED installClosed
    /\ UNCHANGED <<phase, gate, pc, owned, slot, image, currentVersion, published, busyGame, busyInstall,
                   gameClosed, updates>>
CloseInstallations ==
    /\ relaunch = "half"
    /\ \/ ~busyInstall /\ installClosed' = TRUE /\ relaunch' = "reserved" /\ UNCHANGED gameClosed
       \/ busyInstall /\ gameClosed' = FALSE /\ relaunch' = "none" /\ UNCHANGED installClosed
    /\ UNCHANGED <<phase, gate, pc, owned, slot, image, currentVersion, published, busyGame, busyInstall,
                   updates>>

(* the clients, the installations and the release server go on meanwhile *)
WorldMoves ==
    /\ \/ busyGame' = ~busyGame /\ (busyGame \/ ~gameClosed) /\ UNCHANGED <<busyInstall, published>>
       \/ /\ busyInstall' = ~busyInstall /\ (busyInstall \/ ~installClosed)
          /\ UNCHANGED <<busyGame, published>>
       \/ published < MaxReleases /\ published' = published + 1 /\ UNCHANGED <<busyGame, busyInstall>>
    /\ UNCHANGED <<phase, gate, pc, owned, slot, image, currentVersion, gameClosed, installClosed, relaunch,
                   updates>>
(* app.restart, or a crash *)
StartAgain ==
    /\ Uses("restarts")
    /\ phase' = "idle" /\ gate' = NoOperation /\ pc' = [o \in Operations |-> "none"]
    /\ owned' = [o \in Operations |-> NoRelease] /\ slot' = NoRelease
    /\ gameClosed' = FALSE /\ installClosed' = FALSE /\ relaunch' = "none"
    /\ busyGame' = FALSE /\ busyInstall' = FALSE /\ currentVersion' = image
    /\ UNCHANGED <<image, published>>

UpdaterStep(o) ==
    \/ CheckBegins(o) \/ CheckAnswers(o) \/ CheckEnds(o)
    \/ InstallBegins(o) \/ Census(o) \/ Downloaded(o) \/ Activate(o) \/ InstallEnds(o)
UpdaterNext ==
    \/ \E o \in Operations : RunOwned(o) \/ UpdaterStep(o)
    \/ CloseGame \/ CloseInstallations \/ WorldMoves \/ StartAgain

(* ----------------------------- properties ----------------------------- *)

UpdaterTypeOK ==
    /\ phase \in Retry \union {"idle", "checking", "unavailable", "current", "failed",
                               "downloading", "ready"}
    /\ gate \in Operations \union {NoOperation}
    /\ slot \in Releases \union {NoRelease} /\ image \in Releases \union {NoRelease}
    /\ currentVersion \in Releases \union {NoRelease}
    /\ relaunch \in {"none", "half", "reserved"}

(* Between operations a candidate waits exactly when the phase offers one: none is left
   over, none that clients turned down is lost (run_owned, install_owned).  It is newer
   than the process and never older than the image, so no installation takes a step
   back.  It may be the image: after an activation that failed past its rename the next
   check of the same process offers that release once more, and it can be installed a
   second time (backend.rs compares with the running version). *)
SlotMatchesPhase ==
    gate = NoOperation => /\ (slot # NoRelease) = (phase \in Retry)
                          /\ \A o \in Operations : owned[o] = NoRelease
                          /\ slot = NoRelease \/ (slot > currentVersion /\ slot >= image)

(* A relaunch is reserved only over an installed release, with no client and no
   installation that runs or can be admitted; one that is refused closes nothing
   (reserve_relaunch). *)
RelaunchIsSafe ==
    /\ relaunch = "reserved" => /\ phase = "ready" /\ image # NoRelease
                                /\ ~busyGame /\ ~busyInstall /\ gameClosed /\ installClosed
    /\ relaunch = "none" => ~gameClosed /\ ~installClosed
(* A release downloaded once is kept until it is installed or replaced, whoever asks and whoever
   stops waiting, and a relaunch starts with nothing left running. *)
UpdateIsSound == SlotMatchesPhase /\ RelaunchIsSafe

UpdaterSpec == UpdaterInit /\ [][UpdaterNext]_updaterVars
=============================================================================
