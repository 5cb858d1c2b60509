---------------------------- MODULE ServicesProofs ----------------------------
(* What the services around the game promise, for every number of runs, requests, clients and
   faults: the drafts of the installations, the updater, the link to a supervisor, the memory
   scanner, the Discord presence and the stores of the window. They share no state, so each
   has an invariant of its own. *)
EXTENDS Installations, Updater, SessionLink, AddressScanner, Presence, Window, SequenceTheorems,
        FiniteSetTheorems, WellFoundedInduction, TLAPS

(* ------------------------------- the drafts ------------------------------- *)

DraftStatus == ActiveStatus \union Restartable \union {"completed"}
Drafts == [status: DraftStatus, bound: BOOLEAN]

(* What can be confirmed was prepared to the end: its prefix is bound and protected. *)
Prepared(d) == d.status \in {"awaiting", "completed"} => d.bound /\ marker

DraftInv ==
    /\ draft \in Drafts \union {Unread} /\ draftFile \in Drafts
    /\ active \in BOOLEAN /\ marker \in BOOLEAN
    /\ active <=> task # "none"
    /\ active => draft # Unread
    /\ draft.status \in ActiveStatus => active
    /\ draft.status = "completed" => ~active
    /\ Prepared(draft) /\ Prepared(draftFile)
    /\ task \in {"spawn", "wait"} => draft.bound /\ marker

(* A confirmation holds off every run of the installer, and works on a prepared draft. *)
ConfirmInv ==
    confirm # "none" => ~active /\ Current.status \in {"awaiting", "completed"}

InstallInv == DraftInv /\ ConfirmInv

(* What the commands read: the draft in memory, or the file with an active draft turned interrupted. *)
LEMMA CurrentIs ==
    ASSUME DraftInv
    PROVE  /\ Current \in Drafts /\ Prepared(Current)
           /\ Current.status \in ActiveStatus => active
           /\ Current.status = "completed" => ~active
           /\ draft # Unread => Current = draft
           /\ Current \in {draft, draftFile} \/ Current = [draftFile EXCEPT !.status = "interrupted"]
  <1>1. \A d \in Drafts : /\ Recovered(d) \in Drafts /\ Recovered(d).status \notin ActiveStatus
                          /\ Prepared(d) => Prepared(Recovered(d))
                          /\ Recovered(d) = d \/ Recovered(d) = [d EXCEPT !.status = "interrupted"]
    BY DEF Recovered, Drafts, DraftStatus, ActiveStatus, Restartable, Prepared
  <1>2. CASE draft = Unread
    BY <1>1, <1>2 DEF Current, DraftInv
  <1>3. CASE draft # Unread
    BY <1>3 DEF Current, DraftInv
  <1> QED BY <1>2, <1>3

(* What the steps leave alone: nothing the invariant reads moves. *)
LEMMA InstallFrame ==
    ASSUME InstallInv, UNCHANGED <<draft, draftFile, active, task, marker, confirm>>
    PROVE  InstallInv'
  BY DEF InstallInv, DraftInv, ConfirmInv, Prepared, Current

(* A task ends: what it records is prepared, and only a run that waited can be confirmed. *)
LEMMA EndTaskKeeps ==
    ASSUME InstallInv, NEW status \in {"interrupted", "failed", "awaiting"}, EndTask(status),
           status = "awaiting" => task = "wait",
           task # "none", marker' \in {marker, TRUE}, UNCHANGED <<active, confirm>>
    PROVE  InstallInv'
  <1>1. active /\ draft \in Drafts /\ Prepared(draft) /\ Prepared(draftFile) /\ draftFile \in Drafts
    BY DEF InstallInv, DraftInv
  <1>2. confirm' = "none" /\ active' /\ task' = "ended"
    BY <1>1 DEF InstallInv, ConfirmInv, EndTask
  <1>3. \E s \in {draft.status, status, "failed"} :
            draft' = [draft EXCEPT !.status = s] /\ draftFile' = draft'
    <2>1. draft = [draft EXCEPT !.status = draft.status]
      BY <1>1 DEF Drafts
    <2> QED BY <2>1 DEF EndTask, Update
  <1>4. PICK s \in {draft.status, status, "failed"} :
            draft' = [draft EXCEPT !.status = s] /\ draftFile' = draft'
    BY <1>3
  <1>5. /\ draft' \in Drafts /\ draft'.status = s /\ draft'.bound = draft.bound
        /\ s # "completed"
    BY <1>1, <1>4 DEF Drafts, DraftStatus, Restartable, ActiveStatus, InstallInv, DraftInv
  <1>6. marker' \in BOOLEAN /\ (marker => marker')
    BY DEF InstallInv, DraftInv
  <1>7. Prepared(draft)'
    <2>1. CASE s = draft.status
      BY <1>1, <1>5, <1>6, <2>1 DEF Prepared
    <2>2. CASE s = "failed"
      BY <1>5, <2>2 DEF Prepared
    <2>3. CASE s = status
      <3>1. CASE status = "awaiting"
        BY <1>5, <1>6, <3>1 DEF Prepared, InstallInv, DraftInv
      <3> QED BY <1>5, <2>3, <3>1 DEF Prepared
    <2> QED BY <2>1, <2>2, <2>3
  <1>8. draft' # Unread
    BY <1>5 DEF Drafts, DraftStatus, ActiveStatus, Restartable, Unread
  <1> QED BY <1>2, <1>4, <1>5, <1>6, <1>7, <1>8 DEF InstallInv, DraftInv, ConfirmInv, Prepared

(* An update writes a prepared draft; the launcher knows it from then on. *)
LEMMA UpdateKeeps ==
    ASSUME InstallInv, NEW d \in Drafts, Update(d), UNCHANGED marker, active' \in BOOLEAN,
           active' <=> task' # "none",
           d.status \in ActiveStatus => active', d.status = "completed" => ~active',
           Prepared(d), task' \in {"spawn", "wait"} => d.bound /\ marker,
           confirm' # "none" => ~active' /\ d.status \in {"awaiting", "completed"}
    PROVE  InstallInv'
  <1>1. d # Unread /\ draft' = d /\ draftFile' = d
    BY DEF Drafts, DraftStatus, ActiveStatus, Restartable, Unread, Update
  <1>2. Prepared(draft)' /\ Prepared(draftFile)'
    BY <1>1 DEF Prepared
  <1>3. Current' = d
    BY <1>1 DEF Current
  <1> QED BY <1>1, <1>2, <1>3 DEF InstallInv, DraftInv, ConfirmInv

(* The service starts without a draft that runs. *)
LEMMA InstallStart == InstallInit => InstallInv
  <1> SUFFICES ASSUME InstallInit
               PROVE  InstallInv
    OBVIOUS
  <1>1. /\ draftFile \in Drafts /\ draftFile.status = "pending"
        /\ draft = Unread /\ draft.status = "unread"
    BY DEF InstallInit, Drafts, DraftStatus, Restartable, Unread
  <1>2. /\ active = FALSE /\ marker = FALSE /\ task = "none" /\ confirm = "none"
    BY DEF InstallInit
  <1>3. Prepared(draft) /\ Prepared(draftFile) /\ draft.status \notin ActiveStatus
    BY <1>1 DEF Prepared, ActiveStatus
  <1> QED BY <1>1, <1>2, <1>3 DEF InstallInv, DraftInv, ConfirmInv

(* What the task of a draft does. *)
LEMMA TaskStepsKeep ==
    ASSUME InstallInv, TaskRuns \/ InstallerExits
    PROVE  InstallInv'
  <1>1. ASSUME NEW from \in {"prepare", "guard", "protect", "spawn", "wait"}, TaskStep(from)
        PROVE  /\ task # "none" /\ active /\ draft \in Drafts /\ draft # Unread
               /\ confirm = "none" /\ confirm' = "none" /\ active' = active
               /\ Prepared(draft) /\ (draft.status = "completed" => ~active)
               /\ task = from
    <2>1. task = from /\ active' = active /\ confirm' = confirm
      BY <1>1 DEF TaskStep
    <2>2. active
      BY <1>1, <2>1 DEF InstallInv, DraftInv
    <2> QED BY <1>1, <2>1, <2>2 DEF InstallInv, DraftInv, ConfirmInv
  <1>2. CASE Prepare
    <2>1. TaskStep("prepare") /\ marker' = marker
      BY <1>2 DEF Prepare
    <2>2. CASE EndTask(IF cancel THEN "interrupted" ELSE "failed")
      BY <1>1, <2>1, <2>2, EndTaskKeeps
    <2>3. CASE task' = "guard" /\ UNCHANGED <<draft, draftFile>>
      BY <1>1, <2>1, <2>3 DEF InstallInv, DraftInv, ConfirmInv, Prepared
    <2> QED BY <1>2, <2>2, <2>3 DEF Prepare
  <1>3. CASE TakePrefix
    <2>1. TaskStep("guard") /\ marker' = marker
      BY <1>3 DEF TakePrefix
    <2>2. CASE EndTask("failed")
      BY <1>1, <2>1, <2>2, EndTaskKeeps
    <2>3. CASE task' = "protect" /\ UNCHANGED <<draft, draftFile>>
      BY <1>1, <2>1, <2>3 DEF InstallInv, DraftInv, ConfirmInv, Prepared
    <2> QED BY <1>3, <2>2, <2>3 DEF TakePrefix
  <1>4. CASE Protect
    <2>1. TaskStep("protect")
      BY <1>4 DEF Protect
    <2>2. CASE marker' \in {marker, TRUE} /\ EndTask("failed")
      BY <1>1, <2>1, <2>2, EndTaskKeeps DEF TaskStep
    <2>3. CASE marker' = TRUE /\ task' = "spawn" /\ Update([draft EXCEPT !.bound = TRUE])
      <3>1. /\ draft'.bound /\ draft'.status = draft.status /\ draft' \in Drafts
            /\ draftFile' = draft'
        BY <1>1, <2>1, <2>3 DEF Update, Drafts
      <3>2. draft' # Unread /\ Prepared(draft)' /\ Prepared(draftFile)'
        BY <2>3, <3>1 DEF Drafts, DraftStatus, ActiveStatus, Restartable, Unread, Prepared
      <3> QED BY <1>1, <2>1, <2>3, <3>1, <3>2 DEF InstallInv, DraftInv, ConfirmInv
    <2> QED BY <1>4, <2>2, <2>3 DEF Protect
  <1>5. CASE SpawnInstaller
    <2>1. TaskStep("spawn") /\ marker' = marker
      BY <1>5 DEF SpawnInstaller
    <2>2. ASSUME NEW s \in {"interrupted", "failed"}, EndTask(s)
          PROVE  InstallInv'
      BY <1>1, <2>1, <2>2, EndTaskKeeps
    <2>3. CASE /\ task' = "wait"
               /\ Update([draft EXCEPT !.status = IF @ = "stopping" THEN @ ELSE "running"])
      <3> DEFINE s == IF draft.status = "stopping" THEN draft.status ELSE "running"
                 d == [draft EXCEPT !.status = s]
      <3>1. s \in ActiveStatus /\ s \notin {"awaiting", "completed"}
        BY DEF ActiveStatus
      <3>2. Update(d)
        BY <2>3
      <3> HIDE DEF s
      <3>3. d \in Drafts /\ d.status = s /\ d.bound = draft.bound
        BY <1>1, <2>1, <3>1 DEF Drafts, DraftStatus
      <3>4. d.bound /\ marker /\ active'
        BY <1>1, <2>1, <3>3 DEF InstallInv, DraftInv
      <3>5. Prepared(d) /\ task' # "none" /\ confirm' = "none"
        BY <1>1, <2>1, <2>3, <3>4 DEF Prepared
      <3> HIDE DEF d
      <3>6. active' \in BOOLEAN
        BY <1>1, <2>1 DEF InstallInv, DraftInv
      <3> QED BY <2>1, <3>1, <3>2, <3>3, <3>4, <3>5, <3>6, UpdateKeeps
    <2> QED BY <1>5, <2>2, <2>3 DEF SpawnInstaller
  <1>6. CASE InstallerCancelled
    <2>1. TaskStep("wait") /\ marker' = marker /\ EndTask("interrupted")
      BY <1>6 DEF InstallerCancelled
    <2> QED BY <1>1, <2>1, EndTaskKeeps
  <1>7. CASE InstallerExits
    <2>1. TaskStep("wait") /\ marker' = marker
      BY <1>7 DEF InstallerExits
    <2>2. ASSUME NEW s \in {"awaiting", "failed"}, EndTask(s)
          PROVE  InstallInv'
      BY <1>1, <2>1, <2>2, EndTaskKeeps
    <2> QED BY <1>7, <2>2 DEF InstallerExits
  <1>8. CASE DropActive
    <2>1. /\ task = "ended" /\ task' = "none" /\ active' = FALSE /\ UNCHANGED <<marker, confirm>>
          /\ draft' = Recovered(draft) /\ draftFile' \in {draft', draftFile}
      BY <1>8 DEF DropActive, Update
    <2>2. draft \in Drafts /\ draft.status # "completed" /\ Prepared(draft) /\ confirm = "none"
      BY <2>1 DEF InstallInv, DraftInv, ConfirmInv
    <2>3. /\ draft' \in Drafts /\ draft'.status \notin ActiveStatus \union {"completed"}
          /\ draft' = draft \/ draft' = [draft EXCEPT !.status = "interrupted"]
      BY <2>1, <2>2 DEF Recovered, Drafts, DraftStatus, ActiveStatus, Restartable
    <2>4. Prepared(draft)' /\ draft' # Unread
      <3>1. draft' # Unread
        BY <2>3 DEF Drafts, DraftStatus, ActiveStatus, Restartable, Unread
      <3>2. CASE draft' = draft
        <4>1. draft'.status = draft.status /\ draft'.bound = draft.bound /\ marker' = marker
          BY <2>1, <3>2
        <4> QED BY <2>2, <3>1, <4>1 DEF Prepared
      <3>3. CASE draft' = [draft EXCEPT !.status = "interrupted"]
        <4>1. draft'.status = "interrupted"
          BY <2>2, <3>3 DEF Drafts
        <4> QED BY <3>1, <4>1 DEF Prepared
      <3> QED BY <2>3, <3>1, <3>2, <3>3
    <2>5. draftFile' \in Drafts /\ Prepared(draftFile)'
      BY <2>1, <2>3, <2>4 DEF InstallInv, DraftInv, Prepared
    <2> QED BY <2>1, <2>2, <2>3, <2>4, <2>5 DEF InstallInv, DraftInv, ConfirmInv
  <1> QED BY <1>2, <1>3, <1>4, <1>5, <1>6, <1>7, <1>8 DEF TaskRuns

(* A run is reserved or cancelled. *)
LEMMA ReserveKeeps ==
    ASSUME InstallInv, Reserve
    PROVE  InstallInv'
  <1> DEFINE d == [Current EXCEPT !.status = "preparing"]
  <1>1. Current \in Drafts
    BY CurrentIs DEF InstallInv
  <1>2. d \in Drafts /\ d.status = "preparing"
    BY <1>1 DEF Drafts, DraftStatus, ActiveStatus
  <1>3. /\ Update(d) /\ marker' = marker /\ active' = TRUE /\ task' = "prepare"
        /\ confirm' = "none"
    BY DEF Reserve
  <1> HIDE DEF d
  <1>4. Prepared(d) /\ d.status # "completed"
    BY <1>2 DEF Prepared
  <1>5. active' \in BOOLEAN /\ (active' <=> task' # "none") /\ task' \notin {"spawn", "wait"}
    BY <1>3
  <1> QED BY <1>2, <1>3, <1>4, <1>5, UpdateKeeps

(* A write of the draft that fails leaves what is known, read from the file if it was not. *)
LEMMA UpdateFailsKeeps ==
    ASSUME InstallInv, UpdateFails, UNCHANGED <<active, task, marker>>, confirm' \in {"none", confirm}
    PROVE  InstallInv'
  <1>1. /\ Current \in Drafts /\ Prepared(Current)
        /\ Current.status \in ActiveStatus => active
        /\ Current.status = "completed" => ~active
        /\ draft # Unread => Current = draft
    BY CurrentIs DEF InstallInv
  <1>2. Update(Current)
    BY DEF UpdateFails, Update
  <1>3. task' \in {"spawn", "wait"} => Current.bound /\ marker
    BY <1>1 DEF InstallInv, DraftInv
  <1>4. confirm' # "none" => ~active' /\ Current.status \in {"awaiting", "completed"}
    BY DEF InstallInv, ConfirmInv
  <1>5. active' \in BOOLEAN /\ (active' <=> task' # "none")
    BY DEF InstallInv, DraftInv
  <1> QED BY <1>1, <1>2, <1>3, <1>4, <1>5, UpdateKeeps

(* A cancelled draft leaves its task alone until the task notices. *)
LEMMA CancelKeeps ==
    ASSUME InstallInv, CancelRun
    PROVE  InstallInv'
  <1>1. active /\ UNCHANGED <<active, task, marker, confirm>>
    BY DEF CancelRun
  <1>2. CASE Update([draft EXCEPT !.status = "stopping"])
    <2> DEFINE d == [draft EXCEPT !.status = "stopping"]
    <2>1. draft \in Drafts
      BY <1>1 DEF InstallInv, DraftInv
    <2>2. d \in Drafts /\ d.status = "stopping" /\ d.bound = draft.bound /\ Update(d)
      BY <1>2, <2>1 DEF Drafts, DraftStatus, ActiveStatus
    <2> HIDE DEF d
    <2>3. Prepared(d) /\ d.status # "completed" /\ confirm' = "none"
      BY <1>1, <2>2 DEF Prepared, InstallInv, ConfirmInv
    <2>4. task' \in {"spawn", "wait"} => d.bound /\ marker
      BY <1>1, <2>2 DEF InstallInv, DraftInv
    <2>5. active' \in BOOLEAN /\ (active' <=> task' # "none")
      BY <1>1 DEF InstallInv, DraftInv
    <2> QED BY <1>1, <2>2, <2>3, <2>4, <2>5, UpdateKeeps
  <1>3. CASE UpdateFails
    BY <1>1, <1>3, UpdateFailsKeeps
  <1> QED BY <1>2, <1>3 DEF CancelRun

(* A confirmation reads the draft, protects the prefix again and completes the draft. *)
LEMMA ConfirmStepsKeep ==
    ASSUME InstallInv, ConfirmCall \/ ConfirmGuard \/ ConfirmInsert \/ ConfirmComplete
    PROVE  InstallInv'
  <1>1. CASE ConfirmCall
    <2>1. UNCHANGED <<draft, draftFile, active, task, marker>>
      BY <1>1 DEF ConfirmCall, taskVars
    <2>2. Current' = Current
      BY <2>1 DEF Current
    <2>3. confirm' = "none" \/ (Current.status \in {"awaiting", "completed"} /\ ~active)
      BY <1>1 DEF ConfirmCall, ConfirmFails
    <2>4. DraftInv'
      BY <2>1 DEF InstallInv, DraftInv, Prepared
    <2> QED BY <2>1, <2>2, <2>3, <2>4 DEF InstallInv, ConfirmInv
  <1>2. CASE ConfirmGuard
    <2>1. UNCHANGED <<draft, draftFile, active, task, marker>> /\ confirm # "none"
      BY <1>2 DEF ConfirmGuard
    <2>2. Current' = Current
      BY <2>1 DEF Current
    <2>3. DraftInv'
      BY <2>1 DEF InstallInv, DraftInv, Prepared
    <2> QED BY <2>1, <2>2, <2>3 DEF InstallInv, ConfirmInv
  <1>3. CASE ConfirmInsert
    <2>1. UNCHANGED <<draft, draftFile, active, task>> /\ confirm # "none" /\ marker' \in {TRUE, marker}
      BY <1>3 DEF ConfirmInsert
    <2>2. Current' = Current
      BY <2>1 DEF Current
    <2>3. DraftInv'
      <3>1. marker' \in BOOLEAN /\ (marker => marker')
        <4>1. marker \in BOOLEAN
          BY DEF InstallInv, DraftInv
        <4>2. marker' = TRUE \/ marker' = marker
          BY <2>1
        <4> QED BY <4>1, <4>2
      <3>2. Prepared(draft)' /\ Prepared(draftFile)'
        BY <2>1, <3>1 DEF InstallInv, DraftInv, Prepared
      <3> QED BY <2>1, <3>1, <3>2 DEF InstallInv, DraftInv
    <2> QED BY <2>1, <2>2, <2>3 DEF InstallInv, ConfirmInv
  <1>4. CASE ConfirmComplete
    <2>1. UNCHANGED <<active, task, marker>> /\ confirm # "none" /\ confirm' = "none"
      BY <1>4 DEF ConfirmComplete, ConfirmFails
    <2>2. CASE Update([Current EXCEPT !.status = "completed"])
      <3> DEFINE d == [Current EXCEPT !.status = "completed"]
      <3>1. /\ Current \in Drafts /\ Prepared(Current) /\ ~active
            /\ Current.status \in {"awaiting", "completed"}
        BY <2>1, CurrentIs DEF InstallInv, ConfirmInv
      <3>2. d \in Drafts /\ d.status = "completed" /\ d.bound = Current.bound /\ Update(d)
        BY <2>2, <3>1 DEF Drafts, DraftStatus
      <3> HIDE DEF d
      <3>3. Prepared(d) /\ d.status \notin ActiveStatus
        BY <3>1, <3>2 DEF Prepared, ActiveStatus
      <3>4. /\ task' \notin {"spawn", "wait"} /\ active' \in BOOLEAN
            /\ active' <=> task' # "none"
        BY <2>1, <3>1 DEF InstallInv, DraftInv
      <3> QED BY <2>1, <3>1, <3>2, <3>3, <3>4, UpdateKeeps
    <2>3. CASE UpdateFails
      BY <2>1, <2>3, UpdateFailsKeeps
    <2> QED BY <1>4, <2>2, <2>3 DEF ConfirmComplete
  <1> QED BY <1>1, <1>2, <1>3, <1>4

(* The store of the window works beside the drafts; a restart forgets all but the file. *)
LEMMA StoreStepsKeep ==
    ASSUME InstallInv,
           \/ AddServer \/ RemoveServer \/ UpdateServer \/ RegisterInstallation
           \/ SaveStarts \/ SaveLands \/ SaveSettles \/ SaveFails
           \/ RegisterRecovers \/ RegisterSettles
           \/ LoadServers \/ LoadReads \/ LoadApplies
    PROVE  InstallInv'
  <1>1. UNCHANGED backend
    BY DEF AddServer, RemoveServer, UpdateServer, RegisterInstallation, SaveStarts, SaveLands,
           SaveSettles, SaveFails, RegisterRecovers, RegisterSettles, LoadServers, LoadReads,
           LoadApplies, Edit
  <1> QED BY <1>1, InstallFrame DEF backend, taskVars

(* A restart loses the task and keeps the file. *)
LEMMA RestartKeeps ==
    ASSUME InstallInv, RestartLauncher
    PROVE  InstallInv'
  <1>1. /\ draft' = Unread /\ active' = FALSE /\ task' = "none" /\ confirm' = "none"
        /\ UNCHANGED <<draftFile, marker>>
    BY DEF RestartLauncher
  <1>2. Unread.status = "unread" /\ Unread.status \notin ActiveStatus
    BY DEF Unread, ActiveStatus
  <1> QED BY <1>1, <1>2 DEF InstallInv, DraftInv, ConfirmInv, Prepared

(* The drafts of the installations are sound in every reachable state, for every number of runs,
   edits and failed writes or restarts: a completed draft is bound, protected and at rest, and
   what says that it runs has a task (repository.rs, service.rs). *)
THEOREM DraftsAlwaysSound == InstallSpec => []DraftsAreSound
  <1>1. InstallInv /\ [InstallNext]_installVars => InstallInv'
    <2> SUFFICES ASSUME InstallInv, [InstallNext]_installVars
                 PROVE  InstallInv'
      OBVIOUS
    <2>1. CASE UNCHANGED installVars
      BY <2>1, InstallFrame DEF installVars
    <2>2. CASE RequestShutdown
      BY <2>2, InstallFrame DEF RequestShutdown
    <2> QED BY <2>1, <2>2, TaskStepsKeep, ReserveKeeps, CancelKeeps, ConfirmStepsKeep, StoreStepsKeep,
            RestartKeeps DEF InstallNext
  <1>2. InstallInv => DraftsAreSound
    BY DEF InstallInv, DraftInv, Prepared, DraftsAreSound, CompletedIsFinal, NoGhostRun
  <1> QED BY InstallStart, <1>1, <1>2, PTL DEF InstallSpec

(* ------------------------------ the updater ------------------------------- *)

UpdaterSteps == {"none", "check", "asked", "found", "current", "check failed",
                 "install", "census", "download", "activate", "activated"}
UpdaterTypes ==
    /\ gate \in Operations \union {NoOperation} /\ pc \in [Operations -> UpdaterSteps]
    /\ owned \in [Operations -> Nat] /\ slot \in Nat /\ image \in Nat /\ currentVersion \in Nat
    /\ published \in Nat /\ busyGame \in BOOLEAN /\ busyInstall \in BOOLEAN
    /\ gameClosed \in BOOLEAN /\ installClosed \in BOOLEAN

(* The guard belongs to the one operation that is under way. *)
GateInv == \A o \in Operations : pc[o] # "none" <=> gate = o

(* A release worth installing: newer than the process and not older than the image. *)
Newer(r) == r > currentVersion /\ r >= image /\ r <= published
(* A candidate waits exactly when the phase offers one. *)
Offered == (slot # NoRelease <=> phase \in Retry) /\ (slot = NoRelease \/ Newer(slot))

(* What each step of an operation may count on. *)
StageInv ==
    /\ gate = NoOperation => Offered
    /\ \A o \in Operations :
          /\ pc[o] \in {"check", "install", "census"} => Offered
          /\ pc[o] = "census" => phase \in Retry
          /\ pc[o] \in {"asked", "found", "current", "check failed"} => phase = "checking"
          /\ pc[o] = "found" => Newer(slot)
          /\ pc[o] \in {"download", "activate", "activated"} =>
                phase = "downloading" /\ slot = NoRelease
          /\ pc[o] \in {"download", "activate"} => Newer(owned[o])
          /\ pc[o] \notin {"download", "activate"} => owned[o] = NoRelease
          /\ pc[o] = "activated" => image # NoRelease
    /\ phase = "ready" => image # NoRelease
    /\ image <= published

RelaunchInv ==
    /\ relaunch \in {"none", "half", "reserved"}
    /\ relaunch = "none" => ~gameClosed /\ ~installClosed
    /\ relaunch = "half" => phase = "ready" /\ gameClosed /\ ~busyGame /\ ~installClosed
    /\ relaunch = "reserved" => phase = "ready" /\ gameClosed /\ ~busyGame
                                /\ installClosed /\ ~busyInstall

UpdaterInv == UpdaterTypes /\ GateInv /\ StageInv /\ RelaunchInv

(* An operation ends: no other one is under way. *)
LEMMA FinishKeeps ==
    ASSUME UpdaterTypes, GateInv, NEW o \in Operations, pc[o] # "none", NEW result, Finish(o, result),
           Offered', owned' \in [Operations -> Nat], \A p \in Operations : owned'[p] = NoRelease,
           result = "ready" => image' # NoRelease, image' <= published'
    PROVE  GateInv' /\ StageInv' /\ pc' \in [Operations -> UpdaterSteps]
           /\ gate' \in Operations \union {NoOperation}
  <1>1. gate = o /\ \A p \in Operations : p # o => pc[p] = "none"
    BY DEF GateInv
  <1>2. pc' \in [Operations -> UpdaterSteps] /\ \A p \in Operations : pc'[p] = "none"
    BY <1>1 DEF Finish, UpdaterTypes, UpdaterSteps
  <1>3. gate' = NoOperation /\ phase' = result
    BY DEF Finish
  <1>4. GateInv'
    BY <1>2, <1>3, OperationsAssumption DEF GateInv, NoOperation
  <1>5. StageInv'
    BY <1>2, <1>3 DEF StageInv
  <1> QED BY <1>2, <1>3, <1>4, <1>5

(* An operation goes on: what its next step may count on is all there is to show. *)
LEMMA GotoKeeps ==
    ASSUME UpdaterTypes, GateInv, StageInv, NEW o \in Operations, pc[o] # "none",
           NEW where \in UpdaterSteps, where # "none", Goto(o, where), UNCHANGED gate,
           \A p \in Operations : p # o => owned'[p] = owned[p],
           where = "census" => Offered' /\ phase' \in Retry,
           where \in {"asked", "found", "current", "check failed"} => phase' = "checking",
           where = "found" => Newer(slot)',
           where \in {"download", "activate", "activated"} =>
              phase' = "downloading" /\ slot' = NoRelease,
           where \in {"download", "activate"} => Newer(owned[o])',
           where \notin {"download", "activate"} => owned'[o] = NoRelease,
           where = "activated" => image' # NoRelease,
           where \notin {"check", "install"},
           phase' = "ready" => image' # NoRelease, image' <= published'
    PROVE  GateInv' /\ StageInv' /\ pc' \in [Operations -> UpdaterSteps]
           /\ gate' \in Operations \union {NoOperation}
  <1>1. gate = o /\ \A p \in Operations : p # o => pc[p] = "none"
    BY DEF GateInv
  <1>2. pc' \in [Operations -> UpdaterSteps] /\ pc'[o] = where
        /\ \A p \in Operations : p # o => pc'[p] = "none"
    BY <1>1 DEF Goto, UpdaterTypes
  <1>3. gate' = o /\ o # NoOperation
    BY <1>1, OperationsAssumption DEF NoOperation
  <1>4. GateInv'
    BY <1>2, <1>3 DEF GateInv
  <1>5. \A p \in Operations : p # o => owned'[p] = NoRelease
    BY <1>1 DEF StageInv
  <1>6. StageInv'
    BY <1>2, <1>3, <1>5 DEF StageInv
  <1> QED BY <1>2, <1>3, <1>4, <1>6

(* A step of an operation leaves the clients, the installations and their admission alone. *)
LEMMA WorldFrame ==
    ASSUME UpdaterTypes, RelaunchInv, UNCHANGED world, phase = "ready" => phase' = "ready"
    PROVE  /\ RelaunchInv' /\ published' = published /\ currentVersion' = currentVersion
           /\ busyGame' \in BOOLEAN /\ busyInstall' \in BOOLEAN
           /\ gameClosed' \in BOOLEAN /\ installClosed' \in BOOLEAN
  <1>1. UNCHANGED <<currentVersion, published, busyGame, busyInstall, gameClosed, installClosed, relaunch>>
    BY DEF world
  <1> QED BY <1>1 DEF RelaunchInv, UpdaterTypes

(* The bookkeeping of one step of an operation. *)
LEMMA StepKeeps ==
    ASSUME UpdaterInv, UNCHANGED world, phase = "ready" => phase' = "ready",
           GateInv' /\ StageInv' /\ pc' \in [Operations -> UpdaterSteps]
             /\ gate' \in Operations \union {NoOperation},
           owned' \in [Operations -> Nat], slot' \in Nat, image' \in Nat
    PROVE  UpdaterInv'
  <1>1. published \in Nat /\ currentVersion \in Nat /\ UpdaterTypes /\ RelaunchInv
    BY DEF UpdaterInv, UpdaterTypes
  <1> QED BY <1>1, WorldFrame DEF UpdaterInv, UpdaterTypes

(* What an operation finds at its step. *)
LEMMA AtStep ==
    ASSUME UpdaterInv, NEW o \in Operations
    PROVE  /\ UpdaterTypes /\ GateInv /\ StageInv
           /\ owned \in [Operations -> Nat] /\ slot \in Nat /\ image \in Nat /\ published \in Nat
           /\ owned[o] \in Nat
           /\ pc[o] \notin {"download", "activate"} => owned[o] = NoRelease
           /\ pc[o] # "none" => \A p \in Operations : p # o => owned[p] = NoRelease
           /\ pc[o] \in {"check", "install", "census"} => Offered
           /\ phase = "ready" => image # NoRelease
           /\ image <= published /\ currentVersion \in Nat
  <1>1. UpdaterTypes /\ GateInv /\ StageInv
    BY DEF UpdaterInv
  <1>2. owned \in [Operations -> Nat] /\ slot \in Nat /\ image \in Nat /\ published \in Nat
    BY <1>1 DEF UpdaterTypes
  <1>3. pc[o] # "none" => \A p \in Operations : p # o => pc[p] = "none"
    BY <1>1 DEF GateInv
  <1>4. pc[o] # "none" => \A p \in Operations : p # o => owned[p] = NoRelease
    BY <1>1, <1>3 DEF StageInv
  <1>5. /\ pc[o] \notin {"download", "activate"} => owned[o] = NoRelease
        /\ pc[o] \in {"check", "install", "census"} => Offered
        /\ phase = "ready" => image # NoRelease
        /\ image <= published
    BY <1>1 DEF StageInv
  <1>6. currentVersion \in Nat
    BY <1>1 DEF UpdaterTypes
  <1> QED BY <1>1, <1>2, <1>4, <1>5, <1>6

(* The check takes the gate and stores its phase. *)
LEMMA CheckBeginsKeeps ==
    ASSUME UpdaterInv, NEW o \in Operations, CheckBegins(o)
    PROVE  UpdaterInv'
  <1>1. pc[o] = "check" /\ UNCHANGED <<owned, image, world>>
        /\ currentVersion' = currentVersion /\ published' = published
    BY DEF CheckBegins, world
  <1>2. owned \in [Operations -> Nat] /\ slot \in Nat /\ image \in Nat /\ published \in Nat
        /\ owned[o] \in Nat /\ UpdaterTypes /\ GateInv /\ StageInv
    BY AtStep
  <1>3. CASE phase = "ready" /\ Finish(o, "ready") /\ UNCHANGED slot
    <2>1. owned' \in [Operations -> Nat] /\ slot' \in {slot, published, owned[o], NoRelease}
          /\ image' \in {image, owned[o]}
      BY <1>1, <1>2, <1>3 DEF Consumed, NoRelease
    <2>2. slot' \in Nat /\ image' \in Nat
      BY <1>2, <2>1 DEF NoRelease
    <2>3. \A p \in Operations : owned'[p] = NoRelease
      BY <1>1, <1>2, <1>3, AtStep DEF Consumed
    <2>4. Offered' /\ (phase = "ready" => phase' = "ready") /\ (phase' = "ready" => image' # NoRelease)
          /\ image' <= published'
      BY <1>1, <1>2, <1>3, AtStep DEF Offered, Retry, StageInv, Finish, NoRelease, Newer
    <2>5. GateInv' /\ StageInv' /\ pc' \in [Operations -> UpdaterSteps]
          /\ gate' \in Operations \union {NoOperation}
      BY <1>1, <1>2, <1>3, <2>1, <2>3, <2>4, FinishKeeps DEF Finish
    <2> QED BY <1>1, <2>1, <2>2, <2>4, <2>5, StepKeeps
  <1>4. CASE phase # "ready" /\ slot' = NoRelease /\ Finish(o, "unavailable")
    <2>1. owned' \in [Operations -> Nat] /\ slot' \in {slot, published, owned[o], NoRelease}
          /\ image' \in {image, owned[o]}
      BY <1>1, <1>2, <1>4 DEF Consumed, NoRelease
    <2>2. slot' \in Nat /\ image' \in Nat
      BY <1>2, <2>1 DEF NoRelease
    <2>3. \A p \in Operations : owned'[p] = NoRelease
      BY <1>1, <1>2, <1>4, AtStep DEF Consumed
    <2>4. Offered' /\ (phase = "ready" => phase' = "ready") /\ (phase' = "ready" => image' # NoRelease)
          /\ image' <= published'
      BY <1>1, <1>2, <1>4, AtStep DEF Offered, Retry, StageInv, Finish, NoRelease, Newer
    <2>5. GateInv' /\ StageInv' /\ pc' \in [Operations -> UpdaterSteps]
          /\ gate' \in Operations \union {NoOperation}
      BY <1>1, <1>2, <1>4, <2>1, <2>3, <2>4, FinishKeeps DEF Finish
    <2> QED BY <1>1, <2>1, <2>2, <2>4, <2>5, StepKeeps
  <1>5. CASE phase # "ready" /\ slot' = NoRelease /\ phase' = "checking" /\ Goto(o, "asked")
             /\ UNCHANGED gate
    <2>1. owned' \in [Operations -> Nat] /\ slot' \in {slot, published, owned[o], NoRelease}
          /\ image' \in {image, owned[o]}
      BY <1>1, <1>2, <1>5 DEF Consumed, NoRelease
    <2>2. slot' \in Nat /\ image' \in Nat
      BY <1>2, <2>1 DEF NoRelease
    <2>3. \A p \in Operations : p # o => owned'[p] = owned[p]
      BY <1>1, <1>2, <1>5 DEF Consumed
    <2>4. (phase = "ready" => phase' = "ready") /\ (phase' = "ready" => image' # NoRelease)
          /\ image' <= published'
      BY <1>1, <1>2, <1>5, AtStep DEF StageInv, Retry
    <2>5. GateInv' /\ StageInv' /\ pc' \in [Operations -> UpdaterSteps]
          /\ gate' \in Operations \union {NoOperation}
      BY <1>1, <1>2, <1>5, <2>1, <2>3, <2>4, GotoKeeps, AtStep DEF UpdaterSteps, StageInv, Offered, Newer,
         Consumed, NoRelease
    <2> QED BY <1>1, <2>1, <2>2, <2>4, <2>5, StepKeeps
  <1> QED BY <1>3, <1>4, <1>5 DEF CheckBegins

(* The answer of the server is stored only when it is newer than the process. *)
LEMMA CheckAnswersKeeps ==
    ASSUME UpdaterInv, NEW o \in Operations, CheckAnswers(o)
    PROVE  UpdaterInv'
  <1>1. pc[o] = "asked" /\ UNCHANGED <<phase, gate, owned, image, world>>
        /\ currentVersion' = currentVersion /\ published' = published
    BY DEF CheckAnswers, world
  <1>2. owned \in [Operations -> Nat] /\ slot \in Nat /\ image \in Nat /\ published \in Nat
        /\ owned[o] \in Nat /\ UpdaterTypes /\ GateInv /\ StageInv
    BY AtStep
  <1>3. CASE slot' = published /\ published > currentVersion /\ Goto(o, "found")
    <2>1. owned' \in [Operations -> Nat] /\ slot' \in {slot, published, owned[o], NoRelease}
          /\ image' \in {image, owned[o]}
      BY <1>1, <1>2, <1>3 DEF Consumed, NoRelease
    <2>2. slot' \in Nat /\ image' \in Nat
      BY <1>2, <2>1 DEF NoRelease
    <2>3. \A p \in Operations : p # o => owned'[p] = owned[p]
      BY <1>1, <1>2, <1>3 DEF Consumed
    <2>4. (phase = "ready" => phase' = "ready") /\ (phase' = "ready" => image' # NoRelease)
          /\ image' <= published'
      BY <1>1, <1>2, <1>3, AtStep DEF StageInv, Retry
    <2>41. Newer(slot)'
      BY <1>1, <1>2, <1>3, AtStep DEF Newer
    <2>5. GateInv' /\ StageInv' /\ pc' \in [Operations -> UpdaterSteps]
          /\ gate' \in Operations \union {NoOperation}
      BY <1>1, <1>2, <1>3, <2>1, <2>3, <2>4, <2>41, GotoKeeps, AtStep DEF UpdaterSteps, StageInv, Offered,
         Consumed, NoRelease
    <2> QED BY <1>1, <2>1, <2>2, <2>4, <2>5, StepKeeps
  <1>4. CASE slot' = NoRelease /\ published <= currentVersion /\ Goto(o, "current")
    <2>1. owned' \in [Operations -> Nat] /\ slot' \in {slot, published, owned[o], NoRelease}
          /\ image' \in {image, owned[o]}
      BY <1>1, <1>2, <1>4 DEF Consumed, NoRelease
    <2>2. slot' \in Nat /\ image' \in Nat
      BY <1>2, <2>1 DEF NoRelease
    <2>3. \A p \in Operations : p # o => owned'[p] = owned[p]
      BY <1>1, <1>2, <1>4 DEF Consumed
    <2>4. (phase = "ready" => phase' = "ready") /\ (phase' = "ready" => image' # NoRelease)
          /\ image' <= published'
      BY <1>1, <1>2, <1>4, AtStep DEF StageInv, Retry
    <2>5. GateInv' /\ StageInv' /\ pc' \in [Operations -> UpdaterSteps]
          /\ gate' \in Operations \union {NoOperation}
      BY <1>1, <1>2, <1>4, <2>1, <2>3, <2>4, GotoKeeps, AtStep DEF UpdaterSteps, StageInv, Offered, Newer,
         Consumed, NoRelease
    <2> QED BY <1>1, <2>1, <2>2, <2>4, <2>5, StepKeeps
  <1>5. CASE slot' = NoRelease /\ Goto(o, "check failed")
    <2>1. owned' \in [Operations -> Nat] /\ slot' \in {slot, published, owned[o], NoRelease}
          /\ image' \in {image, owned[o]}
      BY <1>1, <1>2, <1>5 DEF Consumed, NoRelease
    <2>2. slot' \in Nat /\ image' \in Nat
      BY <1>2, <2>1 DEF NoRelease
    <2>3. \A p \in Operations : p # o => owned'[p] = owned[p]
      BY <1>1, <1>2, <1>5 DEF Consumed
    <2>4. (phase = "ready" => phase' = "ready") /\ (phase' = "ready" => image' # NoRelease)
          /\ image' <= published'
      BY <1>1, <1>2, <1>5, AtStep DEF StageInv, Retry
    <2>5. GateInv' /\ StageInv' /\ pc' \in [Operations -> UpdaterSteps]
          /\ gate' \in Operations \union {NoOperation}
      BY <1>1, <1>2, <1>5, <2>1, <2>3, <2>4, GotoKeeps, AtStep DEF UpdaterSteps, StageInv, Offered, Newer,
         Consumed, NoRelease
    <2> QED BY <1>1, <2>1, <2>2, <2>4, <2>5, StepKeeps
  <1> QED BY <1>3, <1>4, <1>5 DEF CheckAnswers

(* The check ends with the slot that its phase says. *)
LEMMA CheckEndsKeeps ==
    ASSUME UpdaterInv, NEW o \in Operations, CheckEnds(o)
    PROVE  UpdaterInv'
  <1>1. pc[o] \in {"found", "current", "check failed"} /\ UNCHANGED <<owned, image, world>>
        /\ currentVersion' = currentVersion /\ published' = published
    BY DEF CheckEnds, world
  <1>2. owned \in [Operations -> Nat] /\ slot \in Nat /\ image \in Nat /\ published \in Nat
        /\ owned[o] \in Nat /\ UpdaterTypes /\ GateInv /\ StageInv
    BY AtStep
  <1>21. pc[o] = "found" => Newer(slot) /\ slot # NoRelease
    <2>1. pc[o] = "found" => Newer(slot)
      BY <1>1, <1>2 DEF StageInv
    <2> QED BY <1>2, <2>1, AtStep DEF NoRelease, Newer
  <1>3. CASE pc[o] = "found" /\ Finish(o, "available") /\ UNCHANGED slot
    <2>1. owned' \in [Operations -> Nat] /\ slot' \in {slot, published, owned[o], NoRelease}
          /\ image' \in {image, owned[o]}
      BY <1>1, <1>2, <1>3, <1>21 DEF Consumed, NoRelease
    <2>2. slot' \in Nat /\ image' \in Nat
      BY <1>2, <2>1 DEF NoRelease
    <2>3. \A p \in Operations : owned'[p] = NoRelease
      BY <1>1, <1>2, <1>3, <1>21, AtStep DEF Consumed
    <2>4. Offered' /\ (phase = "ready" => phase' = "ready") /\ (phase' = "ready" => image' # NoRelease)
          /\ image' <= published'
      BY <1>1, <1>2, <1>3, <1>21, AtStep DEF Offered, Retry, StageInv, Finish, NoRelease, Newer
    <2>5. GateInv' /\ StageInv' /\ pc' \in [Operations -> UpdaterSteps]
          /\ gate' \in Operations \union {NoOperation}
      BY <1>1, <1>2, <1>3, <1>21, <2>1, <2>3, <2>4, FinishKeeps DEF Finish
    <2> QED BY <1>1, <2>1, <2>2, <2>4, <2>5, StepKeeps
  <1>4. CASE pc[o] = "current" /\ slot' = NoRelease /\ Finish(o, "current")
    <2>1. owned' \in [Operations -> Nat] /\ slot' \in {slot, published, owned[o], NoRelease}
          /\ image' \in {image, owned[o]}
      BY <1>1, <1>2, <1>4, <1>21 DEF Consumed, NoRelease
    <2>2. slot' \in Nat /\ image' \in Nat
      BY <1>2, <2>1 DEF NoRelease
    <2>3. \A p \in Operations : owned'[p] = NoRelease
      BY <1>1, <1>2, <1>4, <1>21, AtStep DEF Consumed
    <2>4. Offered' /\ (phase = "ready" => phase' = "ready") /\ (phase' = "ready" => image' # NoRelease)
          /\ image' <= published'
      BY <1>1, <1>2, <1>4, <1>21, AtStep DEF Offered, Retry, StageInv, Finish, NoRelease, Newer
    <2>5. GateInv' /\ StageInv' /\ pc' \in [Operations -> UpdaterSteps]
          /\ gate' \in Operations \union {NoOperation}
      BY <1>1, <1>2, <1>4, <1>21, <2>1, <2>3, <2>4, FinishKeeps DEF Finish
    <2> QED BY <1>1, <2>1, <2>2, <2>4, <2>5, StepKeeps
  <1>5. CASE pc[o] = "check failed" /\ slot' = NoRelease /\ Finish(o, "failed")
    <2>1. owned' \in [Operations -> Nat] /\ slot' \in {slot, published, owned[o], NoRelease}
          /\ image' \in {image, owned[o]}
      BY <1>1, <1>2, <1>5, <1>21 DEF Consumed, NoRelease
    <2>2. slot' \in Nat /\ image' \in Nat
      BY <1>2, <2>1 DEF NoRelease
    <2>3. \A p \in Operations : owned'[p] = NoRelease
      BY <1>1, <1>2, <1>5, <1>21, AtStep DEF Consumed
    <2>4. Offered' /\ (phase = "ready" => phase' = "ready") /\ (phase' = "ready" => image' # NoRelease)
          /\ image' <= published'
      BY <1>1, <1>2, <1>5, <1>21, AtStep DEF Offered, Retry, StageInv, Finish, NoRelease, Newer
    <2>5. GateInv' /\ StageInv' /\ pc' \in [Operations -> UpdaterSteps]
          /\ gate' \in Operations \union {NoOperation}
      BY <1>1, <1>2, <1>5, <1>21, <2>1, <2>3, <2>4, FinishKeeps DEF Finish
    <2> QED BY <1>1, <2>1, <2>2, <2>4, <2>5, StepKeeps
  <1> QED BY <1>3, <1>4, <1>5 DEF CheckEnds

(* The installation takes the gate before it looks at the phase. *)
LEMMA InstallBeginsKeeps ==
    ASSUME UpdaterInv, NEW o \in Operations, InstallBegins(o)
    PROVE  UpdaterInv'
  <1>1. pc[o] = "install" /\ UNCHANGED <<owned, image, world>>
        /\ currentVersion' = currentVersion /\ published' = published
    BY DEF InstallBegins, world
  <1>2. owned \in [Operations -> Nat] /\ slot \in Nat /\ image \in Nat /\ published \in Nat
        /\ owned[o] \in Nat /\ UpdaterTypes /\ GateInv /\ StageInv
    BY AtStep
  <1>3. CASE phase = "ready" /\ Finish(o, "ready") /\ UNCHANGED slot
    <2>1. owned' \in [Operations -> Nat] /\ slot' \in {slot, published, owned[o], NoRelease}
          /\ image' \in {image, owned[o]}
      BY <1>1, <1>2, <1>3 DEF Consumed, NoRelease
    <2>2. slot' \in Nat /\ image' \in Nat
      BY <1>2, <2>1 DEF NoRelease
    <2>3. \A p \in Operations : owned'[p] = NoRelease
      BY <1>1, <1>2, <1>3, AtStep DEF Consumed
    <2>4. Offered' /\ (phase = "ready" => phase' = "ready") /\ (phase' = "ready" => image' # NoRelease)
          /\ image' <= published'
      BY <1>1, <1>2, <1>3, AtStep DEF Offered, Retry, StageInv, Finish, NoRelease, Newer
    <2>5. GateInv' /\ StageInv' /\ pc' \in [Operations -> UpdaterSteps]
          /\ gate' \in Operations \union {NoOperation}
      BY <1>1, <1>2, <1>3, <2>1, <2>3, <2>4, FinishKeeps DEF Finish
    <2> QED BY <1>1, <2>1, <2>2, <2>4, <2>5, StepKeeps
  <1>4. CASE phase \notin Retry \union {"ready"} /\ slot' = NoRelease /\ Finish(o, "failed")
    <2>1. owned' \in [Operations -> Nat] /\ slot' \in {slot, published, owned[o], NoRelease}
          /\ image' \in {image, owned[o]}
      BY <1>1, <1>2, <1>4 DEF Consumed, NoRelease
    <2>2. slot' \in Nat /\ image' \in Nat
      BY <1>2, <2>1 DEF NoRelease
    <2>3. \A p \in Operations : owned'[p] = NoRelease
      BY <1>1, <1>2, <1>4, AtStep DEF Consumed
    <2>4. Offered' /\ (phase = "ready" => phase' = "ready") /\ (phase' = "ready" => image' # NoRelease)
          /\ image' <= published'
      BY <1>1, <1>2, <1>4, AtStep DEF Offered, Retry, StageInv, Finish, NoRelease, Newer
    <2>5. GateInv' /\ StageInv' /\ pc' \in [Operations -> UpdaterSteps]
          /\ gate' \in Operations \union {NoOperation}
      BY <1>1, <1>2, <1>4, <2>1, <2>3, <2>4, FinishKeeps DEF Finish
    <2> QED BY <1>1, <2>1, <2>2, <2>4, <2>5, StepKeeps
  <1>5. CASE phase \in Retry /\ Goto(o, "census") /\ UNCHANGED <<phase, gate, slot>>
    <2>1. owned' \in [Operations -> Nat] /\ slot' \in {slot, published, owned[o], NoRelease}
          /\ image' \in {image, owned[o]}
      BY <1>1, <1>2, <1>5 DEF Consumed, NoRelease
    <2>2. slot' \in Nat /\ image' \in Nat
      BY <1>2, <2>1 DEF NoRelease
    <2>3. \A p \in Operations : p # o => owned'[p] = owned[p]
      BY <1>1, <1>2, <1>5 DEF Consumed
    <2>4. (phase = "ready" => phase' = "ready") /\ (phase' = "ready" => image' # NoRelease)
          /\ image' <= published'
      BY <1>1, <1>2, <1>5, AtStep DEF StageInv, Retry
    <2>5. GateInv' /\ StageInv' /\ pc' \in [Operations -> UpdaterSteps]
          /\ gate' \in Operations \union {NoOperation}
      BY <1>1, <1>2, <1>5, <2>1, <2>3, <2>4, GotoKeeps, AtStep DEF UpdaterSteps, StageInv, Offered, Newer,
         Consumed, NoRelease
    <2> QED BY <1>1, <2>1, <2>2, <2>4, <2>5, StepKeeps
  <1> QED BY <1>3, <1>4, <1>5 DEF InstallBegins

(* The census of the games and of the installations takes the candidate or gives it back. *)
LEMMA CensusKeeps ==
    ASSUME UpdaterInv, NEW o \in Operations, Census(o)
    PROVE  UpdaterInv'
  <1>1. pc[o] = "census" /\ UNCHANGED <<image, world>>
        /\ currentVersion' = currentVersion /\ published' = published
    BY DEF Census, world
  <1>2. owned \in [Operations -> Nat] /\ slot \in Nat /\ image \in Nat /\ published \in Nat
        /\ owned[o] \in Nat /\ UpdaterTypes /\ GateInv /\ StageInv
    BY AtStep
  <1>3. CASE slot' = NoRelease /\ Finish(o, "failed") /\ UNCHANGED owned
    <2>1. owned' \in [Operations -> Nat] /\ slot' \in {slot, published, owned[o], NoRelease}
          /\ image' \in {image, owned[o]}
      BY <1>1, <1>2, <1>3 DEF Consumed, NoRelease
    <2>2. slot' \in Nat /\ image' \in Nat
      BY <1>2, <2>1 DEF NoRelease
    <2>3. \A p \in Operations : owned'[p] = NoRelease
      BY <1>1, <1>2, <1>3, AtStep DEF Consumed
    <2>4. Offered' /\ (phase = "ready" => phase' = "ready") /\ (phase' = "ready" => image' # NoRelease)
          /\ image' <= published'
      BY <1>1, <1>2, <1>3, AtStep DEF Offered, Retry, StageInv, Finish, NoRelease, Newer
    <2>5. GateInv' /\ StageInv' /\ pc' \in [Operations -> UpdaterSteps]
          /\ gate' \in Operations \union {NoOperation}
      BY <1>1, <1>2, <1>3, <2>1, <2>3, <2>4, FinishKeeps DEF Finish
    <2> QED BY <1>1, <2>1, <2>2, <2>4, <2>5, StepKeeps
  <1>4. CASE busyGame /\ Finish(o, "clients active") /\ UNCHANGED <<slot, owned>>
    <2>1. owned' \in [Operations -> Nat] /\ slot' \in {slot, published, owned[o], NoRelease}
          /\ image' \in {image, owned[o]}
      BY <1>1, <1>2, <1>4 DEF Consumed, NoRelease
    <2>2. slot' \in Nat /\ image' \in Nat
      BY <1>2, <2>1 DEF NoRelease
    <2>3. \A p \in Operations : owned'[p] = NoRelease
      BY <1>1, <1>2, <1>4, AtStep DEF Consumed
    <2>4. Offered' /\ (phase = "ready" => phase' = "ready") /\ (phase' = "ready" => image' # NoRelease)
          /\ image' <= published'
      BY <1>1, <1>2, <1>4, AtStep DEF Offered, Retry, StageInv, Finish, NoRelease, Newer
    <2>5. GateInv' /\ StageInv' /\ pc' \in [Operations -> UpdaterSteps]
          /\ gate' \in Operations \union {NoOperation}
      BY <1>1, <1>2, <1>4, <2>1, <2>3, <2>4, FinishKeeps DEF Finish
    <2> QED BY <1>1, <2>1, <2>2, <2>4, <2>5, StepKeeps
  <1>5. CASE /\ ~busyGame /\ slot # NoRelease
             /\ owned' = [owned EXCEPT ![o] = slot] /\ slot' = NoRelease
             /\ phase' = "downloading" /\ Goto(o, "download") /\ UNCHANGED gate
    <2>1. owned' \in [Operations -> Nat] /\ slot' \in {slot, published, owned[o], NoRelease}
          /\ image' \in {image, owned[o]}
      BY <1>1, <1>2, <1>5 DEF Consumed, NoRelease
    <2>2. slot' \in Nat /\ image' \in Nat
      BY <1>2, <2>1 DEF NoRelease
    <2>3. \A p \in Operations : p # o => owned'[p] = owned[p]
      BY <1>1, <1>2, <1>5 DEF Consumed
    <2>4. (phase = "ready" => phase' = "ready") /\ (phase' = "ready" => image' # NoRelease)
          /\ image' <= published'
      BY <1>1, <1>2, <1>5, AtStep DEF StageInv, Retry
    <2>5. GateInv' /\ StageInv' /\ pc' \in [Operations -> UpdaterSteps]
          /\ gate' \in Operations \union {NoOperation}
      BY <1>1, <1>2, <1>5, <2>1, <2>3, <2>4, GotoKeeps, AtStep DEF UpdaterSteps, StageInv, Offered, Newer,
         Consumed, NoRelease
    <2> QED BY <1>1, <2>1, <2>2, <2>4, <2>5, StepKeeps
  <1>6. CASE ~busyGame /\ slot = NoRelease /\ Finish(o, "failed") /\ UNCHANGED <<slot, owned>>
    <2>1. owned' \in [Operations -> Nat] /\ slot' \in {slot, published, owned[o], NoRelease}
          /\ image' \in {image, owned[o]}
      BY <1>1, <1>2, <1>6 DEF Consumed, NoRelease
    <2>2. slot' \in Nat /\ image' \in Nat
      BY <1>2, <2>1 DEF NoRelease
    <2>3. \A p \in Operations : owned'[p] = NoRelease
      BY <1>1, <1>2, <1>6, AtStep DEF Consumed
    <2>4. Offered' /\ (phase = "ready" => phase' = "ready") /\ (phase' = "ready" => image' # NoRelease)
          /\ image' <= published'
      BY <1>1, <1>2, <1>6, AtStep DEF Offered, Retry, StageInv, Finish, NoRelease, Newer
    <2>5. GateInv' /\ StageInv' /\ pc' \in [Operations -> UpdaterSteps]
          /\ gate' \in Operations \union {NoOperation}
      BY <1>1, <1>2, <1>6, <2>1, <2>3, <2>4, FinishKeeps DEF Finish
    <2> QED BY <1>1, <2>1, <2>2, <2>4, <2>5, StepKeeps
  <1> QED BY <1>3, <1>4, <1>5, <1>6 DEF Census

(* A download ends with the image untouched. *)
LEMMA DownloadedKeeps ==
    ASSUME UpdaterInv, NEW o \in Operations, Downloaded(o)
    PROVE  UpdaterInv'
  <1>1. pc[o] = "download" /\ UNCHANGED <<image, world>>
        /\ currentVersion' = currentVersion /\ published' = published
    BY DEF Downloaded, world
  <1>2. owned \in [Operations -> Nat] /\ slot \in Nat /\ image \in Nat /\ published \in Nat
        /\ owned[o] \in Nat /\ UpdaterTypes /\ GateInv /\ StageInv
    BY AtStep
  <1>21. Newer(owned[o]) /\ owned[o] # NoRelease /\ slot = NoRelease /\ phase = "downloading"
    <2>1. Newer(owned[o]) /\ slot = NoRelease /\ phase = "downloading"
      BY <1>1, <1>2 DEF StageInv
    <2> QED BY <1>2, <2>1, AtStep DEF NoRelease, Newer
  <1>3. CASE Consumed(o) /\ Finish(o, "failed") /\ UNCHANGED slot
    <2>1. owned' \in [Operations -> Nat] /\ slot' \in {slot, published, owned[o], NoRelease}
          /\ image' \in {image, owned[o]}
      BY <1>1, <1>2, <1>3, <1>21 DEF Consumed, NoRelease
    <2>2. slot' \in Nat /\ image' \in Nat
      BY <1>2, <2>1 DEF NoRelease
    <2>3. \A p \in Operations : owned'[p] = NoRelease
      BY <1>1, <1>2, <1>3, <1>21, AtStep DEF Consumed
    <2>4. Offered' /\ (phase = "ready" => phase' = "ready") /\ (phase' = "ready" => image' # NoRelease)
          /\ image' <= published'
      BY <1>1, <1>2, <1>3, <1>21, AtStep DEF Offered, Retry, StageInv, Finish, NoRelease, Newer
    <2>5. GateInv' /\ StageInv' /\ pc' \in [Operations -> UpdaterSteps]
          /\ gate' \in Operations \union {NoOperation}
      BY <1>1, <1>2, <1>3, <1>21, <2>1, <2>3, <2>4, FinishKeeps DEF Finish
    <2> QED BY <1>1, <2>1, <2>2, <2>4, <2>5, StepKeeps
  <1>4. CASE busyGame /\ slot = NoRelease /\ slot' = owned[o] /\ Consumed(o) /\ Finish(o, "clients active")
    <2>1. owned' \in [Operations -> Nat] /\ slot' \in {slot, published, owned[o], NoRelease}
          /\ image' \in {image, owned[o]}
      BY <1>1, <1>2, <1>4, <1>21 DEF Consumed, NoRelease
    <2>2. slot' \in Nat /\ image' \in Nat
      BY <1>2, <2>1 DEF NoRelease
    <2>3. \A p \in Operations : owned'[p] = NoRelease
      BY <1>1, <1>2, <1>4, <1>21, AtStep DEF Consumed
    <2>4. Offered' /\ (phase = "ready" => phase' = "ready") /\ (phase' = "ready" => image' # NoRelease)
          /\ image' <= published'
      BY <1>1, <1>2, <1>4, <1>21, AtStep DEF Offered, Retry, StageInv, Finish, NoRelease, Newer
    <2>5. GateInv' /\ StageInv' /\ pc' \in [Operations -> UpdaterSteps]
          /\ gate' \in Operations \union {NoOperation}
      BY <1>1, <1>2, <1>4, <1>21, <2>1, <2>3, <2>4, FinishKeeps DEF Finish
    <2> QED BY <1>1, <2>1, <2>2, <2>4, <2>5, StepKeeps
  <1>5. CASE busyGame /\ slot # NoRelease /\ Consumed(o) /\ Finish(o, "failed") /\ UNCHANGED slot
    <2>1. owned' \in [Operations -> Nat] /\ slot' \in {slot, published, owned[o], NoRelease}
          /\ image' \in {image, owned[o]}
      BY <1>1, <1>2, <1>5, <1>21 DEF Consumed, NoRelease
    <2>2. slot' \in Nat /\ image' \in Nat
      BY <1>2, <2>1 DEF NoRelease
    <2>3. \A p \in Operations : owned'[p] = NoRelease
      BY <1>1, <1>2, <1>5, <1>21, AtStep DEF Consumed
    <2>4. Offered' /\ (phase = "ready" => phase' = "ready") /\ (phase' = "ready" => image' # NoRelease)
          /\ image' <= published'
      BY <1>1, <1>2, <1>5, <1>21, AtStep DEF Offered, Retry, StageInv, Finish, NoRelease, Newer
    <2>5. GateInv' /\ StageInv' /\ pc' \in [Operations -> UpdaterSteps]
          /\ gate' \in Operations \union {NoOperation}
      BY <1>1, <1>2, <1>5, <1>21, <2>1, <2>3, <2>4, FinishKeeps DEF Finish
    <2> QED BY <1>1, <2>1, <2>2, <2>4, <2>5, StepKeeps
  <1>6. CASE ~busyGame /\ Goto(o, "activate") /\ UNCHANGED <<phase, gate, owned, slot>>
    <2>1. owned' \in [Operations -> Nat] /\ slot' \in {slot, published, owned[o], NoRelease}
          /\ image' \in {image, owned[o]}
      BY <1>1, <1>2, <1>6, <1>21 DEF Consumed, NoRelease
    <2>2. slot' \in Nat /\ image' \in Nat
      BY <1>2, <2>1 DEF NoRelease
    <2>3. \A p \in Operations : p # o => owned'[p] = owned[p]
      BY <1>1, <1>2, <1>6, <1>21 DEF Consumed
    <2>4. (phase = "ready" => phase' = "ready") /\ (phase' = "ready" => image' # NoRelease)
          /\ image' <= published'
      BY <1>1, <1>2, <1>6, <1>21, AtStep DEF StageInv, Retry
    <2>5. GateInv' /\ StageInv' /\ pc' \in [Operations -> UpdaterSteps]
          /\ gate' \in Operations \union {NoOperation}
      BY <1>1, <1>2, <1>6, <1>21, <2>1, <2>3, <2>4, GotoKeeps, AtStep DEF UpdaterSteps, StageInv, Offered, Newer,
         Consumed, NoRelease
    <2> QED BY <1>1, <2>1, <2>2, <2>4, <2>5, StepKeeps
  <1> QED BY <1>3, <1>4, <1>5, <1>6 DEF Downloaded

(* The activation replaces the image by the candidate that was downloaded. *)
LEMMA ActivateKeeps ==
    ASSUME UpdaterInv, NEW o \in Operations, Activate(o)
    PROVE  UpdaterInv'
  <1>1. pc[o] = "activate" /\ UNCHANGED <<slot, world>>
        /\ currentVersion' = currentVersion /\ published' = published
    BY DEF Activate, world
  <1>2. owned \in [Operations -> Nat] /\ slot \in Nat /\ image \in Nat /\ published \in Nat
        /\ owned[o] \in Nat /\ UpdaterTypes /\ GateInv /\ StageInv
    BY AtStep
  <1>21. Newer(owned[o]) /\ owned[o] # NoRelease /\ slot = NoRelease /\ phase = "downloading"
    <2>1. Newer(owned[o]) /\ slot = NoRelease /\ phase = "downloading"
      BY <1>1, <1>2 DEF StageInv
    <2> QED BY <1>2, <2>1, AtStep DEF NoRelease, Newer
  <1>3. CASE Consumed(o) /\ image' = owned[o] /\ Goto(o, "activated") /\ UNCHANGED <<phase, gate>>
    <2>1. owned' \in [Operations -> Nat] /\ slot' \in {slot, published, owned[o], NoRelease}
          /\ image' \in {image, owned[o]}
      BY <1>1, <1>2, <1>3, <1>21 DEF Consumed, NoRelease
    <2>2. slot' \in Nat /\ image' \in Nat
      BY <1>2, <2>1 DEF NoRelease
    <2>3. \A p \in Operations : p # o => owned'[p] = owned[p]
      BY <1>1, <1>2, <1>3, <1>21 DEF Consumed
    <2>4. (phase = "ready" => phase' = "ready") /\ (phase' = "ready" => image' # NoRelease)
          /\ image' <= published'
      BY <1>1, <1>2, <1>3, <1>21, AtStep DEF StageInv, Retry, Newer
    <2>5. GateInv' /\ StageInv' /\ pc' \in [Operations -> UpdaterSteps]
          /\ gate' \in Operations \union {NoOperation}
      BY <1>1, <1>2, <1>3, <1>21, <2>1, <2>3, <2>4, GotoKeeps, AtStep DEF UpdaterSteps, StageInv, Offered, Newer,
         Consumed, NoRelease
    <2> QED BY <1>1, <2>1, <2>2, <2>4, <2>5, StepKeeps
  <1>4. CASE Consumed(o) /\ image' \in {image, owned[o]} /\ Finish(o, "failed")
    <2>1. owned' \in [Operations -> Nat] /\ slot' \in {slot, published, owned[o], NoRelease}
          /\ image' \in {image, owned[o]}
      BY <1>1, <1>2, <1>4, <1>21 DEF Consumed, NoRelease
    <2>2. slot' \in Nat /\ image' \in Nat
      BY <1>2, <2>1 DEF NoRelease
    <2>3. \A p \in Operations : owned'[p] = NoRelease
      BY <1>1, <1>2, <1>4, <1>21, AtStep DEF Consumed
    <2>4. Offered' /\ (phase = "ready" => phase' = "ready") /\ (phase' = "ready" => image' # NoRelease)
          /\ image' <= published'
      BY <1>1, <1>2, <1>4, <1>21, AtStep DEF Offered, Retry, StageInv, Finish, NoRelease, Newer
    <2>5. GateInv' /\ StageInv' /\ pc' \in [Operations -> UpdaterSteps]
          /\ gate' \in Operations \union {NoOperation}
      BY <1>1, <1>2, <1>4, <1>21, <2>1, <2>3, <2>4, FinishKeeps DEF Finish
    <2> QED BY <1>1, <2>1, <2>2, <2>4, <2>5, StepKeeps
  <1> QED BY <1>3, <1>4 DEF Activate

(* The installation ends ready for the relaunch, or with the candidate offered again. *)
LEMMA InstallEndsKeeps ==
    ASSUME UpdaterInv, NEW o \in Operations, InstallEnds(o)
    PROVE  UpdaterInv'
  <1>1. pc[o] = "activated" /\ UNCHANGED <<owned, image, world>>
        /\ currentVersion' = currentVersion /\ published' = published
    BY DEF InstallEnds, world
  <1>2. owned \in [Operations -> Nat] /\ slot \in Nat /\ image \in Nat /\ published \in Nat
        /\ owned[o] \in Nat /\ UpdaterTypes /\ GateInv /\ StageInv
    BY AtStep
  <1>3. CASE slot' = NoRelease /\ Finish(o, "ready")
    <2>1. owned' \in [Operations -> Nat] /\ slot' \in {slot, published, owned[o], NoRelease}
          /\ image' \in {image, owned[o]}
      BY <1>1, <1>2, <1>3 DEF Consumed, NoRelease
    <2>2. slot' \in Nat /\ image' \in Nat
      BY <1>2, <2>1 DEF NoRelease
    <2>3. \A p \in Operations : owned'[p] = NoRelease
      BY <1>1, <1>2, <1>3, AtStep DEF Consumed
    <2>4. Offered' /\ (phase = "ready" => phase' = "ready") /\ (phase' = "ready" => image' # NoRelease)
          /\ image' <= published'
      BY <1>1, <1>2, <1>3, AtStep DEF Offered, Retry, StageInv, Finish, NoRelease, Newer
    <2>5. GateInv' /\ StageInv' /\ pc' \in [Operations -> UpdaterSteps]
          /\ gate' \in Operations \union {NoOperation}
      BY <1>1, <1>2, <1>3, <2>1, <2>3, <2>4, FinishKeeps DEF Finish
    <2> QED BY <1>1, <2>1, <2>2, <2>4, <2>5, StepKeeps
  <1> QED BY <1>3 DEF InstallEnds

(* Every step of an operation that holds the gate. *)
LEMMA RunOwnedKeeps ==
    ASSUME UpdaterInv, NEW o \in Operations, RunOwned(o)
    PROVE  UpdaterInv'
  <1>1. gate = NoOperation /\ pc[o] = "none" /\ gate' = o
        /\ UNCHANGED <<phase, owned, slot, image, world>>
    BY DEF RunOwned
  <1>2. PICK kind \in {"check", "install"} : Goto(o, kind)
    BY DEF RunOwned
  <1>3. UpdaterTypes /\ GateInv /\ StageInv
    BY DEF UpdaterInv
  <1>4. \A p \in Operations : pc[p] = "none"
    BY <1>1, <1>3, OperationsAssumption DEF GateInv, NoOperation
  <1>5. pc' \in [Operations -> UpdaterSteps] /\ pc'[o] = kind
        /\ \A p \in Operations : p # o => pc'[p] = "none"
    BY <1>2, <1>3, <1>4 DEF Goto, UpdaterTypes, UpdaterSteps
  <1>6. GateInv'
    BY <1>1, <1>5 DEF GateInv
  <1>7. Offered'
    BY <1>1, <1>3 DEF StageInv, Offered, Newer, world
  <1>8. \A p \in Operations : owned'[p] = NoRelease
    BY <1>1, <1>3, <1>4 DEF StageInv
  <1>9. StageInv'
    BY <1>1, <1>3, <1>5, <1>7, <1>8 DEF StageInv, world
  <1>10. owned' \in [Operations -> Nat] /\ slot' \in Nat /\ image' \in Nat
    BY <1>1, <1>3 DEF UpdaterTypes
  <1>11. gate' \in Operations \union {NoOperation}
    BY <1>1
  <1> QED BY <1>1, <1>5, <1>6, <1>9, <1>10, <1>11, StepKeeps

(* The relaunch and the world move no operation. *)
LEMMA OutsideKeeps ==
    ASSUME UpdaterInv, CloseGame \/ CloseInstallations \/ WorldMoves
    PROVE  UpdaterInv'
  <1>0. UpdaterTypes /\ GateInv /\ StageInv /\ RelaunchInv
    BY DEF UpdaterInv
  <1>8. image \in Nat /\ image <= published
    BY <1>0 DEF UpdaterTypes, StageInv
  <1>1. UNCHANGED <<phase, gate, pc, owned, slot, image, currentVersion>>
    BY DEF CloseGame, CloseInstallations, WorldMoves
  <1>2. published \in Nat /\ published' \in {published, published + 1}
    BY <1>0 DEF CloseGame, CloseInstallations, WorldMoves, UpdaterTypes
  <1>3. /\ busyGame \in BOOLEAN /\ busyInstall \in BOOLEAN
        /\ gameClosed \in BOOLEAN /\ installClosed \in BOOLEAN
    BY <1>0 DEF UpdaterTypes
  <1>4. /\ busyGame' \in BOOLEAN /\ busyInstall' \in BOOLEAN
        /\ gameClosed' \in BOOLEAN /\ installClosed' \in BOOLEAN
    BY <1>3 DEF CloseGame, CloseInstallations, WorldMoves
  <1>5. UpdaterTypes'
    <2>1. published' \in Nat
      BY <1>2
    <2> QED BY <1>0, <1>1, <1>4, <2>1 DEF UpdaterTypes
  <1>6. GateInv' /\ StageInv'
    <2>1. image <= published /\ published <= published' /\ image \in Nat
      BY <1>8, <1>2
    <2>2. image' <= published'
      BY <1>1, <1>2, <2>1
    <2>3. \A n \in Nat : n <= published => n <= published'
      BY <1>2
    <2>4. Offered => Offered'
      BY <1>0, <1>1, <2>3 DEF Offered, Newer, UpdaterTypes
    <2>5. \A o \in Operations : Newer(owned[o]) => Newer(owned[o])'
      BY <1>0, <1>1, <2>3 DEF Newer, UpdaterTypes
    <2>6. Newer(slot) => Newer(slot)'
      BY <1>0, <1>1, <2>3 DEF Newer, UpdaterTypes
    <2> QED BY <1>0, <1>1, <2>2, <2>4, <2>5, <2>6 DEF GateInv, StageInv
  <1>7. RelaunchInv'
    <2>1. CASE CloseGame
      BY <1>0, <2>1 DEF CloseGame, RelaunchInv
    <2>2. CASE CloseInstallations
      <3>1. phase = "ready" /\ gameClosed /\ ~busyGame /\ ~installClosed /\ UNCHANGED <<phase, busyGame, busyInstall>>
        BY <1>0, <2>2 DEF CloseInstallations, RelaunchInv
      <3>2. CASE ~busyInstall /\ installClosed' = TRUE /\ relaunch' = "reserved" /\ UNCHANGED gameClosed
        BY <3>1, <3>2 DEF RelaunchInv
      <3>3. CASE busyInstall /\ gameClosed' = FALSE /\ relaunch' = "none" /\ UNCHANGED installClosed
        BY <3>1, <3>3 DEF RelaunchInv
      <3> QED BY <2>2, <3>2, <3>3 DEF CloseInstallations
    <2>3. CASE WorldMoves
      BY <1>0, <1>3, <2>3 DEF WorldMoves, RelaunchInv
    <2> QED BY <2>1, <2>2, <2>3
  <1> QED BY <1>5, <1>6, <1>7 DEF UpdaterInv

(* The relaunched program starts from the new image with nothing under way. *)
LEMMA StartAgainKeeps ==
    ASSUME UpdaterInv, StartAgain
    PROVE  UpdaterInv'
  <1>1. image \in Nat /\ published \in Nat
    BY DEF UpdaterInv, UpdaterTypes
  <1>2. /\ phase' = "idle" /\ gate' = NoOperation /\ pc' = [o \in Operations |-> "none"]
        /\ owned' = [o \in Operations |-> NoRelease] /\ slot' = NoRelease
        /\ image' = image /\ currentVersion' = image /\ published' = published
    BY DEF StartAgain
  <1>3. gameClosed' = FALSE /\ installClosed' = FALSE /\ relaunch' = "none"
        /\ busyGame' = FALSE /\ busyInstall' = FALSE
    BY DEF StartAgain
  <1>4. UpdaterTypes'
    BY <1>1, <1>2, <1>3 DEF UpdaterTypes, UpdaterSteps, NoRelease
  <1>5. GateInv'
    BY <1>2, OperationsAssumption DEF GateInv, NoOperation
  <1>6. StageInv'
    <2>1. image' <= published'
      BY <1>2 DEF UpdaterInv, StageInv
    <2> QED BY <1>2, <2>1 DEF StageInv, Offered, Retry
  <1>7. RelaunchInv'
    BY <1>3 DEF RelaunchInv
  <1> QED BY <1>4, <1>5, <1>6, <1>7 DEF UpdaterInv

(* The updater starts idle. *)
LEMMA UpdaterStarts ==
    ASSUME UpdaterInit
    PROVE  UpdaterInv
  <1>1. /\ phase = "idle" /\ gate = NoOperation /\ pc = [o \in Operations |-> "none"]
        /\ owned = [o \in Operations |-> NoRelease] /\ slot = NoRelease
        /\ image = NoRelease /\ currentVersion = NoRelease /\ published = NoRelease
    BY DEF UpdaterInit
  <1>2. gameClosed = FALSE /\ installClosed = FALSE /\ relaunch = "none"
        /\ busyGame = FALSE /\ busyInstall = FALSE
    BY DEF UpdaterInit
  <1>3. UpdaterTypes
    BY <1>1, <1>2 DEF UpdaterTypes, UpdaterSteps, NoRelease
  <1>4. GateInv
    BY <1>1, OperationsAssumption DEF GateInv, NoOperation
  <1>5. StageInv
    <2>1. image <= published
      BY <1>1 DEF NoRelease
    <2> QED BY <1>1, <2>1 DEF StageInv, Offered, Retry
  <1>6. RelaunchInv
    BY <1>2 DEF RelaunchInv
  <1> QED BY <1>3, <1>4, <1>5, <1>6 DEF UpdaterInv

(* Every step of the updater keeps its invariant. *)
LEMMA UpdaterNextKeeps ==
    ASSUME UpdaterInv, [UpdaterNext]_updaterVars
    PROVE  UpdaterInv'
  <1>1. CASE UNCHANGED updaterVars
    <2>1. UNCHANGED <<phase, gate, pc, owned, slot, image, currentVersion, published, busyGame,
                      busyInstall, gameClosed, installClosed, relaunch>>
      BY <1>1 DEF updaterVars
    <2>2. UpdaterTypes' /\ GateInv' /\ StageInv'
      BY <2>1 DEF UpdaterInv, UpdaterTypes, GateInv, StageInv, Offered, Newer
    <2>3. RelaunchInv'
      BY <2>1 DEF UpdaterInv, RelaunchInv
    <2> QED BY <2>2, <2>3 DEF UpdaterInv
  <1>2. ASSUME NEW o \in Operations, RunOwned(o) \/ UpdaterStep(o)
        PROVE  UpdaterInv'
    BY <1>2, RunOwnedKeeps, CheckBeginsKeeps, CheckAnswersKeeps, CheckEndsKeeps, InstallBeginsKeeps,
       CensusKeeps, DownloadedKeeps, ActivateKeeps, InstallEndsKeeps DEF UpdaterStep
  <1> QED BY <1>1, <1>2, OutsideKeeps, StartAgainKeeps DEF UpdaterNext

(* No candidate is lost, left over or older than the process or the image, and a      *)
(* relaunch leaves nothing running and closes nothing when it is refused: for any     *)
(* number of operations, releases, requests and restarts.                             *)
THEOREM UpdateAlwaysSound == UpdaterSpec => []UpdateIsSound
  <1>1. ASSUME UpdaterInv PROVE UpdateIsSound
    <2>0. UpdaterTypes /\ GateInv /\ StageInv /\ RelaunchInv
      BY <1>1 DEF UpdaterInv
    <2>1. gate = NoOperation => \A o \in Operations : pc[o] = "none"
      BY <2>0, OperationsAssumption DEF GateInv, NoOperation
    <2>2. gate = NoOperation => \A o \in Operations : owned[o] = NoRelease
      BY <2>0, <2>1 DEF StageInv
    <2>3. gate = NoOperation => (slot # NoRelease) = (phase \in Retry)
      <3>1. gate = NoOperation => (slot # NoRelease <=> phase \in Retry)
        BY <2>0 DEF StageInv, Offered
      <3> QED BY <3>1
    <2>4. gate = NoOperation => (slot = NoRelease \/ (slot > currentVersion /\ slot >= image))
      BY <2>0 DEF StageInv, Offered, Newer
    <2>5. SlotMatchesPhase
      BY <2>2, <2>3, <2>4 DEF SlotMatchesPhase
    <2>6. RelaunchIsSafe
      BY <2>0 DEF RelaunchInv, StageInv, RelaunchIsSafe
    <2> QED BY <2>5, <2>6 DEF UpdateIsSound
  <1> QED BY <1>1, UpdaterStarts, UpdaterNextKeeps, PTL DEF UpdaterSpec

(* ---------------------- the link to a supervisor ------------------------- *)

Messages ==
    [type: {"LaunchAccepted", "ControllerExited", "Refused"}, id: Requests]
      \union [type: {"Error", "Stopped"}, id: {NoRequest}]
Halves == Requests \X {1, 2}

WaiterTypes ==
    /\ launchTx \in [Requests -> {"none", "live", "gone"}]
    /\ exitTx \in [Requests -> {"none", "live", "gone"}]
    /\ launchRx \in [Requests -> {"none", "ok", "error"}]
    /\ exitRx \in [Requests -> {"none", "ok", "error"}]
PipeTypes ==
    /\ wire \in Seq(Halves) /\ taken \in Nat /\ events \in Seq(Messages)
    /\ lives \subseteq Requests /\ supervisor \in {"up", "stopped", "dead"}
ThreadTypes ==
    /\ caller \in [Requests -> {"idle", "writing", "accepting", "held", "register",
                                "registered", "awaiting", "over"}]
    /\ writer \in [Requests -> {"none", "queued", "holding", "half", "sent", "failed"}]
    /\ failing \in [Threads -> 0 .. 3]
    /\ completed \subseteq Requests /\ dispatching \in Requests \union {NoRequest}
    /\ closedOut \in BOOLEAN /\ fatal \in BOOLEAN /\ stoppedFlag \in BOOLEAN
LinkTypes == WaiterTypes /\ PipeTypes /\ ThreadTypes

(* Frames on the pipe: one task holds stdin, and half a frame with nobody to finish it means
   that the session failed or is about to. *)
Breaking == fatal \/ \E r \in Requests : failing[r] = 1
HoldsStdin(r) == writer[r] \in {"holding", "half"}
OpenFrame == wire[Len(wire)]
WireInv ==
    /\ \A r, q \in Requests : HoldsStdin(r) /\ HoldsStdin(q) => r = q
    /\ \A r \in Requests : writer[r] = "half" => wire # <<>> /\ OpenFrame = <<r, 1>>
    /\ wire # <<>> /\ OpenFrame[2] = 1 => Breaking \/ writer[OpenFrame[1]] = "half"
    /\ GluedIsFatal

(* How a session ends: stopped in order, with every controller gone, or failed. *)
InPipe(m) == \E i \in 1 .. Len(events) : events[i] = m
EndInv ==
    /\ supervisor = "stopped" => lives = {}
    /\ closedOut => events = <<>> /\ supervisor # "up"
    /\ InPipe([type |-> "Stopped", id |-> NoRequest]) => supervisor = "stopped"
    /\ stoppedFlag /\ ~fatal => supervisor = "stopped"
    /\ closedOut /\ ~fatal => failing[Reader] = 1 \/ stoppedFlag
    /\ \A t \in Threads : failing[t] \in {2, 3} => fatal \/ stoppedFlag
    /\ \A r \in Requests : failing[r] # 0 => writer[r] = "failed"

(* A controller that was accepted runs, or its exit is in the pipe or was kept. *)
Accepted(r) ==
    \/ launchRx[r] = "ok" \/ InPipe([type |-> "LaunchAccepted", id |-> r])
    \/ caller[r] \in {"held", "register", "registered", "awaiting"}
Owed(r) == r \in lives \/ r \in completed \/ InPipe([type |-> "ControllerExited", id |-> r])
OwedInv == \A r \in Requests : caller[r] # "over" /\ Accepted(r) => Owed(r)

LaunchWaits(r) ==
    /\ caller[r] = "idle" => writer[r] = "none"
    /\ caller[r] = "accepting" => writer[r] = "sent"
    /\ caller[r] \in {"writing", "accepting"} /\ launchRx[r] = "none" =>
         /\ launchTx[r] = "live"
         /\ writer[r] = "sent" => (closedOut => failing[Reader] \in {1, 2})
LaunchInv == \A r \in Requests : LaunchWaits(r)

ExitWaits(r) ==
    /\ caller[r] \in {"registered", "awaiting"} /\ exitRx[r] = "none" => exitTx[r] = "live"
    /\ caller[r] = "awaiting" /\ exitRx[r] = "none" =>
         /\ r \in completed => dispatching = r
         /\ fatal => \E t \in Threads : failing[t] \in {2, 3}
         /\ closedOut => failing[Reader] # 0
ExitInv == \A r \in Requests : ExitWaits(r)

LinkInv == LinkTypes /\ WireInv /\ EndInv /\ OwedInv /\ LaunchInv /\ ExitInv

(* The reader of the pipe is none of the requests. *)
LEMMA ReaderApart ==
    /\ Reader \in Threads /\ Reader \notin Requests /\ NoRequest \notin Requests
    /\ \A r \in Requests : r \in Threads /\ r # Reader /\ r # NoRequest
    /\ \A t \in Threads : t \in Requests \/ t = Reader
  BY RequestsAssumption DEF Threads

(* A link starts with an empty pipe and no caller. *)
LEMMA LinkStart == LinkInit => LinkInv
  <1> SUFFICES ASSUME LinkInit
               PROVE  LinkInv
    OBVIOUS
  <1>1. LinkTypes
    <2>1. WaiterTypes
      BY DEF LinkInit, WaiterTypes
    <2>2. PipeTypes
      BY EmptySeq DEF LinkInit, PipeTypes
    <2>3. ThreadTypes
      <3>1. 0 \in 0 .. 3
        OBVIOUS
      <3>2. failing \in [Threads -> 0 .. 3]
        BY <3>1 DEF LinkInit
      <3>3. completed = {} /\ dispatching = NoRequest /\ closedOut = FALSE /\ fatal = FALSE
            /\ stoppedFlag = FALSE
        BY DEF LinkInit
      <3>4. caller \in [Requests -> {"idle"}] /\ writer \in [Requests -> {"none"}]
        BY DEF LinkInit
      <3> QED BY <3>2, <3>3, <3>4 DEF ThreadTypes
    <2> QED BY <2>1, <2>2, <2>3 DEF LinkTypes
  <1>2. Len(wire) = 0 /\ Len(events) = 0 /\ wire = <<>> /\ events = <<>>
    BY DEF LinkInit
  <1>3. WireInv
    BY <1>2 DEF LinkInit, WireInv, HoldsStdin, GluedIsFatal
  <1>4. \A m : ~InPipe(m)
    BY <1>2 DEF InPipe
  <1>5. EndInv
    BY <1>4, ReaderApart DEF LinkInit, EndInv
  <1>6. OwedInv /\ LaunchInv /\ ExitInv
    BY <1>4 DEF LinkInit, OwedInv, Accepted, LaunchInv, LaunchWaits, ExitInv, ExitWaits
  <1> QED BY <1>1, <1>3, <1>5, <1>6 DEF LinkInv

(* What an event does to the events that were not read. *)
LEMMA EmitAdds ==
    ASSUME PipeTypes, NEW m \in Messages, events' = Append(events, m)
    PROVE  /\ events' \in Seq(Messages)
           /\ InPipe(m)'
           /\ \A x : InPipe(x) => InPipe(x)'
           /\ \A x : InPipe(x)' => InPipe(x) \/ x = m
  <1>1. /\ events \in Seq(Messages) /\ Len(events') = Len(events) + 1 /\ Len(events) \in Nat
        /\ events' \in Seq(Messages)
        /\ \A i \in 1 .. Len(events) : events'[i] = events[i]
        /\ events'[Len(events) + 1] = m
    BY AppendProperties DEF PipeTypes
  <1>2. \A i \in 1 .. Len(events') : i \in 1 .. Len(events) \/ i = Len(events) + 1
    BY <1>1
  <1>3. \A i \in 1 .. Len(events) : i \in 1 .. Len(events')
    BY <1>1
  <1>4. Len(events) + 1 \in 1 .. Len(events')
    BY <1>1
  <1> QED BY <1>1, <1>2, <1>3, <1>4 DEF InPipe

(* To take an event off the pipe leaves the later ones. *)
LEMMA TailDrops ==
    ASSUME PipeTypes, events # <<>>, events' = Tail(events)
    PROVE  /\ events' \in Seq(Messages) /\ Head(events) \in Messages
           /\ InPipe(Head(events))
           /\ \A x : InPipe(x)' => InPipe(x)
           /\ \A x : InPipe(x) => InPipe(x)' \/ x = Head(events)
  <1>1. /\ events \in Seq(Messages) /\ Len(events) \in Nat /\ Len(events) # 0
        /\ Head(events) = events[1]
        /\ Head(events) \in Messages /\ events' \in Seq(Messages) /\ Len(events') = Len(events) - 1
        /\ \A i \in 1 .. Len(events') : events'[i] = events[i + 1]
    BY HeadTailProperties DEF PipeTypes
  <1>2. \A i \in 1 .. Len(events) : i = 1 \/ (i - 1 \in 1 .. Len(events') /\ (i - 1) + 1 = i)
    BY <1>1
  <1>3. \A i \in 1 .. Len(events') : i + 1 \in 1 .. Len(events)
    BY <1>1
  <1>4. 1 \in 1 .. Len(events)
    BY <1>1
  <1> QED BY <1>1, <1>2, <1>3, <1>4 DEF InPipe

(* The supervisor reads up to the first end of a line. *)
LEMMA LeastOf ==
    ASSUME NEW T \in SUBSET Nat, T # {}
    PROVE  \E x \in T : \A y \in T : x <= y
  <1>1. \E x \in T : \A y \in T : ~(<<y, x>> \in OpToRel(<, Nat))
    BY NatLessThanWellFounded, WFMin
  <1>2. PICK x \in T : \A y \in T : ~(<<y, x>> \in OpToRel(<, Nat))
    BY <1>1
  <1>3. ASSUME NEW y \in T PROVE ~(y < x)
    BY <1>2 DEF OpToRel
  <1>4. \A y \in T : x \in Nat /\ y \in Nat /\ ~(y < x)
    BY <1>3
  <1>5. \A y \in T : x <= y
    BY <1>4, SMT
  <1> QED BY <1>5

(* The reader ends a line at the second half of a frame. *)
LEMMA LineEndIs ==
    ASSUME PipeTypes, LineRead
    PROVE  LineEnd \in taken + 1 .. Len(wire) /\ wire[LineEnd] \in Halves
  <1> DEFINE ends == {i \in taken + 1 .. Len(wire) : wire[i][2] = 2}
  <1>1. ends \in SUBSET Nat /\ ends # {}
    BY DEF LineRead, PipeTypes
  <1>2. PICK x \in ends : \A y \in ends : x <= y
    BY <1>1, LeastOf
  <1>3. x \in taken + 1 .. Len(wire) /\ wire[x][2] = 2 /\ x \in Nat /\ taken \in Nat /\ Len(wire) \in Nat
    BY <1>1, <1>2 DEF PipeTypes
  <1>4. ASSUME NEW j \in taken + 1 .. x - 1
        PROVE  wire[j][2] = 1
    <2>1. j \in taken + 1 .. Len(wire) /\ j \in 1 .. Len(wire) /\ ~(x <= j)
      BY <1>3, <1>4
    <2>2. j \notin ends
      BY <1>2, <2>1
    <2>3. wire[j] \in Halves
      BY <2>1, ElementOfSeq DEF PipeTypes
    <2> QED BY <2>1, <2>2, <2>3 DEF Halves
  <1>5. LineEnd \in taken + 1 .. Len(wire)
    BY <1>3, <1>4 DEF LineEnd
  <1>6. LineEnd \in 1 .. Len(wire)
    BY <1>3, <1>5
  <1> QED BY <1>5, <1>6, ElementOfSeq DEF PipeTypes

(* The maps of waiters keep their types whatever is answered or failed. *)
LEMMA AnswersTyped ==
    ASSUME NEW tx \in [Requests -> {"none", "live", "gone"}],
           NEW rx \in [Requests -> {"none", "ok", "error"}]
    PROVE  /\ \A r : \A v \in {"ok", "error"} :
                Answer(tx, rx, r, v) \in [Requests -> {"none", "ok", "error"}]
           /\ Failed(tx, rx) \in [Requests -> {"none", "ok", "error"}]
           /\ Emptied(tx) \in [Requests -> {"none", "live", "gone"}]
           /\ \A r : Orphaned(tx, r) \in [Requests -> {"none", "live", "gone"}]
  BY DEF Answer, Failed, Emptied, Orphaned

(* The reader hands an event to the waiters that are registered. *)
LEMMA DispatchTyped ==
    ASSUME LinkTypes, NEW m \in Messages, Dispatch(m)
    PROVE  /\ WaiterTypes'
           /\ completed' \subseteq Requests /\ dispatching' \in Requests \union {NoRequest}
           /\ failing' \in [Threads -> 0 .. 3] /\ stoppedFlag' \in BOOLEAN
  <1> USE DEF LinkTypes, WaiterTypes, ThreadTypes
  <1>1. CASE m.type = "LaunchAccepted"
    <2>1. /\ launchRx' = Answer(launchTx, launchRx, m.id, "ok")
          /\ launchTx' = [launchTx EXCEPT ![m.id] = "none"]
          /\ UNCHANGED <<exitTx, exitRx, completed, dispatching, failing, stoppedFlag>>
      BY <1>1 DEF Dispatch
    <2> QED BY <2>1, AnswersTyped
  <1>2. CASE m.type = "ControllerExited"
    <2>1. m.id \in Requests
      BY <1>2 DEF Messages
    <2>2. /\ completed' = completed \union {m.id} /\ dispatching' = m.id
          /\ UNCHANGED <<launchTx, launchRx, exitTx, exitRx, failing, stoppedFlag>>
      BY <1>2 DEF Dispatch, KeepExit, waiterVars
    <2> QED BY <2>1, <2>2
  <1>3. CASE m.type = "Refused"
    <2>1. /\ launchRx' = Answer(launchTx, launchRx, m.id, "error")
          /\ exitRx' = Answer(exitTx, exitRx, m.id, "error")
          /\ launchTx' = [launchTx EXCEPT ![m.id] = "none"]
          /\ exitTx' = [exitTx EXCEPT ![m.id] = "none"]
          /\ UNCHANGED <<completed, dispatching, failing, stoppedFlag>>
      BY <1>3 DEF Dispatch
    <2> QED BY <2>1, AnswersTyped
  <1>4. CASE m.type = "Error"
    <2>1. /\ failing' = [failing EXCEPT ![Reader] = 1]
          /\ UNCHANGED <<launchTx, launchRx, exitTx, exitRx, completed, dispatching, stoppedFlag>>
      BY <1>4 DEF Dispatch, waiterVars
    <2>2. 1 \in 0 .. 3
      OBVIOUS
    <2> QED BY <2>1, <2>2
  <1>5. CASE m.type = "Stopped"
    <2>1. /\ stoppedFlag' = TRUE
          /\ UNCHANGED <<launchTx, launchRx, exitTx, exitRx, completed, dispatching, failing>>
      BY <1>5 DEF Dispatch, waiterVars
    <2> QED BY <2>1
  <1> QED BY <1>1, <1>2, <1>3, <1>4, <1>5 DEF Messages

(* The callers keep the types. *)
LEMMA CallerStepsTyped ==
    ASSUME LinkTypes, NEW r \in Requests, CallerStep(r)
    PROVE  LinkTypes'
  <1>1. UNCHANGED <<wire, taken, supervisor, lives, events, failing, closedOut, stoppedFlag,
                    dispatching, fatal>>
    BY DEF CallerStep, LaunchRequest, LaunchReturns, WaitExit, RegisterExit, ResolveAgain,
           WaitReturns, GiveUp, supervisorVars, readerVars
  <1>2. PipeTypes'
    BY <1>1 DEF LinkTypes, PipeTypes
  <1>3. /\ caller' \in [Requests -> {"idle", "writing", "accepting", "held", "register",
                                     "registered", "awaiting", "over"}]
        /\ completed' \subseteq Requests
        /\ writer' \in [Requests -> {"none", "queued", "holding", "half", "sent", "failed"}]
    <2>1. \E to \in {"writing", "accepting", "held", "register", "registered", "awaiting", "over"} :
             caller' = [caller EXCEPT ![r] = to]
      BY DEF CallerStep, LaunchRequest, LaunchReturns, WaitExit, RegisterExit, ResolveAgain,
             WaitReturns, GiveUp, CallerAt
    <2>2. completed' = completed \/ completed' = completed \ {r}
      BY DEF CallerStep, LaunchRequest, LaunchReturns, WaitExit, RegisterExit, ResolveAgain,
             WaitReturns, GiveUp
    <2>3. writer' = writer \/ writer' = [writer EXCEPT ![r] = "queued"]
      BY DEF CallerStep, LaunchRequest, LaunchReturns, WaitExit, RegisterExit, ResolveAgain,
             WaitReturns, GiveUp
    <2> QED BY <2>1, <2>2, <2>3 DEF LinkTypes, ThreadTypes
  <1>4. /\ \/ launchTx' = launchTx \/ launchTx' = [launchTx EXCEPT ![r] = "live"]
           \/ launchTx' = [launchTx EXCEPT ![r] = "none"] \/ launchTx' = Orphaned(launchTx, r)
        /\ \/ exitTx' = exitTx \/ exitTx' = [exitTx EXCEPT ![r] = "live"]
           \/ exitTx' = [exitTx EXCEPT ![r] = "none"] \/ exitTx' = Orphaned(exitTx, r)
        /\ launchRx' = launchRx
        /\ exitRx' = exitRx \/ exitRx' = [exitRx EXCEPT ![r] = "none"]
    BY DEF CallerStep, LaunchRequest, LaunchReturns, WaitExit, RegisterExit, ResolveAgain,
           WaitReturns, GiveUp, waiterVars
  <1>5. WaiterTypes'
    BY <1>4, AnswersTyped, SMTT(30) DEF LinkTypes, WaiterTypes
  <1> QED BY <1>1, <1>2, <1>3, <1>5 DEF LinkTypes, ThreadTypes

(* The writers of frames keep the types. *)
LEMMA WriterStepsTyped ==
    ASSUME LinkTypes, NEW r \in Requests, WriterStep(r)
    PROVE  LinkTypes'
  <1>1. UNCHANGED <<taken, supervisor, lives, events, closedOut, stoppedFlag, dispatching, fatal,
                    completed, caller, launchTx, launchRx, exitTx, exitRx>>
    BY DEF WriterStep, SendRequest, WriteTimesOut, supervisorVars, readerVars, waiterVars, callerVars
  <1>2. /\ \E to \in {"failed", "holding", "half", "sent"} : writer' = [writer EXCEPT ![r] = to]
        /\ failing' = failing \/ failing' = [failing EXCEPT ![r] = 1]
        /\ \E h \in {<<>>, <<<<r, 1>>>>, <<<<r, 2>>>>} : wire' = wire \o h \/ wire' = wire
    BY DEF WriterStep, SendRequest, WriteTimesOut, WriterFails, WriterMoves
  <1>3. <<>> \in Seq(Halves) /\ <<<<r, 1>>>> \in Seq(Halves) /\ <<<<r, 2>>>> \in Seq(Halves)
    <2>1. <<r, 1>> \in Halves /\ <<r, 2>> \in Halves
      BY DEF Halves
    <2> QED BY <2>1
  <1>4. wire' \in Seq(Halves)
    <2>1. wire \in Seq(Halves)
      BY DEF LinkTypes, PipeTypes
    <2>2. PICK h \in Seq(Halves) : wire' = wire \o h \/ wire' = wire
      BY <1>2, <1>3
    <2> QED BY <2>1, <2>2, ConcatProperties
  <1>5. failing' \in [Threads -> 0 .. 3]
    <2>1. 1 \in 0 .. 3
      OBVIOUS
    <2> QED BY <1>2, <2>1 DEF LinkTypes, ThreadTypes
  <1>6. writer' \in [Requests -> {"none", "queued", "holding", "half", "sent", "failed"}]
    BY <1>2 DEF LinkTypes, ThreadTypes
  <1> QED BY <1>1, <1>4, <1>5, <1>6 DEF LinkTypes, PipeTypes, WaiterTypes, ThreadTypes

(* A failed write that ends the session keeps the types. *)
LEMMA FatalStepsTyped ==
    ASSUME LinkTypes, NEW t \in Threads, SetFatal(t)
    PROVE  LinkTypes'
  <1>1. UNCHANGED <<taken, supervisor, lives, events, closedOut, dispatching, completed, caller,
                    writer, wire>>
    BY DEF SetFatal, supervisorVars, callerVars
  <1>2. /\ \E n \in {0, 2, 3} : failing' = [failing EXCEPT ![t] = n]
        /\ fatal' \in {TRUE, fatal} /\ stoppedFlag' \in {TRUE, stoppedFlag}
        /\ launchTx' \in {launchTx, Emptied(launchTx)} /\ exitTx' \in {exitTx, Emptied(exitTx)}
        /\ launchRx' \in {launchRx, Failed(launchTx, launchRx)}
        /\ exitRx' \in {exitRx, Failed(exitTx, exitRx)}
    BY DEF SetFatal, waiterVars
  <1>3. WaiterTypes'
    <2>1. /\ Emptied(launchTx) \in [Requests -> {"none", "live", "gone"}]
          /\ Emptied(exitTx) \in [Requests -> {"none", "live", "gone"}]
          /\ Failed(launchTx, launchRx) \in [Requests -> {"none", "ok", "error"}]
          /\ Failed(exitTx, exitRx) \in [Requests -> {"none", "ok", "error"}]
      BY AnswersTyped DEF LinkTypes, WaiterTypes
    <2> QED BY <1>2, <2>1 DEF LinkTypes, WaiterTypes
  <1>4. failing' \in [Threads -> 0 .. 3]
    <2>1. 0 \in 0 .. 3 /\ 2 \in 0 .. 3 /\ 3 \in 0 .. 3
      OBVIOUS
    <2> QED BY <1>2, <2>1 DEF LinkTypes, ThreadTypes
  <1>5. fatal' \in BOOLEAN /\ stoppedFlag' \in BOOLEAN
    BY <1>2 DEF LinkTypes, ThreadTypes
  <1> QED BY <1>1, <1>3, <1>4, <1>5 DEF LinkTypes, PipeTypes, ThreadTypes

(* The reader keeps the types. *)
LEMMA ReaderStepsTyped ==
    ASSUME LinkTypes, SpawnReader \/ DispatchExit
    PROVE  LinkTypes'
  <1>1. CASE DispatchExit
    <2>1. /\ UNCHANGED <<taken, supervisor, lives, events, closedOut, completed, caller, writer, wire,
                         failing, fatal, stoppedFlag, launchTx, launchRx>>
          /\ dispatching' = NoRequest
          /\ exitRx' = Answer(exitTx, exitRx, dispatching, "ok")
          /\ exitTx' = [exitTx EXCEPT ![dispatching] = "none"]
      BY <1>1 DEF DispatchExit, supervisorVars, callerVars
    <2>2. WaiterTypes'
      BY <2>1, AnswersTyped DEF LinkTypes, WaiterTypes
    <2> QED BY <2>1, <2>2 DEF LinkTypes, PipeTypes, ThreadTypes
  <1>2. CASE SpawnReader
    <2>1. UNCHANGED <<taken, supervisor, lives, caller, writer, wire, fatal>>
      BY <1>2 DEF SpawnReader, supervisorVars, callerVars
    <2>2. CASE events # <<>> /\ events' = Tail(events) /\ Dispatch(Head(events)) /\ UNCHANGED closedOut
      <3>1. events' \in Seq(Messages) /\ Head(events) \in Messages
        BY <2>2, TailDrops DEF LinkTypes
      <3>2. /\ WaiterTypes'
            /\ completed' \subseteq Requests /\ dispatching' \in Requests \union {NoRequest}
            /\ failing' \in [Threads -> 0 .. 3] /\ stoppedFlag' \in BOOLEAN
        BY <2>2, <3>1, DispatchTyped
      <3> QED BY <2>1, <2>2, <3>1, <3>2 DEF LinkTypes, PipeTypes, ThreadTypes
    <2>3. CASE /\ closedOut' = TRUE
               /\ failing' = [failing EXCEPT ![Reader] = IF stoppedFlag THEN 2 ELSE 1]
               /\ UNCHANGED <<events, waiterVars, completed, dispatching, stoppedFlag>>
      <3>1. (IF stoppedFlag THEN 2 ELSE 1) \in 0 .. 3
        OBVIOUS
      <3>2. failing' \in [Threads -> 0 .. 3]
        BY <2>3, <3>1 DEF LinkTypes, ThreadTypes
      <3> QED BY <2>1, <2>3, <3>2 DEF LinkTypes, PipeTypes, ThreadTypes, WaiterTypes, waiterVars
    <2> QED BY <1>2, <2>2, <2>3 DEF SpawnReader
  <1> QED BY <1>1, <1>2

(* What the supervisor does: it answers a request or exits, and says so in the pipe. *)
LEMMA SupervisorDoes ==
    ASSUME LinkTypes, SupervisorStep
    PROVE  /\ supervisor = "up"
           /\ UNCHANGED <<callerVars, writer, failing, wire, dispatching, closedOut, stoppedFlag,
                          waiterVars, completed, fatal>>
           /\ taken' \in Nat
           /\ \/ /\ supervisor' = supervisor
                 /\ \/ \E r \in Requests :
                         /\ lives' = lives \union {r}
                         /\ events' = Append(events, [type |-> "LaunchAccepted", id |-> r])
                    \/ \E r \in Requests :
                         /\ lives' = lives
                         /\ events' = Append(events, [type |-> "Refused", id |-> r])
                    \/ /\ lives' = lives
                       /\ events' = Append(events, [type |-> "Error", id |-> NoRequest])
                    \/ \E r \in lives :
                         /\ lives' = lives \ {r}
                         /\ events' = Append(events, [type |-> "ControllerExited", id |-> r])
              \/ /\ supervisor' = "stopped" /\ lives = {} /\ lives' = lives
                 /\ events' = Append(events, [type |-> "Stopped", id |-> NoRequest])
              \/ supervisor' = "dead" /\ lives' = lives /\ events' = events
  <1>1. UNCHANGED <<callerVars, writer, failing, wire, dispatching, closedOut, stoppedFlag,
                    waiterVars, completed, fatal>>
    BY DEF SupervisorStep, readerVars
  <1>2. CASE SupervisorReads
    <2>1. LineEnd \in taken + 1 .. Len(wire) /\ wire[LineEnd] \in Halves /\ taken \in Nat
      BY <1>2, LineEndIs DEF SupervisorReads, LinkTypes, PipeTypes
    <2>2. wire[LineEnd][1] \in Requests
      BY <2>1 DEF Halves
    <2>3. Len(wire) \in Nat
      BY DEF LinkTypes, PipeTypes
    <2>4. LineEnd \in Nat
      BY <2>1, <2>3
    <2>5. /\ supervisor = "up" /\ supervisor' = supervisor /\ taken' = LineEnd
          /\ \/ lives' = lives \union {wire[LineEnd][1]} /\ Emits("LaunchAccepted", wire[LineEnd][1])
             \/ Emits("Refused", wire[LineEnd][1]) /\ UNCHANGED lives
             \/ Emits("Error", NoRequest) /\ UNCHANGED lives
      BY <1>2 DEF SupervisorReads
    <2> QED BY <1>1, <2>2, <2>4, <2>5 DEF Emits
  <1>3. CASE ControllerExits
    BY <1>1, <1>3 DEF ControllerExits, Emits, LinkTypes, PipeTypes
  <1>4. CASE SupervisorEnds
    BY <1>1, <1>4 DEF SupervisorEnds, Emits, LinkTypes, PipeTypes
  <1> QED BY <1>2, <1>3, <1>4 DEF SupervisorStep

(* The supervisor keeps the types. *)
LEMMA SupervisorStepsTyped ==
    ASSUME LinkTypes, SupervisorStep
    PROVE  LinkTypes'
  <1>1. \A r \in Requests : \A k \in {"LaunchAccepted", "Refused", "ControllerExited"} :
            [type |-> k, id |-> r] \in Messages
    BY DEF Messages
  <1>2. \A k \in {"Error", "Stopped"} : [type |-> k, id |-> NoRequest] \in Messages
    BY DEF Messages
  <1>3. PipeTypes /\ lives \subseteq Requests
    BY DEF LinkTypes, PipeTypes
  <1>4. events' = events \/ \E m \in Messages : events' = Append(events, m)
    BY SupervisorDoes, <1>1, <1>2, <1>3
  <1>5. events' \in Seq(Messages)
    BY <1>3, <1>4, EmitAdds DEF PipeTypes
  <1>6. /\ lives' \subseteq Requests /\ supervisor' \in {"up", "stopped", "dead"} /\ taken' \in Nat
        /\ UNCHANGED <<caller, writer, failing, wire, dispatching, closedOut, stoppedFlag,
                       launchTx, launchRx, exitTx, exitRx, completed, fatal>>
    BY SupervisorDoes, <1>3 DEF callerVars, waiterVars
  <1> QED BY <1>5, <1>6 DEF LinkTypes, WaiterTypes, PipeTypes, ThreadTypes

(* Every step of the link keeps the types. *)
LEMMA LinkTyped ==
    ASSUME LinkTypes, LinkNext
    PROVE  LinkTypes'
  BY CallerStepsTyped, WriterStepsTyped, FatalStepsTyped, ReaderStepsTyped, SupervisorStepsTyped
     DEF LinkNext

(* What a caller does to its own request, and that it leaves the others alone. *)
CallerMoves(r) ==
    \/ /\ caller[r] = "idle" /\ caller'[r] = "writing"
       /\ launchTx'[r] = "live" /\ writer'[r] = "queued" /\ exitTx'[r] = exitTx[r]
    \/ /\ caller[r] = "writing" /\ caller'[r] = "accepting" /\ writer[r] = "sent"
       /\ writer'[r] = "sent" /\ launchTx'[r] = launchTx[r]
    \/ caller[r] = "accepting" /\ caller'[r] = "held" /\ launchRx[r] = "ok" /\ writer'[r] = writer[r]
    \/ caller[r] = "held" /\ caller'[r] = "register" /\ writer'[r] = writer[r]
    \/ /\ caller[r] = "register" /\ caller'[r] = "registered" /\ writer'[r] = writer[r]
       /\ exitTx'[r] = "live"
    \/ /\ caller[r] = "registered" /\ caller'[r] = "awaiting" /\ writer'[r] = writer[r]
       /\ r \notin completed /\ ~fatal /\ exitTx'[r] = exitTx[r] /\ exitRx'[r] = exitRx[r]
    \/ caller[r] = "awaiting" /\ caller'[r] = "held" /\ writer'[r] = writer[r]

(* What a step of a caller may change, for the caller itself and for the others. *)
LEMMA CallerDoes ==
    ASSUME LinkTypes, NEW r \in Requests, CallerStep(r)
    PROVE  /\ UNCHANGED <<wire, supervisor, lives, events, failing, closedOut, stoppedFlag,
                          dispatching, fatal, launchRx>>
           /\ \A q \in Requests \ {r} :
                /\ caller'[q] = caller[q] /\ writer'[q] = writer[q]
                /\ launchTx'[q] = launchTx[q] /\ exitTx'[q] = exitTx[q] /\ exitRx'[q] = exitRx[q]
                /\ q \in completed' <=> q \in completed
           /\ \/ caller'[r] = "over" /\ writer'[r] = writer[r] /\ caller[r] # "idle"
              \/ CallerMoves(r) /\ completed' = completed
  <1>1. UNCHANGED <<wire, supervisor, lives, events, failing, closedOut, stoppedFlag,
                    dispatching, fatal, launchRx>>
    BY DEF CallerStep, LaunchRequest, LaunchReturns, WaitExit, RegisterExit, ResolveAgain,
           WaitReturns, GiveUp, supervisorVars, readerVars, waiterVars
  <1> USE DEF LinkTypes, ThreadTypes, WaiterTypes, CallerAt, CallerMoves, Orphaned
  <1>2. CASE LaunchRequest(r)
    BY <1>1, <1>2 DEF LaunchRequest
  <1>3. CASE LaunchReturns(r)
    BY <1>1, <1>3 DEF LaunchReturns
  <1>4. CASE WaitExit(r)
    <2>1. UNCHANGED <<writer, launchTx, exitTx, exitRx>> /\ completed' = completed \ {r}
      BY <1>4 DEF WaitExit, waiterVars
    <2>2. \/ caller' = [caller EXCEPT ![r] = "over"] /\ caller[r] = "held"
          \/ caller' = [caller EXCEPT ![r] = "register"] /\ caller[r] = "held" /\ r \notin completed
      BY <1>4 DEF WaitExit, Resolved
    <2> QED BY <1>1, <2>1, <2>2
  <1>5. CASE RegisterExit(r)
    BY <1>1, <1>5 DEF RegisterExit
  <1>6. CASE ResolveAgain(r)
    <2>1. UNCHANGED <<writer, launchTx, exitRx>>
      BY <1>6 DEF ResolveAgain
    <2>2. \/ /\ caller' = [caller EXCEPT ![r] = "over"] /\ caller[r] = "registered"
             /\ exitTx' = [exitTx EXCEPT ![r] = "none"] /\ completed' = completed \ {r}
          \/ /\ caller' = [caller EXCEPT ![r] = "awaiting"] /\ caller[r] = "registered"
             /\ r \notin completed /\ ~fatal /\ UNCHANGED <<exitTx, completed>>
      BY <1>6 DEF ResolveAgain, Resolved
    <2> QED BY <1>1, <2>1, <2>2
  <1>7. CASE WaitReturns(r)
    <2>1. UNCHANGED <<writer, launchTx, exitTx, exitRx>>
      BY <1>7 DEF WaitReturns, waiterVars
    <2>2. caller' = [caller EXCEPT ![r] = "over"] /\ caller[r] = "awaiting"
      BY <1>7 DEF WaitReturns
    <2>3. completed' = completed \/ completed' = completed \ {r}
      BY <1>7 DEF WaitReturns
    <2> QED BY <1>1, <2>1, <2>2, <2>3
  <1>8. CASE GiveUp(r)
    <2>1. UNCHANGED <<writer, exitRx, completed>>
      BY <1>8 DEF GiveUp
    <2>2. \/ /\ caller' = [caller EXCEPT ![r] = "over"] /\ caller[r] \in {"writing", "accepting"}
             /\ launchTx' = Orphaned(launchTx, r) /\ UNCHANGED exitTx
          \/ /\ caller' = [caller EXCEPT ![r] = "held"] /\ caller[r] = "awaiting"
             /\ exitTx' = Orphaned(exitTx, r) /\ UNCHANGED launchTx
      BY <1>8 DEF GiveUp
    <2>3. \A q \in Requests \ {r} : Orphaned(launchTx, r)[q] = launchTx[q]
                                    /\ Orphaned(exitTx, r)[q] = exitTx[q]
      OBVIOUS
    <2> QED BY <1>1, <2>1, <2>2, <2>3
  <1> QED BY <1>2, <1>3, <1>4, <1>5, <1>6, <1>7, <1>8 DEF CallerStep

(* What a writing task does. *)
LEMMA WriterDoes ==
    ASSUME LinkTypes, NEW r \in Requests, WriterStep(r)
    PROVE  /\ UNCHANGED <<supervisor, lives, events, closedOut, stoppedFlag, dispatching, fatal,
                          completed, caller, launchTx, launchRx, exitTx, exitRx>>
           /\ \A q \in Requests \ {r} : writer'[q] = writer[q]
           /\ \A t \in Threads : t # r => failing'[t] = failing[t]
           /\ writer[r] \in {"queued", "holding", "half"}
           /\ \/ writer'[r] = "failed"
              \/ /\ writer'[r] \in {"holding", "half"} \/ (writer'[r] = "sent" /\ supervisor = "up")
                 /\ failing' = failing
  <1>1. UNCHANGED <<supervisor, lives, events, closedOut, stoppedFlag, dispatching, fatal,
                    completed, caller, launchTx, launchRx, exitTx, exitRx>>
    BY DEF WriterStep, SendRequest, WriteTimesOut, supervisorVars, readerVars, waiterVars, callerVars
  <1>2. /\ writer[r] \in {"queued", "holding", "half"}
        /\ \/ writer' = [writer EXCEPT ![r] = "failed"] /\ failing' = [failing EXCEPT ![r] = 1]
           \/ writer' = [writer EXCEPT ![r] = "holding"] /\ failing' = failing
           \/ writer' = [writer EXCEPT ![r] = "half"] /\ failing' = failing
           \/ writer' = [writer EXCEPT ![r] = "sent"] /\ failing' = failing /\ supervisor = "up"
    BY DEF WriterStep, SendRequest, WriteTimesOut, WriterFails, WriterMoves
  <1> QED BY <1>1, <1>2, ReaderApart DEF LinkTypes, ThreadTypes

(* What the reader does with the next event, or at the end of stdout. *)
ReaderTakes(m) ==
    \/ /\ m = [type |-> "LaunchAccepted", id |-> m.id] /\ m.id \in Requests
       /\ launchRx' = Answer(launchTx, launchRx, m.id, "ok")
       /\ launchTx' = [launchTx EXCEPT ![m.id] = "none"]
       /\ UNCHANGED <<exitTx, exitRx, completed, dispatching, failing, stoppedFlag>>
    \/ /\ m = [type |-> "ControllerExited", id |-> m.id] /\ m.id \in Requests
       /\ completed' = completed \union {m.id} /\ dispatching' = m.id
       /\ UNCHANGED <<launchTx, launchRx, exitTx, exitRx, failing, stoppedFlag>>
    \/ /\ m = [type |-> "Refused", id |-> m.id] /\ m.id \in Requests
       /\ launchRx' = Answer(launchTx, launchRx, m.id, "error")
       /\ exitRx' = Answer(exitTx, exitRx, m.id, "error")
       /\ launchTx' = [launchTx EXCEPT ![m.id] = "none"]
       /\ exitTx' = [exitTx EXCEPT ![m.id] = "none"]
       /\ UNCHANGED <<completed, dispatching, failing, stoppedFlag>>
    \/ /\ m = [type |-> "Error", id |-> NoRequest] /\ failing' = [failing EXCEPT ![Reader] = 1]
       /\ UNCHANGED <<launchTx, launchRx, exitTx, exitRx, completed, dispatching, stoppedFlag>>
    \/ /\ m = [type |-> "Stopped", id |-> NoRequest] /\ stoppedFlag' = TRUE
       /\ UNCHANGED <<launchTx, launchRx, exitTx, exitRx, completed, dispatching, failing>>
ReaderEnds ==
    /\ events = <<>> /\ supervisor # "up" /\ closedOut' = TRUE
    /\ failing' = [failing EXCEPT ![Reader] = IF stoppedFlag THEN 2 ELSE 1]
    /\ UNCHANGED <<events, launchTx, launchRx, exitTx, exitRx, completed, dispatching, stoppedFlag>>

(* What a step of the reader may change. *)
LEMMA ReaderDoes ==
    ASSUME LinkTypes, SpawnReader
    PROVE  /\ UNCHANGED <<supervisor, lives, caller, writer, wire, fatal>>
           /\ failing[Reader] = 0 /\ dispatching = NoRequest /\ closedOut = FALSE
           /\ \/ ReaderEnds
              \/ /\ events # <<>> /\ events' = Tail(events) /\ UNCHANGED closedOut
                 /\ Head(events) \in Messages /\ ReaderTakes(Head(events))
  <1>1. UNCHANGED <<supervisor, lives, caller, writer, wire, fatal>>
    BY DEF SpawnReader, supervisorVars, callerVars
  <1>2. failing[Reader] = 0 /\ dispatching = NoRequest /\ closedOut = FALSE
    BY DEF SpawnReader, ReaderFree, LinkTypes, ThreadTypes
  <1>3. CASE events # <<>> /\ events' = Tail(events) /\ Dispatch(Head(events)) /\ UNCHANGED closedOut
    <2> DEFINE m == Head(events)
    <2>1. m \in Messages
      BY <1>3, TailDrops DEF LinkTypes
    <2>2. Dispatch(m)
      BY <1>3
    <2> HIDE DEF m
    <2>3. \/ \E k \in {"LaunchAccepted", "ControllerExited", "Refused"} :
               m = [type |-> k, id |-> m.id] /\ m.id \in Requests
          \/ \E k \in {"Error", "Stopped"} : m = [type |-> k, id |-> NoRequest]
      BY <2>1 DEF Messages
    <2>4. ReaderTakes(m)
      <3>1. CASE m.type = "LaunchAccepted"
        BY <2>2, <2>3, <3>1 DEF Dispatch, ReaderTakes
      <3>2. CASE m.type = "ControllerExited"
        BY <2>2, <2>3, <3>2 DEF Dispatch, ReaderTakes, KeepExit, waiterVars
      <3>3. CASE m.type = "Refused"
        BY <2>2, <2>3, <3>3 DEF Dispatch, ReaderTakes
      <3>4. CASE m.type = "Error"
        BY <2>2, <2>3, <3>4 DEF Dispatch, ReaderTakes, waiterVars
      <3>5. CASE m.type = "Stopped"
        <4>1. m = [type |-> "Stopped", id |-> NoRequest]
          BY <2>3, <3>5
        <4>2. /\ stoppedFlag' = TRUE
              /\ UNCHANGED <<launchTx, launchRx, exitTx, exitRx, completed, dispatching, failing>>
          BY <2>2, <3>5 DEF Dispatch, waiterVars
        <4> QED BY <4>1, <4>2 DEF ReaderTakes
      <3>6. m.type \in {"LaunchAccepted", "ControllerExited", "Refused", "Error", "Stopped"}
        BY <2>1 DEF Messages
      <3> QED BY <3>1, <3>2, <3>3, <3>4, <3>5, <3>6
    <2> QED BY <1>1, <1>2, <1>3, <2>1, <2>4 DEF m
  <1>4. CASE /\ events = <<>> /\ supervisor # "up" /\ closedOut' = TRUE
             /\ failing' = [failing EXCEPT ![Reader] = IF stoppedFlag THEN 2 ELSE 1]
             /\ UNCHANGED <<events, waiterVars, completed, dispatching, stoppedFlag>>
    BY <1>1, <1>2, <1>4 DEF ReaderEnds, waiterVars
  <1> QED BY <1>3, <1>4 DEF SpawnReader

(* ------- the frames on the pipe ------- *)

(* A write that failed keeps the link broken until the session is over. *)
LEMMA BreakingStays ==
    ASSUME LinkTypes, LinkNext
    PROVE  Breaking => Breaking'
  <1>1. CASE \E r \in Requests : CallerStep(r)
    <2>1. failing' = failing /\ fatal' = fatal
      BY <1>1 DEF CallerStep, LaunchRequest, LaunchReturns, WaitExit, RegisterExit, ResolveAgain,
                  WaitReturns, GiveUp
    <2> QED BY <2>1 DEF Breaking
  <1>2. CASE \E r \in Requests : WriterStep(r)
    <2>1. PICK r \in Requests : failing' = failing \/ failing' = [failing EXCEPT ![r] = 1]
      BY <1>2 DEF WriterStep, SendRequest, WriteTimesOut, WriterFails, WriterMoves
    <2>2. fatal' = fatal
      BY <1>2 DEF WriterStep, SendRequest, WriteTimesOut
    <2>3. \A q \in Requests : failing[q] = 1 => failing'[q] = 1
      BY <2>1, ReaderApart DEF LinkTypes, ThreadTypes
    <2> QED BY <2>2, <2>3 DEF Breaking
  <1>3. ASSUME NEW t \in Threads, SetFatal(t)
        PROVE  Breaking => Breaking'
    <2>1. \/ fatal' = TRUE
          \/ /\ fatal' = fatal /\ failing[t] \in {2, 3}
             /\ \E n \in {0, 3} : failing' = [failing EXCEPT ![t] = n]
      BY <1>3 DEF SetFatal
    <2>2. \A q \in Requests : failing[q] = 1 /\ ~fatal' => failing'[q] = 1
      BY <2>1, ReaderApart DEF LinkTypes, ThreadTypes
    <2> QED BY <2>1, <2>2 DEF Breaking
  <1>4. CASE SpawnReader \/ DispatchExit \/ SupervisorStep
    <2>1. fatal' = fatal
      BY <1>4 DEF SpawnReader, DispatchExit, SupervisorStep
    <2>2. failing' = failing \/ \E n \in {1, 2} : failing' = [failing EXCEPT ![Reader] = n]
      <3>1. CASE SpawnReader
        <4>1. 1 \in {1, 2} /\ (IF stoppedFlag THEN 2 ELSE 1) \in {1, 2}
          OBVIOUS
        <4> QED BY <3>1, <4>1, ReaderDoes DEF ReaderTakes, ReaderEnds
      <3>2. CASE DispatchExit \/ SupervisorStep
        BY <3>2 DEF DispatchExit, SupervisorStep
      <3> QED BY <1>4, <3>1, <3>2
    <2>3. \A q \in Requests : failing'[q] = failing[q]
      BY <2>2, ReaderApart DEF LinkTypes, ThreadTypes
    <2> QED BY <2>1, <2>3 DEF Breaking
  <1> QED BY <1>1, <1>2, <1>3, <1>4 DEF LinkNext

(* A half that is written behind whole frames, or behind the half it completes. *)
LEMMA HalfFits ==
    ASSUME LinkTypes, WireInv, Breaking => Breaking', NEW h \in Halves,
           wire' = wire \o <<h>>,
           wire # <<>> /\ OpenFrame[2] = 1 => Breaking \/ h = <<OpenFrame[1], 2>>
    PROVE  /\ wire' # <<>> /\ OpenFrame' = h
           /\ GluedIsFatal'
  <1>1. wire \in Seq(Halves) /\ Len(wire) \in Nat
    BY DEF LinkTypes, PipeTypes
  <1>2. <<h>> \in Seq(Halves) /\ Len(<<h>>) = 1 /\ <<h>>[1] = h
    OBVIOUS
  <1>3. /\ Len(wire') = Len(wire) + 1 /\ wire' \in Seq(Halves)
        /\ \A i \in 1 .. Len(wire) : wire'[i] = wire[i]
        /\ wire'[Len(wire) + 1] = h
    <2>1. /\ wire' \in Seq(Halves) /\ Len(wire') = Len(wire) + Len(<<h>>)
          /\ \A i \in 1 .. Len(wire) + Len(<<h>>) :
               wire'[i] = IF i <= Len(wire) THEN wire[i] ELSE <<h>>[i - Len(wire)]
      BY <1>1, <1>2, ConcatProperties
    <2> QED BY <1>1, <1>2, <2>1
  <1>4. wire' # <<>>
    BY <1>1, <1>3
  <1>5. OpenFrame' = h
    BY <1>3 DEF OpenFrame
  <1>6. ASSUME NEW i \in 1 .. Len(wire') - 1, wire'[i][2] = 1, wire'[i + 1] # <<wire'[i][1], 2>>
        PROVE  Breaking'
    <2>1. i \in 1 .. Len(wire) /\ wire'[i] = wire[i]
      BY <1>1, <1>3
    <2>2. CASE i = Len(wire)
      <3>1. wire # <<>> /\ OpenFrame = wire[i] /\ wire'[i + 1] = h
        BY <1>1, <1>3, <2>2 DEF OpenFrame
      <3> QED BY <1>6, <2>1, <3>1
    <2>3. CASE i # Len(wire)
      <3>1. i \in 1 .. Len(wire) - 1 /\ i + 1 \in 1 .. Len(wire)
        BY <1>1, <2>1, <2>3
      <3>2. wire'[i + 1] = wire[i + 1]
        BY <1>3, <3>1
      <3>3. wire[i][2] = 1 /\ wire[i + 1] # <<wire[i][1], 2>>
        BY <1>6, <2>1, <3>2
      <3> QED BY <3>1, <3>3 DEF WireInv, GluedIsFatal, Breaking
    <2> QED BY <2>2, <2>3
  <1> QED BY <1>4, <1>5, <1>6 DEF GluedIsFatal, Breaking

(* Nothing is written, and who held stdin holds it or failed. *)
LEMMA WireFrame ==
    ASSUME LinkTypes, WireInv, Breaking => Breaking', wire' = wire,
           \A r \in Requests : HoldsStdin(r)' => HoldsStdin(r),
           \A r \in Requests : writer'[r] = "half" => writer[r] = "half",
           \A r \in Requests : writer[r] = "half" => writer'[r] = "half" \/ Breaking'
    PROVE  WireInv'
  <1>1. \A r, q \in Requests : HoldsStdin(r)' /\ HoldsStdin(q)' => r = q
    BY DEF WireInv
  <1>2. OpenFrame' = OpenFrame
    BY DEF OpenFrame
  <1>3. wire # <<>> => OpenFrame \in Halves
    BY DEF OpenFrame, LinkTypes, PipeTypes
  <1>4. wire # <<>> /\ OpenFrame[2] = 1 => Breaking' \/ writer'[OpenFrame[1]] = "half"
    BY <1>3 DEF WireInv, Halves
  <1>5. GluedIsFatal'
    BY DEF WireInv, GluedIsFatal, Breaking
  <1> QED BY <1>1, <1>2, <1>4, <1>5 DEF WireInv

(* Frames are written whole, unless a failed write is about to end the session. *)
LEMMA WireKept ==
    ASSUME LinkTypes, WireInv, LaunchInv, LinkNext
    PROVE  WireInv'
  <1>0. Breaking => Breaking'
    BY BreakingStays
  <1>1. CASE \E r \in Requests : CallerStep(r)
    <2>1. PICK r \in Requests : CallerStep(r)
      BY <1>1
    <2>2. /\ wire' = wire
          /\ \/ writer' = writer
             \/ writer' = [writer EXCEPT ![r] = "queued"] /\ caller[r] = "idle"
      BY <2>1 DEF CallerStep, LaunchRequest, LaunchReturns, WaitExit, RegisterExit, ResolveAgain,
                  WaitReturns, GiveUp, CallerAt
    <2>3. caller[r] = "idle" => writer[r] = "none"
      BY DEF LaunchInv, LaunchWaits
    <2>4. \A q \in Requests : writer'[q] = writer[q] \/ (writer[q] = "none" /\ writer'[q] = "queued")
      BY <2>2, <2>3 DEF LinkTypes, ThreadTypes
    <2> QED BY <1>0, <2>2, <2>4, WireFrame DEF HoldsStdin
  <1>2. CASE \E r \in Requests : WriterStep(r)
    <2>1. PICK r \in Requests : WriterStep(r)
      BY <1>2
    <2>2. CASE WriterFails(r)
      <3>1. /\ writer' = [writer EXCEPT ![r] = "failed"]
            /\ failing' = [failing EXCEPT ![r] = 1] /\ wire' = wire
        BY <2>2 DEF WriterFails
      <3>2. Breaking'
        BY <3>1, ReaderApart DEF Breaking, LinkTypes, ThreadTypes
      <3>3. \A q \in Requests : writer'[q] = IF q = r THEN "failed" ELSE writer[q]
        BY <3>1 DEF LinkTypes, ThreadTypes
      <3> QED BY <1>0, <3>1, <3>2, <3>3, WireFrame DEF HoldsStdin
    <2>3. CASE writer[r] = "queued" /\ StdinFree /\ WriterMoves(r, "holding", <<>>)
      <3>1. /\ \A q \in Requests : writer'[q] = IF q = r THEN "holding" ELSE writer[q]
            /\ wire' = wire \o <<>>
        BY <2>3 DEF WriterMoves, LinkTypes, ThreadTypes
      <3>2. wire' = wire
        BY <3>1, ConcatEmptySeq DEF LinkTypes, PipeTypes
      <3>3. \A q \in Requests : ~HoldsStdin(q) /\ (HoldsStdin(q)' <=> q = r) /\ writer'[q] # "half"
        BY <2>3, <3>1 DEF StdinFree, HoldsStdin
      <3>4. OpenFrame' = OpenFrame
        BY <3>2 DEF OpenFrame
      <3>5. wire # <<>> => OpenFrame \in Halves
        BY DEF OpenFrame, LinkTypes, PipeTypes
      <3>6. wire # <<>> /\ OpenFrame[2] = 1 => Breaking'
        BY <1>0, <2>3, <3>3, <3>5 DEF WireInv, Halves, HoldsStdin
      <3>7. GluedIsFatal'
        BY <1>0, <3>2 DEF WireInv, GluedIsFatal, Breaking
      <3> QED BY <3>2, <3>3, <3>4, <3>6, <3>7 DEF WireInv
    <2>4. CASE writer[r] = "holding" /\ WriterMoves(r, "half", <<<<r, 1>>>>)
      <3>1. /\ \A q \in Requests : writer'[q] = IF q = r THEN "half" ELSE writer[q]
            /\ wire' = wire \o <<<<r, 1>>>>
        BY <2>4 DEF WriterMoves, LinkTypes, ThreadTypes
      <3>2. \A q \in Requests : HoldsStdin(q)' => q = r
        BY <2>4, <3>1 DEF WireInv, HoldsStdin
      <3>3. \A q \in Requests : writer[q] # "half"
        BY <2>4 DEF WireInv, HoldsStdin
      <3>4. wire # <<>> => OpenFrame \in Halves
        BY DEF OpenFrame, LinkTypes, PipeTypes
      <3>5. wire # <<>> /\ OpenFrame[2] = 1 => Breaking
        BY <3>3, <3>4 DEF WireInv, Halves
      <3>6. <<r, 1>> \in Halves
        BY DEF Halves
      <3>7. wire' # <<>> /\ OpenFrame' = <<r, 1>> /\ GluedIsFatal'
        BY <1>0, <3>1, <3>5, <3>6, HalfFits
      <3> QED BY <3>1, <3>2, <3>7 DEF WireInv, HoldsStdin
    <2>5. CASE writer[r] = "half" /\ WriterMoves(r, "sent", <<<<r, 2>>>>)
      <3>1. /\ \A q \in Requests : writer'[q] = IF q = r THEN "sent" ELSE writer[q]
            /\ wire' = wire \o <<<<r, 2>>>>
        BY <2>5 DEF WriterMoves, LinkTypes, ThreadTypes
      <3>2. \A q \in Requests : ~HoldsStdin(q)'
        BY <2>5, <3>1 DEF WireInv, HoldsStdin
      <3>3. wire # <<>> /\ OpenFrame = <<r, 1>>
        BY <2>5 DEF WireInv
      <3>4. <<r, 2>> \in Halves /\ <<r, 2>> = <<OpenFrame[1], 2>>
        BY <3>3 DEF Halves
      <3>5. wire' # <<>> /\ OpenFrame' = <<r, 2>> /\ GluedIsFatal'
        BY <1>0, <3>1, <3>4, HalfFits
      <3> QED BY <3>2, <3>5 DEF WireInv, HoldsStdin
    <2> QED BY <2>1, <2>2, <2>3, <2>4, <2>5 DEF WriterStep, SendRequest, WriteTimesOut
  <1>3. CASE \/ \E t \in Threads : SetFatal(t)
             \/ SpawnReader \/ DispatchExit \/ SupervisorStep
    <2>1. writer' = writer /\ wire' = wire
      BY <1>3 DEF SetFatal, SpawnReader, DispatchExit, SupervisorStep
    <2> QED BY <1>0, <2>1, WireFrame DEF HoldsStdin
  <1> QED BY <1>1, <1>2, <1>3 DEF LinkNext

(* ------- the end of the session ------- *)

(* A pipe that ended stays ended, and its waiters are told once. *)
LEMMA EndKept ==
    ASSUME LinkTypes, EndInv, LaunchInv, LinkNext
    PROVE  EndInv'
  <1>1. ASSUME NEW r \in Requests, CallerStep(r)
        PROVE  EndInv'
    <2>1. /\ UNCHANGED <<supervisor, lives, events, failing, closedOut, stoppedFlag, fatal>>
          /\ \A q \in Requests \ {r} : writer'[q] = writer[q]
          /\ writer'[r] = writer[r] \/ caller[r] = "idle"
      BY <1>1, CallerDoes DEF CallerMoves
    <2>2. caller[r] = "idle" => writer[r] = "none"
      BY DEF LaunchInv, LaunchWaits
    <2>3. \A q \in Requests : failing'[q] # 0 => writer'[q] = "failed"
      BY <2>1, <2>2 DEF EndInv
    <2> QED BY <2>1, <2>3 DEF EndInv, InPipe
  <1>2. ASSUME NEW r \in Requests, WriterStep(r)
        PROVE  EndInv'
    <2>1. /\ UNCHANGED <<supervisor, lives, events, closedOut, stoppedFlag, fatal>>
          /\ \A q \in Requests \ {r} : writer'[q] = writer[q] /\ failing'[q] = failing[q]
          /\ failing'[Reader] = failing[Reader]
          /\ \A t \in Threads : t # r => failing'[t] = failing[t]
          /\ writer[r] # "failed"
          /\ writer'[r] = "failed" \/ failing' = failing
      BY <1>2, WriterDoes, ReaderApart
    <2>2. failing[r] = 0
      BY <2>1 DEF EndInv
    <2>3. \A q \in Requests : failing'[q] # 0 => writer'[q] = "failed"
      BY <2>1, <2>2 DEF EndInv
    <2>4. ASSUME NEW t \in Threads, failing'[t] \in {2, 3}
          PROVE  fatal' \/ stoppedFlag'
      <3>1. CASE t = r
        <4>1. failing' = failing \/ failing' = [failing EXCEPT ![r] = 1]
          BY <1>2 DEF WriterStep, SendRequest, WriteTimesOut, WriterFails, WriterMoves
        <4>2. failing'[r] \in {0, 1}
          BY <2>2, <4>1, ReaderApart DEF LinkTypes, ThreadTypes
        <4> QED BY <2>4, <3>1, <4>2
      <3>2. CASE t # r
        BY <2>1, <2>4, <3>2 DEF EndInv
      <3> QED BY <3>1, <3>2
    <2> QED BY <2>1, <2>3, <2>4 DEF EndInv, InPipe
  <1>3. ASSUME NEW t \in Threads, SetFatal(t)
        PROVE  EndInv'
    <2>1. UNCHANGED <<supervisor, lives, events, closedOut, writer>>
      BY <1>3 DEF SetFatal, supervisorVars
    <2>2. \/ /\ failing[t] = 1 /\ fatal' = TRUE /\ stoppedFlag' = stoppedFlag
             /\ failing' = [failing EXCEPT ![t] = 2]
          \/ /\ failing[t] = 2 /\ UNCHANGED <<fatal, stoppedFlag>>
             /\ failing' = [failing EXCEPT ![t] = 3]
          \/ /\ failing[t] = 3 /\ fatal' = fatal /\ stoppedFlag' = TRUE
             /\ failing' = [failing EXCEPT ![t] = 0]
      BY <1>3 DEF SetFatal
    <2>3. \A s \in Threads : failing'[s] # 0 => failing[s] # 0
      BY <2>2 DEF LinkTypes, ThreadTypes
    <2>4. \A q \in Requests : failing'[q] # 0 => writer'[q] = "failed"
      BY <2>1, <2>3, ReaderApart DEF EndInv
    <2>5. failing[t] \in {2, 3} => fatal \/ stoppedFlag
      BY DEF EndInv
    <2>6. \A s \in Threads : failing'[s] \in {2, 3} => fatal' \/ stoppedFlag'
      BY <2>2, <2>5 DEF LinkTypes, ThreadTypes, EndInv
    <2>7. failing'[Reader] = IF t = Reader THEN failing'[t] ELSE failing[Reader]
      BY <2>2, ReaderApart DEF LinkTypes, ThreadTypes
    <2>8. closedOut' /\ ~fatal' => failing'[Reader] = 1 \/ stoppedFlag'
      BY <2>1, <2>2, <2>5, <2>7 DEF EndInv
    <2>9. stoppedFlag' /\ ~fatal' => supervisor' = "stopped"
      BY <2>1, <2>2, <2>5 DEF EndInv
    <2> QED BY <2>1, <2>4, <2>6, <2>8, <2>9 DEF EndInv, InPipe
  <1>4. CASE SpawnReader
    <2>1. /\ UNCHANGED <<supervisor, lives, writer, fatal>>
          /\ failing[Reader] = 0 /\ closedOut = FALSE
      BY <1>4, ReaderDoes
    <2>2. CASE ReaderEnds
      <3>1. /\ events' = events /\ events = <<>> /\ supervisor # "up" /\ closedOut' = TRUE
            /\ stoppedFlag' = stoppedFlag
            /\ failing' = [failing EXCEPT ![Reader] = IF stoppedFlag THEN 2 ELSE 1]
        BY <2>2 DEF ReaderEnds
      <3>2. /\ \A q \in Requests : failing'[q] = failing[q]
            /\ failing'[Reader] = IF stoppedFlag THEN 2 ELSE 1
        BY <3>1, ReaderApart DEF LinkTypes, ThreadTypes
      <3>3. \A t \in Threads : failing'[t] \in {2, 3} => fatal' \/ stoppedFlag'
        BY <2>1, <3>1, <3>2, ReaderApart DEF EndInv
      <3> QED BY <2>1, <3>1, <3>2, <3>3 DEF EndInv, InPipe
    <2>3. CASE /\ events # <<>> /\ events' = Tail(events) /\ UNCHANGED closedOut
               /\ Head(events) \in Messages /\ ReaderTakes(Head(events))
      <3>1. \A x : InPipe(x)' => InPipe(x)
        BY <2>3, TailDrops DEF LinkTypes
      <3>2. \/ UNCHANGED <<failing, stoppedFlag>>
            \/ failing' = [failing EXCEPT ![Reader] = 1] /\ UNCHANGED stoppedFlag
            \/ /\ Head(events) = [type |-> "Stopped", id |-> NoRequest]
               /\ stoppedFlag' = TRUE /\ UNCHANGED failing
        BY <2>3 DEF ReaderTakes
      <3>3. InPipe(Head(events))
        BY <2>3, TailDrops DEF LinkTypes
      <3>4. /\ \A q \in Requests : failing'[q] = failing[q]
            /\ failing'[Reader] \in {0, 1}
        BY <2>1, <3>2, ReaderApart DEF LinkTypes, ThreadTypes
      <3>5. \A t \in Threads : failing'[t] \in {2, 3} => fatal' \/ stoppedFlag'
        BY <2>1, <3>2, <3>4, ReaderApart DEF EndInv
      <3>6. stoppedFlag' /\ ~fatal' => supervisor' = "stopped"
        BY <2>1, <3>2, <3>3 DEF EndInv
      <3>7. closedOut' = FALSE
        BY <2>1, <2>3
      <3> QED BY <2>1, <3>1, <3>4, <3>5, <3>6, <3>7 DEF EndInv
    <2> QED BY <1>4, <2>2, <2>3, ReaderDoes
  <1>5. CASE DispatchExit
    BY <1>5 DEF DispatchExit, supervisorVars, EndInv, InPipe
  <1>6. CASE SupervisorStep
    <2>1. /\ UNCHANGED <<writer, failing, closedOut, stoppedFlag, fatal>> /\ supervisor = "up"
      BY <1>6, SupervisorDoes
    <2>2. closedOut' = FALSE /\ (stoppedFlag => fatal)
      BY <2>1 DEF EndInv, LinkTypes, ThreadTypes
    <2>3. supervisor' = "stopped" => lives' = {}
      BY <1>6, <2>1, SupervisorDoes
    <2>4. InPipe([type |-> "Stopped", id |-> NoRequest])' => supervisor' = "stopped"
      <3> DEFINE last == [type |-> "Stopped", id |-> NoRequest]
      <3>1. ~InPipe(last)
        BY <2>1 DEF EndInv
      <3>2. CASE supervisor' = "stopped"
        BY <3>2
      <3>3. CASE events' = events
        BY <3>1, <3>3 DEF InPipe
      <3>4. CASE \E m \in Messages : m.type # "Stopped" /\ events' = Append(events, m)
        <4>1. PICK m \in Messages : m.type # "Stopped" /\ events' = Append(events, m)
          BY <3>4
        <4>2. last # m
          BY <4>1
        <4>3. InPipe(last)' => InPipe(last) \/ last = m
          BY <4>1, EmitAdds DEF LinkTypes
        <4> QED BY <3>1, <4>2, <4>3
      <3>5. /\ \A r \in Requests : \A k \in {"LaunchAccepted", "Refused", "ControllerExited"} :
                 [type |-> k, id |-> r] \in Messages
            /\ [type |-> "Error", id |-> NoRequest] \in Messages
            /\ lives \subseteq Requests
        BY DEF Messages, LinkTypes, PipeTypes
      <3>6. \/ supervisor' = "stopped" \/ events' = events
            \/ \E m \in Messages : m.type # "Stopped" /\ events' = Append(events, m)
        BY <1>6, <3>5, SupervisorDoes
      <3> QED BY <3>2, <3>3, <3>4, <3>6
    <2> QED BY <2>1, <2>2, <2>3, <2>4 DEF EndInv
  <1> QED BY <1>1, <1>2, <1>3, <1>4, <1>5, <1>6 DEF LinkNext

(* ------- the controllers that were accepted ------- *)

(* An accepted controller is answered for as long as its caller waits. *)
LEMMA OwedKept ==
    ASSUME LinkTypes, OwedInv, LinkNext
    PROVE  OwedInv'
  <1>1. ASSUME NEW r \in Requests, CallerStep(r)
        PROVE  OwedInv'
    <2>1. /\ UNCHANGED <<lives, events, launchRx>>
          /\ \A q \in Requests \ {r} : caller'[q] = caller[q] /\ (q \in completed' <=> q \in completed)
          /\ caller'[r] = "over" \/ (CallerMoves(r) /\ completed' = completed)
      BY <1>1, CallerDoes
    <2>2. \A x : InPipe(x)' <=> InPipe(x)
      BY <2>1 DEF InPipe
    <2>3. ASSUME NEW q \in Requests, q # r, caller'[q] # "over", Accepted(q)'
          PROVE  Owed(q)'
      BY <2>1, <2>2, <2>3 DEF OwedInv, Accepted, Owed
    <2>4. ASSUME CallerMoves(r), completed' = completed, Accepted(r)'
          PROVE  Owed(r)'
      <3>1. Accepted(r) /\ caller[r] # "over"
        BY <2>1, <2>2, <2>4 DEF Accepted, CallerMoves
      <3> QED BY <2>1, <2>2, <2>4, <3>1 DEF OwedInv, Owed
    <2> QED BY <2>1, <2>3, <2>4 DEF OwedInv
  <1>2. ASSUME UNCHANGED <<lives, events, caller, completed>>,
               \A r \in Requests : launchRx'[r] = "ok" => launchRx[r] = "ok"
        PROVE  OwedInv'
    <2>1. \A x : InPipe(x)' <=> InPipe(x)
      BY <1>2 DEF InPipe
    <2> QED BY <1>2, <2>1 DEF OwedInv, Accepted, Owed
  <1>3. CASE \/ \E r \in Requests : WriterStep(r)
             \/ DispatchExit \/ (SpawnReader /\ ReaderEnds)
    <2>1. UNCHANGED <<lives, events, caller, completed, launchRx>>
      BY <1>3, WriterDoes, ReaderDoes DEF DispatchExit, ReaderEnds, supervisorVars, callerVars
    <2> QED BY <1>2, <2>1
  <1>4. CASE \E t \in Threads : SetFatal(t)
    <2>1. UNCHANGED <<lives, events, caller, completed>>
      BY <1>4 DEF SetFatal, supervisorVars, callerVars
    <2>2. launchRx' = launchRx \/ launchRx' = Failed(launchTx, launchRx)
      BY <1>4 DEF SetFatal, waiterVars
    <2>3. \A r \in Requests : launchRx'[r] = "ok" => launchRx[r] = "ok"
      BY <2>2 DEF Failed
    <2> QED BY <1>2, <2>1, <2>3
  <1>5. CASE SpawnReader /\ ~ReaderEnds
    <2>1. /\ UNCHANGED <<lives, caller>> /\ events # <<>> /\ events' = Tail(events)
          /\ Head(events) \in Messages /\ ReaderTakes(Head(events))
      BY <1>5, ReaderDoes
    <2> DEFINE m == Head(events)
    <2>2. /\ \A x : InPipe(x)' => InPipe(x)
          /\ \A x : InPipe(x) => InPipe(x)' \/ x = m
          /\ InPipe(m)
      BY <2>1, TailDrops DEF LinkTypes
    <2>3. ReaderTakes(m)
      BY <2>1
    <2> HIDE DEF m
    <2>4. ASSUME NEW r \in Requests, caller[r] # "over", Accepted(r)'
          PROVE  Owed(r)'
      <3>1. launchRx'[r] = "ok" => launchRx[r] = "ok" \/ m = [type |-> "LaunchAccepted", id |-> r]
        BY <2>3 DEF ReaderTakes, Answer, LinkTypes, WaiterTypes
      <3>2. Accepted(r)
        BY <2>1, <2>2, <2>4, <3>1 DEF Accepted
      <3>3. Owed(r)
        BY <2>4, <3>2 DEF OwedInv
      <3>4. \A q : q \in completed => q \in completed'
        BY <2>3 DEF ReaderTakes
      <3>5. m = [type |-> "ControllerExited", id |-> r] => r \in completed'
        <4>1. ASSUME m = [type |-> "ControllerExited", id |-> r]
              PROVE  r \in completed'
          <5>1. m.type = "ControllerExited" /\ m.id = r
            BY <4>1
          <5>2. completed' = completed \union {m.id}
            BY <2>3, <5>1 DEF ReaderTakes
          <5> QED BY <5>1, <5>2
        <4> QED BY <4>1
      <3> QED BY <2>1, <2>2, <3>3, <3>4, <3>5 DEF Owed
    <2> QED BY <2>1, <2>4 DEF OwedInv
  <1>6. CASE SupervisorStep
    <2>1. UNCHANGED <<caller, launchRx, completed>> /\ PipeTypes
      BY <1>6, SupervisorDoes DEF callerVars, waiterVars, LinkTypes
    <2>2. ASSUME NEW e \in Messages, events' = Append(events, e),
                 \A q \in Requests : q \in lives =>
                     q \in lives' \/ e = [type |-> "ControllerExited", id |-> q],
                 \A q \in Requests : e = [type |-> "LaunchAccepted", id |-> q] => q \in lives'
          PROVE  OwedInv'
      <3>1. /\ InPipe(e)'
            /\ \A x : InPipe(x) => InPipe(x)'
            /\ \A x : InPipe(x)' => InPipe(x) \/ x = e
        BY <2>1, <2>2, EmitAdds
      <3>2. ASSUME NEW q \in Requests, caller'[q] # "over", Accepted(q)'
            PROVE  Owed(q)'
        <4>1. Accepted(q) \/ e = [type |-> "LaunchAccepted", id |-> q]
          BY <2>1, <3>1, <3>2 DEF Accepted
        <4>2. CASE e = [type |-> "LaunchAccepted", id |-> q]
          BY <2>2, <4>2 DEF Owed
        <4>3. CASE Accepted(q)
          <5>1. Owed(q)
            BY <2>1, <3>2, <4>3 DEF OwedInv
          <5> QED BY <2>1, <2>2, <3>1, <5>1 DEF Owed
        <4> QED BY <4>1, <4>2, <4>3
      <3> QED BY <3>2 DEF OwedInv
    <2>3. CASE \E r \in Requests :
                 /\ lives' = lives \union {r}
                 /\ events' = Append(events, [type |-> "LaunchAccepted", id |-> r])
      <3>1. PICK r \in Requests :
                 /\ lives' = lives \union {r}
                 /\ events' = Append(events, [type |-> "LaunchAccepted", id |-> r])
        BY <2>3
      <3> DEFINE e == [type |-> "LaunchAccepted", id |-> r]
      <3>2. e \in Messages /\ e.id = r
        BY DEF Messages
      <3>3. \A q \in Requests : e = [type |-> "LaunchAccepted", id |-> q] => q = r
        OBVIOUS
      <3>4. events' = Append(events, e)
        BY <3>1
      <3> HIDE DEF e
      <3> QED BY <2>2, <3>1, <3>2, <3>3, <3>4
    <2>4. CASE \E r \in Requests :
                 /\ lives' = lives
                 /\ events' = Append(events, [type |-> "Refused", id |-> r])
      <3>1. PICK r \in Requests :
                 /\ lives' = lives
                 /\ events' = Append(events, [type |-> "Refused", id |-> r])
        BY <2>4
      <3> DEFINE e == [type |-> "Refused", id |-> r]
      <3>2. e \in Messages
        BY DEF Messages
      <3>3. \A q \in Requests : e # [type |-> "LaunchAccepted", id |-> q]
        OBVIOUS
      <3>4. events' = Append(events, e)
        BY <3>1
      <3> HIDE DEF e
      <3> QED BY <2>2, <3>1, <3>2, <3>3, <3>4
    <2>5. CASE \E k \in {"Error", "Stopped"} :
                 lives' = lives /\ events' = Append(events, [type |-> k, id |-> NoRequest])
      <3>1. PICK k \in {"Error", "Stopped"} :
                 lives' = lives /\ events' = Append(events, [type |-> k, id |-> NoRequest])
        BY <2>5
      <3> DEFINE e == [type |-> k, id |-> NoRequest]
      <3>2. e \in Messages
        BY DEF Messages
      <3>3. \A q \in Requests : e # [type |-> "LaunchAccepted", id |-> q]
        OBVIOUS
      <3>4. events' = Append(events, e)
        BY <3>1
      <3> HIDE DEF e
      <3> QED BY <2>2, <3>1, <3>2, <3>3, <3>4
    <2>6. CASE \E r \in lives :
                 /\ lives' = lives \ {r}
                 /\ events' = Append(events, [type |-> "ControllerExited", id |-> r])
      <3>1. PICK r \in lives :
                 /\ lives' = lives \ {r}
                 /\ events' = Append(events, [type |-> "ControllerExited", id |-> r])
        BY <2>6
      <3> DEFINE e == [type |-> "ControllerExited", id |-> r]
      <3>2. r \in Requests
        BY <2>1 DEF PipeTypes
      <3>3. e \in Messages
        BY <3>2 DEF Messages
      <3>4. \A q \in Requests : e # [type |-> "LaunchAccepted", id |-> q]
        OBVIOUS
      <3>5. events' = Append(events, e)
        BY <3>1
      <3>6. \A q \in Requests : q \in lives => q \in lives' \/ e = [type |-> "ControllerExited", id |-> q]
        BY <3>1
      <3> HIDE DEF e
      <3> QED BY <2>2, <3>3, <3>4, <3>5, <3>6
    <2>7. CASE lives' = lives /\ events' = events
      BY <1>2, <2>1, <2>7
    <2> QED BY <1>6, <2>3, <2>4, <2>5, <2>6, <2>7, SupervisorDoes
  <1> QED BY <1>1, <1>3, <1>4, <1>5, <1>6 DEF LinkNext

(* ------- the callers that wait ------- *)

(* A caller that waits for its launch has a sender that will answer it. *)
LEMMA LaunchKept ==
    ASSUME LinkTypes, EndInv, LaunchInv, LinkNext
    PROVE  LaunchInv'
  <1>1. ASSUME NEW r \in Requests, CallerStep(r)
        PROVE  LaunchInv'
    <2>1. /\ UNCHANGED <<failing, closedOut, launchRx>>
          /\ \A q \in Requests \ {r} :
               caller'[q] = caller[q] /\ writer'[q] = writer[q] /\ launchTx'[q] = launchTx[q]
          /\ (caller'[r] = "over" /\ writer'[r] = writer[r] /\ caller[r] # "idle") \/ CallerMoves(r)
      BY <1>1, CallerDoes
    <2>2. \A q \in Requests \ {r} : LaunchWaits(q)'
      BY <2>1 DEF LaunchInv, LaunchWaits
    <2>3. LaunchWaits(r)'
      <3>1. LaunchWaits(r)
        BY DEF LaunchInv
      <3> QED BY <2>1, <3>1 DEF LaunchWaits, CallerMoves
    <2> QED BY <2>2, <2>3 DEF LaunchInv
  <1>2. ASSUME NEW r \in Requests, WriterStep(r)
        PROVE  LaunchInv'
    <2>1. /\ UNCHANGED <<closedOut, caller, launchTx, launchRx>>
          /\ \A q \in Requests \ {r} : writer'[q] = writer[q]
          /\ failing'[Reader] = failing[Reader]
          /\ writer[r] \in {"queued", "holding", "half"}
          /\ writer'[r] = "sent" => supervisor = "up"
      BY <1>2, WriterDoes, ReaderApart
    <2>2. \A q \in Requests \ {r} : LaunchWaits(q)'
      BY <2>1 DEF LaunchInv, LaunchWaits
    <2>3. LaunchWaits(r)'
      BY <2>1 DEF LaunchInv, LaunchWaits, EndInv
    <2> QED BY <2>2, <2>3 DEF LaunchInv
  <1>3. ASSUME NEW t \in Threads, SetFatal(t)
        PROVE  LaunchInv'
    <2>1. UNCHANGED <<closedOut, caller, writer>>
      BY <1>3 DEF SetFatal, callerVars
    <2>2. CASE failing[t] = 2
      <3>1. launchRx' = Failed(launchTx, launchRx)
        BY <1>3, <2>2 DEF SetFatal
      <3>2. \A q \in Requests : launchRx'[q] = "none" => launchRx[q] = "none" /\ launchTx[q] # "live"
        BY <3>1 DEF Failed
      <3> QED BY <2>1, <3>2 DEF LaunchInv, LaunchWaits
    <2>3. CASE failing[t] # 2
      <3>1. UNCHANGED <<launchTx, launchRx>> /\ failing[t] \in {1, 3}
            /\ \E n \in {0, 2} : failing' = [failing EXCEPT ![t] = n] /\ (failing[t] = 1 => n = 2)
        BY <1>3, <2>3 DEF SetFatal, waiterVars
      <3>2. failing'[Reader] = failing[Reader] \/ failing'[Reader] = 2 \/ failing[Reader] = 3
        BY <3>1, ReaderApart DEF LinkTypes, ThreadTypes
      <3>3. failing[Reader] \in {1, 2} => failing'[Reader] \in {1, 2}
        BY <3>2
      <3> QED BY <2>1, <3>1, <3>3 DEF LaunchInv, LaunchWaits
    <2> QED BY <2>2, <2>3
  <1>4. CASE SpawnReader
    <2>1. UNCHANGED <<caller, writer>> /\ closedOut = FALSE
      BY <1>4, ReaderDoes
    <2>2. CASE ReaderEnds
      <3>1. UNCHANGED <<launchTx, launchRx>>
            /\ failing' = [failing EXCEPT ![Reader] = IF stoppedFlag THEN 2 ELSE 1]
        BY <2>2 DEF ReaderEnds
      <3>2. failing'[Reader] \in {1, 2}
        BY <3>1, ReaderApart DEF LinkTypes, ThreadTypes
      <3> QED BY <2>1, <3>1, <3>2 DEF LaunchInv, LaunchWaits
    <2>3. CASE UNCHANGED closedOut /\ ReaderTakes(Head(events))
      <3>1. \A q \in Requests :
               \/ launchTx'[q] = launchTx[q] /\ launchRx'[q] = launchRx[q]
               \/ launchRx'[q] # "none"
               \/ launchTx[q] # "live" /\ launchRx'[q] = launchRx[q]
        BY <2>3 DEF ReaderTakes, Answer, LinkTypes, WaiterTypes
      <3>2. closedOut' = FALSE
        BY <2>1, <2>3
      <3> QED BY <2>1, <3>1, <3>2 DEF LaunchInv, LaunchWaits
    <2> QED BY <1>4, <2>2, <2>3, ReaderDoes
  <1>5. CASE DispatchExit \/ SupervisorStep
    <2>1. UNCHANGED <<caller, writer, closedOut, failing, launchTx, launchRx>>
      BY <1>5, SupervisorDoes DEF DispatchExit, callerVars, waiterVars
    <2> QED BY <2>1 DEF LaunchInv, LaunchWaits
  <1> QED BY <1>1, <1>2, <1>3, <1>4, <1>5 DEF LinkNext

(* A caller that waits for an exit has a sender that will answer it. *)
LEMMA ExitKept ==
    ASSUME LinkTypes, EndInv, OwedInv, LaunchInv, ExitInv, LinkNext
    PROVE  ExitInv'
  <1>1. ASSUME NEW r \in Requests, CallerStep(r)
        PROVE  ExitInv'
    <2>1. /\ UNCHANGED <<failing, closedOut, dispatching, fatal>>
          /\ \A q \in Requests \ {r} :
               /\ caller'[q] = caller[q] /\ exitTx'[q] = exitTx[q] /\ exitRx'[q] = exitRx[q]
               /\ q \in completed' <=> q \in completed
          /\ caller'[r] = "over" \/ (CallerMoves(r) /\ completed' = completed)
      BY <1>1, CallerDoes
    <2>2. \A q \in Requests \ {r} : ExitWaits(q)'
      BY <2>1 DEF ExitInv, ExitWaits
    <2>3. CASE caller[r] = "registered" /\ caller'[r] = "awaiting" /\ CallerMoves(r) /\ completed' = completed
      <3>1. r \notin completed /\ ~fatal /\ exitTx'[r] = exitTx[r] /\ exitRx'[r] = exitRx[r]
        BY <2>3 DEF CallerMoves
      <3>2. closedOut => failing[Reader] # 0
        <4> SUFFICES ASSUME closedOut, failing[Reader] = 0
                     PROVE  FALSE
          OBVIOUS
        <4>1. stoppedFlag /\ supervisor = "stopped" /\ lives = {} /\ events = <<>>
          BY <3>1 DEF EndInv
        <4>2. Len(events) = 0
          BY <4>1
        <4>3. \A x : ~InPipe(x)
          BY <4>2 DEF InPipe
        <4>4. Owed(r)
          BY <2>3 DEF OwedInv, Accepted
        <4> QED BY <3>1, <4>1, <4>3, <4>4 DEF Owed
      <3>3. exitRx[r] = "none" => exitTx[r] = "live"
        BY <2>3 DEF ExitInv, ExitWaits
      <3> QED BY <2>1, <2>2, <2>3, <3>1, <3>2, <3>3 DEF ExitInv, ExitWaits
    <2>4. CASE caller'[r] = "over" \/ (CallerMoves(r) /\ caller'[r] # "awaiting")
      <3>1. ExitWaits(r)'
        BY <2>4 DEF ExitWaits, CallerMoves
      <3> QED BY <2>2, <3>1 DEF ExitInv
    <2> QED BY <2>1, <2>3, <2>4 DEF CallerMoves
  <1>2. ASSUME NEW r \in Requests, WriterStep(r)
        PROVE  ExitInv'
    <2>1. /\ UNCHANGED <<closedOut, caller, exitTx, exitRx, completed, dispatching, fatal>>
          /\ writer[r] # "failed"
          /\ \A t \in Threads : t # r => failing'[t] = failing[t]
      BY <1>2, WriterDoes
    <2>2. failing[r] = 0
      BY <2>1 DEF EndInv
    <2>3. \A t \in Threads : failing[t] \in {2, 3} => failing'[t] \in {2, 3}
      BY <2>1, <2>2
    <2>4. failing'[Reader] = failing[Reader]
      BY <2>1, ReaderApart
    <2> QED BY <2>1, <2>3, <2>4 DEF ExitInv, ExitWaits
  <1>3. ASSUME NEW t \in Threads, SetFatal(t)
        PROVE  ExitInv'
    <2>1. UNCHANGED <<closedOut, caller, completed, dispatching>>
      BY <1>3 DEF SetFatal, callerVars
    <2>2. CASE failing[t] = 3
      <3>1. exitRx' = Failed(exitTx, exitRx)
        BY <1>3, <2>2 DEF SetFatal
      <3>2. \A q \in Requests : exitRx'[q] = "none" => exitRx[q] = "none" /\ exitTx[q] # "live"
        BY <3>1 DEF Failed
      <3> QED BY <2>1, <3>2 DEF ExitInv, ExitWaits
    <2>3. CASE failing[t] # 3
      <3>1. UNCHANGED <<exitTx, exitRx>>
            /\ \E n \in {2, 3} : failing' = [failing EXCEPT ![t] = n]
        BY <1>3, <2>3 DEF SetFatal, waiterVars
      <3>2. failing'[t] \in {2, 3} /\ (failing[Reader] # 0 => failing'[Reader] # 0)
        BY <3>1, ReaderApart DEF LinkTypes, ThreadTypes
      <3> QED BY <2>1, <3>1, <3>2 DEF ExitInv, ExitWaits
    <2> QED BY <2>2, <2>3
  <1>4. CASE SpawnReader
    <2>1. UNCHANGED <<caller, fatal>> /\ dispatching = NoRequest /\ closedOut = FALSE
          /\ failing[Reader] = 0
      BY <1>4, ReaderDoes
    <2>2. ASSUME NEW q \in Requests, failing' = failing \/ \E n \in {1, 2} : failing' = [failing EXCEPT ![Reader] = n],
                 fatal => \E t \in Threads : failing[t] \in {2, 3}
          PROVE  fatal' => \E t \in Threads : failing'[t] \in {2, 3}
      <3>1. \A t \in Threads : failing[t] \in {2, 3} => failing'[t] = failing[t]
        BY <2>1, <2>2, ReaderApart DEF LinkTypes, ThreadTypes
      <3> QED BY <2>1, <2>2, <3>1
    <2>3. CASE ReaderEnds
      <3>1. UNCHANGED <<exitTx, exitRx, completed, dispatching>>
            /\ failing' = [failing EXCEPT ![Reader] = IF stoppedFlag THEN 2 ELSE 1]
        BY <2>3 DEF ReaderEnds
      <3>2. \E n \in {1, 2} : failing' = [failing EXCEPT ![Reader] = n]
        BY <3>1
      <3>3. failing'[Reader] # 0
        BY <3>1, ReaderApart DEF LinkTypes, ThreadTypes
      <3> QED BY <2>1, <2>2, <3>1, <3>2, <3>3 DEF ExitInv, ExitWaits
    <2>4. CASE UNCHANGED closedOut /\ ReaderTakes(Head(events))
      <3>1. closedOut' = FALSE
        BY <2>1, <2>4
      <3>2. failing' = failing \/ failing' = [failing EXCEPT ![Reader] = 1]
        BY <2>4 DEF ReaderTakes
      <3>3. \A q \in Requests :
               \/ exitTx'[q] = exitTx[q] /\ exitRx'[q] = exitRx[q]
               \/ exitRx'[q] # "none"
               \/ exitTx[q] # "live" /\ exitRx'[q] = exitRx[q]
        BY <2>4 DEF ReaderTakes, Answer, LinkTypes, WaiterTypes
      <3>4. \A q \in Requests : q \in completed' => q \in completed \/ dispatching' = q
        BY <2>4 DEF ReaderTakes
      <3>5. \A q \in Requests : dispatching # q
        BY <2>1, ReaderApart
      <3>6. ASSUME NEW q \in Requests
            PROVE  ExitWaits(q)'
        <4>1. ExitWaits(q)
          BY DEF ExitInv
        <4>2. CASE caller[q] \in {"registered", "awaiting"} /\ exitRx'[q] = "none"
          <5>1. exitTx[q] = "live" /\ exitTx'[q] = exitTx[q] /\ exitRx[q] = "none"
            BY <3>3, <4>1, <4>2 DEF ExitWaits
          <5>2. caller[q] = "awaiting"
                  => (fatal' => \E t \in Threads : failing'[t] \in {2, 3})
            BY <2>2, <3>2, <4>1, <5>1 DEF ExitWaits
          <5> QED BY <2>1, <3>1, <3>4, <3>5, <4>1, <5>1, <5>2 DEF ExitWaits
        <4>3. CASE caller[q] \notin {"registered", "awaiting"} \/ exitRx'[q] # "none"
          BY <2>1, <4>3 DEF ExitWaits
        <4> QED BY <4>2, <4>3
      <3> QED BY <3>6 DEF ExitInv
    <2> QED BY <1>4, <2>3, <2>4, ReaderDoes
  <1>5. CASE DispatchExit
    <2>1. /\ UNCHANGED <<caller, closedOut, failing, fatal, completed>>
          /\ exitRx' = Answer(exitTx, exitRx, dispatching, "ok")
          /\ exitTx' = [exitTx EXCEPT ![dispatching] = "none"]
      BY <1>5 DEF DispatchExit, callerVars
    <2>2. \A q \in Requests :
             IF q = dispatching THEN exitRx'[q] = IF exitTx[q] = "live" THEN "ok" ELSE exitRx[q]
                                ELSE exitTx'[q] = exitTx[q] /\ exitRx'[q] = exitRx[q]
      BY <2>1 DEF Answer, LinkTypes, WaiterTypes
    <2>3. \A q \in Requests : q # dispatching => ExitWaits(q)'
      BY <2>1, <2>2 DEF ExitInv, ExitWaits
    <2>4. \A q \in Requests : q = dispatching => ExitWaits(q)'
      BY <2>1, <2>2 DEF ExitInv, ExitWaits
    <2> QED BY <2>3, <2>4 DEF ExitInv
  <1>6. CASE SupervisorStep
    BY <1>6, SupervisorDoes DEF callerVars, waiterVars, ExitInv, ExitWaits
  <1> QED BY <1>1, <1>2, <1>3, <1>4, <1>5, <1>6 DEF LinkNext

(* No answer or exit is lost by a caller that waits for it, and nothing is taken for good behind
   half a frame, for every number of launches that share the pipe and whatever write, wait or
   supervisor fails (protocol.rs, exec.rs). *)
THEOREM LinkAlwaysSound == LinkSpec => []LinkIsSound
  <1>1. LinkInv /\ [LinkNext]_linkVars => LinkInv'
    <2> SUFFICES ASSUME LinkInv, [LinkNext]_linkVars
                 PROVE  LinkInv'
      OBVIOUS
    <2>1. CASE UNCHANGED linkVars
      BY <2>1 DEF linkVars, callerVars, LinkInv, LinkTypes, WaiterTypes, PipeTypes, ThreadTypes, WireInv,
                  Breaking, HoldsStdin, OpenFrame, GluedIsFatal, EndInv, InPipe, OwedInv, Owed,
                  Accepted, LaunchInv, LaunchWaits, ExitInv, ExitWaits
    <2>2. CASE LinkNext
      BY <2>2, LinkTyped, WireKept, EndKept, OwedKept, LaunchKept, ExitKept DEF LinkInv
    <2> QED BY <2>1, <2>2
  <1>2. LinkInv => LinkIsSound
    BY DEF LinkInv, WireInv, LaunchInv, LaunchWaits, ExitInv, ExitWaits, LinkIsSound, NoLostExit
  <1> QED BY LinkStart, <1>1, <1>2, PTL DEF LinkSpec

(* ---------------------------- memory scanner ----------------------------- *)

Commands ==
    [at: {"session", "before", "read", "after", "found", "failed"}, op: {"begin", "refine"}, gen: Nat,
     id: Identities, kind: Kinds, value: 1 .. 2, memory: Nat, from: 0 .. 2]
ReadyScans ==
    [state: {"Ready"}, gen: Nat, id: Identities, kind: Kinds, from: 0 .. 2, value: 1 .. 2]

(* Where a read stands. The pid goes from the first process to the second and never back, so
   what a command saw of it before tells what it can find afterwards. *)
ReadSound(k) ==
    /\ k.at \in {"read", "after"} /\ k.id = 2 => holder = 2
    /\ k.at = "after" => k.from \in Identities /\ (k.from = 2 => holder = 2) /\ (k.id = 2 => k.from = 2)
    /\ k.at = "found" => k.from = k.id
CommandSound(c) ==
    call[c] = NoCall \/ /\ call[c] \in Commands /\ call[c].gen < scanNext
                        /\ ReadSound(call[c])

(* The candidates kept are of a generation nobody cancelled and that was never confirmed. *)
StateSound ==
    \/ scan = Idle
    \/ /\ scan = Scanning(scan.gen) /\ scan.gen \in Nat \ {0} /\ scan.gen < scanNext
       /\ scan.gen \notin dropped /\ confirmed.gen # scan.gen
       /\ \/ scan.gen \in abandoned
          \/ \E c \in Calls : call[c] # NoCall /\ call[c].gen = scan.gen
    \/ scan \in ReadyScans /\ scan.from = scan.id /\ scan.gen < scanNext /\ scan.gen \notin dropped

ScannerInv ==
    /\ holder \in 0 .. 2 /\ scanNext \in Nat \ {0} /\ given \in Nat
    /\ sessions \in [Identities -> Nat]
    /\ dropped \subseteq 1 .. scanNext - 1
    /\ confirmed.gen \in Nat /\ confirmed.gen < scanNext
    /\ confirmed.from = confirmed.id /\ confirmed.gen \notin dropped
    /\ DOMAIN call = Calls /\ \A c \in Calls : CommandSound(c)
    /\ StateSound

(* The states of a scan are told apart by their tag and their generation. *)
LEMMA StatesApart ==
    /\ \A g : Scanning(g).state = "Scanning" /\ Scanning(g).gen = g /\ Scanning(g) # Idle
    /\ \A g, h : Scanning(g) = Scanning(h) => g = h
    /\ Idle.state = "Idle"
    /\ \A s \in ReadyScans : s.state = "Ready" /\ s # Idle
    /\ \A k \in Commands : k # NoCall /\ k.at # "none"
    /\ NoCall.at = "none"
  <1>1. \A g : Scanning(g).state = "Scanning" /\ Scanning(g).gen = g
    BY DEF Scanning
  <1>2. Idle.state = "Idle" /\ NoCall.at = "none"
    BY DEF Idle, NoCall
  <1>3. \A s \in ReadyScans : s.state = "Ready"
    BY DEF ReadyScans
  <1>4. \A k \in Commands : k.at # "none"
    BY DEF Commands
  <1>5. \A g, h : Scanning(g) = Scanning(h) => g = h
    BY <1>1
  <1> QED BY <1>1, <1>2, <1>3, <1>4, <1>5

(* The commands, the states and the generations that are left alone stay sound. *)
LEMMA ScannerFrame ==
    ASSUME ScannerInv, scanNext' \in {scanNext, scanNext + 1},
           UNCHANGED <<holder, scan, call, dropped, confirmed>>,
           abandoned \subseteq abandoned', given' \in Nat, sessions' \in [Identities -> Nat]
    PROVE  ScannerInv'
  <1>1. scanNext' \in Nat \ {0} /\ \A n \in Nat : n < scanNext => n < scanNext'
    BY DEF ScannerInv
  <1>2. 1 .. scanNext - 1 \subseteq 1 .. scanNext' - 1
    <2>1. scanNext \in Nat \ {0} /\ scanNext' \in {scanNext, scanNext + 1}
      BY DEF ScannerInv
    <2>2. scanNext \in Nat /\ scanNext' \in Nat /\ scanNext <= scanNext'
      BY <2>1
    <2>3. \A m, n \in Nat : m <= n => 1 .. m - 1 \subseteq 1 .. n - 1
      OBVIOUS
    <2> QED BY <2>2, <2>3
  <1>3. \A c \in Calls : CommandSound(c)'
    BY <1>1 DEF ScannerInv, CommandSound, Commands, ReadSound
  <1>4. StateSound'
    BY <1>1 DEF ScannerInv, StateSound, ReadyScans
  <1> QED BY <1>1, <1>2, <1>3, <1>4 DEF ScannerInv

(* One command moves, and nothing else. *)
LEMMA CommandMoves ==
    ASSUME ScannerInv, NEW c \in Calls, NEW k, k \in Commands, k.gen = call[c].gen, ReadSound(k),
           call[c] # NoCall, call' = [call EXCEPT ![c] = k],
           UNCHANGED <<holder, scan, scanNext, dropped, abandoned, confirmed, given, sessions>>
    PROVE  ScannerInv'
  <1>1. DOMAIN call = Calls /\ \A d \in Calls : call'[d] = IF d = c THEN k ELSE call[d]
    BY DEF ScannerInv
  <1>2. \A d \in Calls : call'[d] # NoCall <=> call[d] # NoCall
    BY <1>1, StatesApart
  <1>3. \A d \in Calls : call[d] # NoCall => call'[d].gen = call[d].gen
    BY <1>1
  <1>4. \A d \in Calls : CommandSound(d)'
    BY <1>1 DEF ScannerInv, CommandSound, ReadSound
  <1>5. StateSound'
    BY <1>2, <1>3 DEF ScannerInv, StateSound
  <1> QED BY <1>1, <1>4, <1>5 DEF ScannerInv

(* A command ends: it leaves its own state, and no other command's. *)
LEMMA CommandEnds ==
    ASSUME ScannerInv, NEW c \in Calls, call[c] # NoCall, Over(c),
           UNCHANGED <<holder, scanNext, dropped, abandoned, given, sessions>>,
           \/ FinishIfCurrent(c, Idle) /\ confirmed' = confirmed
           \/ /\ FinishIfCurrent(c, ReadyScan(call[c])) /\ call[c].at = "found"
              /\ confirmed' = confirmed
           \/ /\ FinishIfCurrent(c, Idle) /\ call[c].at = "found" /\ scan = Scanning(call[c].gen)
              /\ confirmed' = [gen |-> call[c].gen, id |-> call[c].id, from |-> call[c].from]
    PROVE  ScannerInv'
  <1> DEFINE k == call[c]
  <1>1. /\ k \in Commands /\ k.gen < scanNext /\ ReadSound(k) /\ k.gen \in Nat
        /\ k.id \in Identities /\ k.kind \in Kinds /\ k.value \in 1 .. 2 /\ k.from \in 0 .. 2
    BY DEF ScannerInv, CommandSound, Commands
  <1>2. DOMAIN call' = Calls /\ \A d \in Calls : call'[d] = IF d = c THEN NoCall ELSE call[d]
    BY DEF ScannerInv, Over
  <1>3. \A d \in Calls : CommandSound(d)'
    BY <1>2 DEF ScannerInv, CommandSound, ReadSound
  <1>4. CASE scan = Scanning(k.gen)
    <2>1. scan' = Idle \/ (scan' = ReadyScan(k) /\ k.at = "found")
      BY <1>4 DEF FinishIfCurrent
    <2>2. scan.gen = k.gen /\ scan.state = "Scanning"
      BY <1>4, StatesApart
    <2>3. k.gen \notin dropped
      BY <2>2, <1>4, StatesApart DEF ScannerInv, StateSound
    <2>4. confirmed'.gen \in Nat /\ confirmed'.gen < scanNext /\ confirmed'.from = confirmed'.id
          /\ confirmed'.gen \notin dropped
      BY <1>1, <2>3 DEF ScannerInv, ReadSound
    <2>5. StateSound'
      <3>1. CASE scan' = Idle
        BY <3>1 DEF StateSound
      <3>2. CASE scan' = ReadyScan(k) /\ k.at = "found"
        <4>1. /\ scan' = [state |-> "Ready", gen |-> k.gen, id |-> k.id, kind |-> k.kind,
                          from |-> k.from, value |-> k.value]
              /\ k.from = k.id
          BY <1>1, <3>2 DEF ReadyScan, ReadSound
        <4>2. scan' \in ReadyScans /\ scan'.from = scan'.id /\ scan'.gen = k.gen
          BY <1>1, <4>1 DEF ReadyScans
        <4> QED BY <1>1, <2>3, <4>2 DEF StateSound
      <3> QED BY <2>1, <3>1, <3>2
    <2> QED BY <1>2, <1>3, <2>4, <2>5 DEF ScannerInv
  <1>5. CASE scan # Scanning(k.gen)
    <2>1. scan' = scan /\ confirmed' = confirmed
      BY <1>5 DEF FinishIfCurrent
    <2>2. \A d \in Calls : call[d] # NoCall /\ scan = Scanning(call[d].gen) => call'[d] = call[d]
      BY <1>2, <1>5
    <2>3. StateSound'
      BY <1>2, <2>1, <2>2 DEF ScannerInv, StateSound
    <2> QED BY <1>2, <1>3, <2>1, <2>3 DEF ScannerInv
  <1> QED BY <1>4, <1>5

(* A command begins with a generation of its own, from Idle or from the candidates kept. *)
LEMMA CommandStarts ==
    ASSUME ScannerInv, NEW c \in Calls, NEW i \in Identities, NEW kind \in Kinds, NEW value \in 1 .. 2,
           NEW op \in {"begin", "refine"}, NEW at \in {"before", "session"},
           call[c] = NoCall, Takes, scan' = Scanning(scanNext), Starts(c, i, kind, value, op, at),
           UNCHANGED <<holder, memoryVars, dropped, abandoned, confirmed>>
    PROVE  ScannerInv'
  <1>1. scanNext \in Nat \ {0} /\ scanNext' = scanNext + 1 /\ NoProcess \in 0 .. 2
    BY DEF ScannerInv, Takes, NoProcess
  <1>2. PICK k \in Commands : k.at = at /\ k.gen = scanNext /\ call' = [call EXCEPT ![c] = k]
    <2> DEFINE n == [at |-> at, op |-> op, gen |-> scanNext, id |-> i, kind |-> kind,
                     value |-> value, memory |-> sessions[i], from |-> NoProcess]
    <2>1. n \in Commands /\ n.at = at /\ n.gen = scanNext
      BY <1>1 DEF ScannerInv, Commands
    <2> QED BY <2>1 DEF Starts
  <1>3. call' = [call EXCEPT ![c] = k]
    BY <1>2
  <1>4. DOMAIN call' = Calls /\ \A d \in Calls : call'[d] = IF d = c THEN k ELSE call[d]
    BY <1>3 DEF ScannerInv
  <1>5. ReadSound(k)'
    BY <1>2 DEF ReadSound
  <1>6. scanNext < scanNext' /\ \A n \in Nat : n < scanNext => n < scanNext'
    BY <1>1
  <1>7. ASSUME NEW d \in Calls PROVE CommandSound(d)'
    <2>1. CASE d = c
      <3>1. call'[d] = k /\ k \in Commands /\ k.gen < scanNext'
        BY <1>2, <1>4, <1>6, <2>1
      <3>2. ReadSound(call[d])'
        BY <1>5, <3>1 DEF ReadSound
      <3> QED BY <3>1, <3>2 DEF CommandSound
    <2>2. CASE d # c
      <3>1. call'[d] = call[d] /\ CommandSound(d)
        BY <1>4, <2>2 DEF ScannerInv
      <3> QED BY <1>6, <3>1 DEF CommandSound, ReadSound, Commands
    <2> QED BY <2>1, <2>2
  <1>8. scanNext \notin dropped /\ confirmed.gen # scanNext
    BY <1>1 DEF ScannerInv
  <1>9. StateSound'
    <2>1. scan'.gen = scanNext /\ scan' = Scanning(scan'.gen)
      BY StatesApart
    <2>2. call'[c] # NoCall /\ call'[c].gen = scanNext
      BY <1>2, <1>4, StatesApart
    <2> QED BY <1>1, <1>6, <1>8, <2>1, <2>2 DEF StateSound
  <1>10. dropped' \subseteq 1 .. scanNext' - 1
    BY <1>1 DEF ScannerInv
  <1> QED BY <1>1, <1>4, <1>6, <1>7, <1>9, <1>10 DEF ScannerInv, memoryVars

(* Sessions that come and go leave no scan of theirs behind. *)
LEMMA RegistryStepsKeep ==
    ASSUME ScannerInv, RegisterSession \/ DropLease \/ PidMoves
    PROVE  ScannerInv'
  <1>1. CASE RegisterSession \/ DropLease
    <2>1. UNCHANGED <<holder, scan, scanNext, call, dropped, abandoned, confirmed>>
      BY <1>1 DEF RegisterSession, DropLease
    <2>2. given' \in Nat
      BY <1>1 DEF RegisterSession, DropLease, ScannerInv
    <2>3. sessions' \in [Identities -> Nat]
      <3>1. CASE RegisterSession
        BY <2>2, <3>1 DEF RegisterSession, ScannerInv
      <3>2. CASE DropLease
        <4>1. sessions' = sessions \/ \E i : sessions' = [sessions EXCEPT ![i] = 0]
          BY <3>2 DEF DropLease
        <4> QED BY <4>1 DEF ScannerInv
      <3> QED BY <1>1, <3>1, <3>2
    <2> QED BY <2>1, <2>2, <2>3, ScannerFrame
  <1>2. CASE PidMoves
    <2>1. /\ (holder = 1 /\ holder' = 0) \/ (holder = 0 /\ holder' = 2)
          /\ UNCHANGED <<scan, scanNext, call, dropped, abandoned, confirmed, given, sessions>>
      BY <1>2 DEF PidMoves, NoProcess, memoryVars
    <2>2. \A c \in Calls : CommandSound(c)'
      BY <2>1 DEF ScannerInv, CommandSound, ReadSound, Commands, Identities
    <2>3. StateSound'
      BY <2>1 DEF ScannerInv, StateSound
    <2> QED BY <2>1, <2>2, <2>3 DEF ScannerInv
  <1> QED BY <1>1, <1>2

(* A cancelled scan is never taken up again. *)
LEMMA CancelScanKeeps ==
    ASSUME ScannerInv, CancelScan
    PROVE  ScannerInv'
  <1>1. /\ scanNext' = scanNext + 1 /\ scan' = Idle
        /\ dropped' = dropped \/ (scan.state = "Scanning" /\ dropped' = dropped \union {scan.gen})
        /\ UNCHANGED <<holder, sessions, given, call, abandoned, confirmed>>
    BY DEF CancelScan, Takes, memoryVars
  <1>2. scan.state = "Scanning" => scan.gen < scanNext /\ scan.gen \in Nat \ {0} /\ confirmed.gen # scan.gen
    BY StatesApart DEF ScannerInv, StateSound
  <1>3. dropped' \subseteq 1 .. scanNext' - 1
    <2>1. scanNext \in Nat \ {0} /\ dropped \subseteq 1 .. scanNext - 1
      BY DEF ScannerInv
    <2>2. scan.state = "Scanning" => scan.gen \in 1 .. scanNext' - 1
      BY <1>1, <1>2, <2>1
    <2>3. 1 .. scanNext - 1 \subseteq 1 .. scanNext' - 1
      BY <1>1, <2>1
    <2> QED BY <1>1, <2>1, <2>2, <2>3
  <1>4. scanNext' \in Nat \ {0} /\ \A n \in Nat : n < scanNext => n < scanNext'
    BY <1>1 DEF ScannerInv
  <1>5. \A c \in Calls : CommandSound(c)'
    BY <1>1, <1>4 DEF ScannerInv, CommandSound, ReadSound, Commands
  <1>6. confirmed'.gen \notin dropped' /\ StateSound'
    BY <1>1, <1>2 DEF ScannerInv, StateSound
  <1> QED BY <1>1, <1>3, <1>4, <1>5, <1>6 DEF ScannerInv

(* Every step of a command that runs. *)
LEMMA CommandStepsKeep ==
    ASSUME ScannerInv, NEW c \in Calls, RefineSession(c) \/ ReadMemory(c) \/ FinishScan(c)
    PROVE  ScannerInv'
  <1> DEFINE k == call[c]
  <1>1. k # NoCall
    BY StatesApart DEF RefineSession, ReadMemory, FinishScan
  <1>2. /\ k \in Commands /\ ReadSound(k) /\ k.gen < scanNext
        /\ k.id \in Identities /\ k.gen \in Nat
    BY <1>1 DEF ScannerInv, CommandSound, Commands
  <1>3. CASE RefineSession(c)
    <2>1. k.at = "session" /\ UNCHANGED <<holder, memoryVars, scanNext, dropped, confirmed>>
      BY <1>3 DEF RefineSession
    <2>2. CASE FinishIfCurrent(c, Idle) /\ Over(c) /\ UNCHANGED abandoned
      <3>1. UNCHANGED <<holder, scanNext, dropped, abandoned, given, sessions, confirmed>>
        BY <2>1, <2>2 DEF memoryVars
      <3> QED BY <1>1, <2>2, <3>1, CommandEnds
    <2>3. CASE Over(c) /\ abandoned' = abandoned \union {call[c].gen} /\ UNCHANGED scan
      <3>1. DOMAIN call' = Calls /\ \A d \in Calls : call'[d] = IF d = c THEN NoCall ELSE call[d]
        BY <2>3 DEF ScannerInv, Over
      <3>2. \A d \in Calls : CommandSound(d)'
        BY <2>1, <3>1 DEF ScannerInv, CommandSound, ReadSound
      <3>3. StateSound'
        BY <2>1, <2>3, <3>1 DEF ScannerInv, StateSound
      <3> QED BY <2>1, <3>1, <3>2, <3>3 DEF ScannerInv, memoryVars
    <2>4. CASE /\ call' = [call EXCEPT ![c].at = "before", ![c].memory = sessions[call[c].id]]
               /\ UNCHANGED <<scan, abandoned>>
      <3> DEFINE n == [k EXCEPT !.at = "before", !.memory = sessions[k.id]]
      <3>1. sessions[k.id] \in Nat
        BY <1>2 DEF ScannerInv
      <3>2. n \in Commands /\ n.at = "before" /\ n.gen = k.gen
        BY <1>2, <3>1 DEF Commands
      <3>3. call' = [call EXCEPT ![c] = n]
        BY <2>4
      <3> HIDE DEF n
      <3>4. ReadSound(n)
        BY <3>2 DEF ReadSound
      <3> QED BY <1>1, <2>1, <2>4, <3>2, <3>3, <3>4, CommandMoves DEF memoryVars
    <2> QED BY <1>3, <2>2, <2>3, <2>4 DEF RefineSession
  <1>4. CASE ReadMemory(c)
    <2>1. UNCHANGED <<holder, sessions, given, scan, scanNext, dropped, abandoned, confirmed>>
      BY <1>4 DEF ReadMemory
    <2>2. ASSUME NEW n, n \in Commands, n.gen = k.gen, ReadSound(n), call' = [call EXCEPT ![c] = n]
          PROVE  ScannerInv'
      BY <1>1, <2>1, <2>2, CommandMoves
    <2>3. CASE k.at = "before" /\ holder = k.id /\ call' = [call EXCEPT ![c].at = "read"]
      <3> DEFINE n == [k EXCEPT !.at = "read"]
      <3>1. n \in Commands /\ n.at = "read" /\ n.gen = k.gen /\ n.id = k.id
        BY <1>2 DEF Commands
      <3>2. call' = [call EXCEPT ![c] = n]
        BY <2>3
      <3> HIDE DEF n
      <3>3. ReadSound(n)
        BY <2>3, <3>1 DEF ReadSound
      <3> QED BY <2>2, <3>1, <3>2, <3>3
    <2>4. CASE /\ k.at = "read" /\ holder # NoProcess
               /\ call' = [call EXCEPT ![c].at = "after", ![c].from = holder]
      <3> DEFINE n == [k EXCEPT !.at = "after", !.from = holder]
      <3>1. holder \in Identities /\ holder \in 0 .. 2
        BY <2>4 DEF ScannerInv, NoProcess, Identities
      <3>2. n \in Commands /\ n.at = "after" /\ n.gen = k.gen /\ n.id = k.id /\ n.from = holder
        BY <1>2, <3>1 DEF Commands
      <3>3. call' = [call EXCEPT ![c] = n]
        BY <2>4
      <3> HIDE DEF n
      <3>4. ReadSound(n)
        BY <1>2, <2>4, <3>1, <3>2 DEF ReadSound
      <3> QED BY <2>2, <3>2, <3>3, <3>4
    <2>5. CASE k.at = "after" /\ SecondCheck(c) /\ call' = [call EXCEPT ![c].at = "found"]
      <3> DEFINE n == [k EXCEPT !.at = "found"]
      <3>1. n \in Commands /\ n.at = "found" /\ n.gen = k.gen /\ n.id = k.id /\ n.from = k.from
        BY <1>2 DEF Commands
      <3>2. call' = [call EXCEPT ![c] = n]
        BY <2>5
      <3>3. k.from = k.id
        BY <1>2, <2>5 DEF ReadSound, SecondCheck, Identities
      <3> HIDE DEF n
      <3>4. ReadSound(n)
        BY <3>1, <3>3 DEF ReadSound
      <3> QED BY <2>2, <3>1, <3>2, <3>4
    <2>6. CASE call' = [call EXCEPT ![c].at = "failed"]
      <3> DEFINE n == [k EXCEPT !.at = "failed"]
      <3>1. n \in Commands /\ n.at = "failed" /\ n.gen = k.gen
        BY <1>2 DEF Commands
      <3>2. call' = [call EXCEPT ![c] = n]
        BY <2>6
      <3> HIDE DEF n
      <3>3. ReadSound(n)
        BY <3>1 DEF ReadSound
      <3> QED BY <2>2, <3>1, <3>2, <3>3
    <2> QED BY <1>4, <2>3, <2>4, <2>5, <2>6 DEF ReadMemory
  <1>5. CASE FinishScan(c)
    <2>1. Over(c) /\ UNCHANGED <<holder, sessions, given, scanNext, dropped, abandoned>>
      BY <1>5 DEF FinishScan, memoryVars
    <2>2. \/ FinishIfCurrent(c, Idle) /\ confirmed' = confirmed
          \/ FinishIfCurrent(c, ReadyScan(k)) /\ k.at = "found" /\ confirmed' = confirmed
          \/ /\ FinishIfCurrent(c, Idle) /\ k.at = "found" /\ scan = Scanning(k.gen)
             /\ confirmed' = [gen |-> k.gen, id |-> k.id, from |-> k.from]
      BY <1>5 DEF FinishScan
    <2> QED BY <1>1, <2>1, <2>2, CommandEnds
  <1> QED BY <1>3, <1>4, <1>5

(* A command begins with the session and the generation it saw. *)
LEMMA NewCommandsKeep ==
    ASSUME ScannerInv, NEW c \in Calls, NEW kind \in Kinds, NEW value \in 1 .. 2,
           BeginScan(c, kind, value) \/ ReserveRefine(c, kind, value)
    PROVE  ScannerInv'
  <1>1. /\ call[c] = NoCall /\ Takes /\ UNCHANGED <<holder, memoryVars, dropped, abandoned, confirmed>>
        /\ \/ UNCHANGED <<scan, call>>
           \/ /\ scan' = Scanning(scanNext)
              /\ \E i \in Identities : \E op \in {"begin", "refine"} : \E at \in {"before", "session"} :
                    Starts(c, i, kind, value, op, at)
    <2>1. CASE BeginScan(c, kind, value)
      BY <2>1 DEF BeginScan
    <2>2. CASE ReserveRefine(c, kind, value)
      <3>1. scan.state = "Ready" => scan.id \in Identities
        BY StatesApart DEF ScannerInv, StateSound, ReadyScans
      <3> QED BY <2>2, <3>1 DEF ReserveRefine
    <2> QED BY <2>1, <2>2
  <1>2. CASE UNCHANGED <<scan, call>>
    BY <1>1, <1>2, ScannerFrame DEF Takes, memoryVars, ScannerInv
  <1> QED BY <1>1, <1>2, CommandStarts

(* What is kept or reported was read in the process it is of and comes from no cancelled scan, and
   a scan in progress has its command, for every number of overlapping commands, leases and
   generations (scanner.rs, session.rs). *)
THEOREM ScanAlwaysSound == ScannerSpec => []ScanSound
  <1>1. ScannerInit => ScannerInv
    <2> SUFFICES ASSUME ScannerInit PROVE ScannerInv
      OBVIOUS
    <2>1. /\ holder = 1 /\ scanNext = 1 /\ given = 0 /\ dropped = {} /\ scan = Idle
          /\ sessions \in [Identities -> Nat] /\ call = [c \in Calls |-> NoCall]
          /\ confirmed.gen = 0 /\ confirmed.from = confirmed.id
      BY DEF ScannerInit, NoAddress
    <2> QED BY <2>1 DEF ScannerInv, CommandSound, StateSound
  <1>2. ScannerInv /\ [ScannerNext]_scannerVars => ScannerInv'
    <2> SUFFICES ASSUME ScannerInv, [ScannerNext]_scannerVars
                 PROVE  ScannerInv'
      OBVIOUS
    <2>1. CASE UNCHANGED scannerVars
      BY <2>1, ScannerFrame DEF scannerVars, memoryVars, ScannerInv
    <2> QED BY <2>1, RegistryStepsKeep, CancelScanKeeps, CommandStepsKeep, NewCommandsKeep
            DEF ScannerNext
  <1>3. ScannerInv => ScanSound
    BY StatesApart DEF ScannerInv, StateSound, ScanSound
  <1> QED BY <1>1, <1>2, <1>3, PTL DEF ScannerSpec

(* ------------------------------ the search ------------------------------- *)

Bits == {0, 1}
Ranges == Nat \X Nat
Searches == [at: {"reading", "found"}, kind: {"word", "bytes"}, needle: Seq(Bits) \ {<<>>},
             regions: Seq(Ranges), address: Nat, overlap: Seq(Bits), found: SUBSET (0 .. AddressSpace),
             read: SUBSET Nat, seams: SUBSET Nat, short: BOOLEAN, all: Seq(Ranges)]
Memories == [0 .. AddressSpace - 1 -> 0 .. 1]

(* The ranges are in order, aligned and inside the space. *)
Ordered(ranges) ==
    \A k \in 1 .. Len(ranges) :
        /\ ranges[k][1] % WordSize = 0 /\ ranges[k][1] < ranges[k][2] /\ ranges[k][2] <= AddressSpace
        /\ \A j \in 1 .. k - 1 : ranges[j][2] <= ranges[k][1]

(* An address of the needle of s, if these bytes were read; a match over a seam. *)
Occurs(a, s, read) ==
    /\ a \in 0 .. AddressSpace - Len(s.needle)
    /\ \E k \in DOMAIN s.all : s.all[k][1] <= a /\ a + Len(s.needle) <= s.all[k][2]
    /\ \A j \in 1 .. Len(s.needle) : memory[a + j - 1] = s.needle[j]
    /\ a .. a + Len(s.needle) - 1 \subseteq read
    /\ s.kind = "word" => a % WordSize = 0
Spans(a, s, seams) == \E seam \in seams : a < seam /\ seam < a + Len(s.needle)
Exact(s, found, read, seams) ==
    /\ \A a : Occurs(a, s, read) => a \in found
    /\ \A a \in found : Occurs(a, s, read) \/ Spans(a, s, seams)

(* These bytes, the first at base, are what the memory holds from one address up to another. *)
TrueIn(bytes, base, from, to) == \A x \in from .. to - 1 : bytes[x - base + 1] = memory[x]
(* From t on the overlap is what the memory holds before the address. What it has before t is of
   an earlier chunk, read short, and a match that begins there spans a seam. Whatever was read
   up to the address, and a match of the next chunk may begin in, is there. *)
Trusted(s, first, t) ==
    /\ t \in s.address - Len(s.overlap) .. s.address
    /\ t .. s.address - 1 \subseteq s.read
    /\ TrueIn(s.overlap, s.address - Len(s.overlap), t, s.address)
    /\ t > s.address - Len(s.overlap) => t \in s.seams \/ (t = s.address /\ s.short)
    /\ s.short => t = s.address
    /\ s.kind = "bytes" =>
          \A a \in first .. s.address - 1 :
             (a .. s.address - 1 \subseteq s.read /\ s.address - a < Len(s.needle)) => t <= a

(* The i-th range is read, up to the address. *)
Under(s, i) ==
    /\ s.all[i][1] <= s.address - Len(s.overlap) /\ s.address < s.all[i][2]
    /\ s.address % WordSize = 0
    /\ \A x \in s.read : x < s.address
    /\ Len(s.overlap) < Len(s.needle)
    /\ s.kind = "word" => s.overlap = <<>> /\ ~s.short
    /\ \E t \in Nat : Trusted(s, s.all[i][1], t)

Position(s, i) ==
    /\ i \in 1 .. Len(s.all) + 1 /\ Len(s.regions) = Len(s.all) + 1 - i
    /\ \A k \in 1 .. Len(s.regions) : s.regions[k] = s.all[k + i - 1]

SearchShape(s) ==
    /\ s \in Searches /\ Ordered(s.all)
    /\ s.kind = "word" => Len(s.needle) = WordSize
    /\ Cardinality(s.found) <= MaxCandidates
    /\ Exact(s, s.found, s.read, s.seams)

SearchInv ==
    /\ memory \in Memories
    /\ search \in {NoSearch, [at |-> "refused"]}
       \/ /\ SearchShape(search)
          /\ search.at = "reading" =>
                \E i \in Nat : Position(search, i) /\ (search.regions # <<>> => Under(search, i))

(* What is read from memory. *)
LEMMA BytesAre ==
    ASSUME memory \in Memories, NEW from \in Nat, NEW count \in Nat, from + count <= AddressSpace,
           AddressSpace \in Nat
    PROVE  /\ Bytes(from, count) \in Seq(Bits) /\ Len(Bytes(from, count)) = count
           /\ \A k \in 1 .. count : Bytes(from, count)[k] = memory[from + k - 1]
  <1>1. \A k \in 1 .. count : from + k - 1 \in 0 .. AddressSpace - 1
    OBVIOUS
  <1>2. \A k \in 1 .. count : memory[from + k - 1] \in Bits
    BY <1>1 DEF Memories, Bits
  <1>3. Bytes(from, count) \in [1 .. count -> Bits]
    BY <1>2 DEF Bytes
  <1>4. Bytes(from, count) \in Seq(Bits)
    BY <1>3, SeqDef
  <1>5. DOMAIN Bytes(from, count) = 1 .. count
    BY <1>3
  <1>6. Len(Bytes(from, count)) = count
    BY <1>4, <1>5, LenProperties
  <1> QED BY <1>4, <1>6 DEF Bytes

(* A match, element by element. *)
LEMMA MatchAt ==
    ASSUME NEW bytes \in Seq(Bits), NEW needle \in Seq(Bits), NEW offset \in Nat
    PROVE  Matches(bytes, offset, needle) <=>
              /\ offset + Len(needle) <= Len(bytes)
              /\ \A j \in 1 .. Len(needle) : bytes[offset + j] = needle[j]
  <1>0. Len(bytes) \in Nat /\ Len(needle) \in Nat
    BY LenProperties
  <1>1. CASE ~(offset + Len(needle) <= Len(bytes))
    BY <1>1 DEF Matches
  <1>2. CASE offset + Len(needle) <= Len(bytes)
    <2> DEFINE part == SubSeq(bytes, offset + 1, offset + Len(needle))
    <2>1. \A k \in offset + 1 .. offset + Len(needle) : k \in 1 .. Len(bytes)
      BY <1>0, <1>2
    <2>2. \A k \in offset + 1 .. offset + Len(needle) : bytes[k] \in Bits
      BY <2>1, ElementOfSeq
    <2>3. offset + 1 \in Int /\ offset + Len(needle) \in Int
      BY <1>0
    <2>4. /\ part \in Seq(Bits)
          /\ Len(part) = IF offset + 1 <= offset + Len(needle) THEN offset + Len(needle) - (offset + 1) + 1 ELSE 0
          /\ \A k \in 1 .. offset + Len(needle) - (offset + 1) + 1 : part[k] = bytes[offset + 1 + k - 1]
      BY <2>2, <2>3, SubSeqProperties
    <2> HIDE DEF part
    <2>5. Len(part) = Len(needle)
      BY <1>0, <2>4
    <2>6. \A k \in 1 .. Len(needle) : part[k] = bytes[offset + k]
      <3> TAKE k \in 1 .. Len(needle)
      <3>1. k \in 1 .. offset + Len(needle) - (offset + 1) + 1 /\ offset + 1 + k - 1 = offset + k
        BY <1>0
      <3> QED BY <3>1, <2>4
    <2>7. part = needle <=> \A k \in 1 .. Len(needle) : part[k] = needle[k]
      BY <2>4, <2>5, SeqEqual
    <2> QED BY <1>2, <2>6, <2>7 DEF Matches, part
  <1> QED BY <1>1, <1>2

(* What find_all_subslices returns. *)
LEMMA SubslicesAre ==
    ASSUME NEW bytes, NEW needle, NEW offset, bytes \in Seq(Bits), needle \in Seq(Bits)
    PROVE  offset \in find_all_subslices(bytes, needle) <=>
              /\ offset \in Nat /\ offset + Len(needle) <= Len(bytes)
              /\ \A j \in 1 .. Len(needle) : bytes[offset + j] = needle[j]
  <1>1. Len(bytes) \in Nat /\ Len(needle) \in Nat
    BY LenProperties
  <1>2. offset \in Nat /\ offset + Len(needle) <= Len(bytes) => offset \in 0 .. Len(bytes)
    BY <1>1
  <1> QED BY <1>1, <1>2, MatchAt DEF find_all_subslices

(* The overlap and the chunk, one after the other: from t on, the memory. *)
LEMMA CombinedAre ==
    ASSUME NEW overlap, NEW base, NEW q, NEW n, NEW t,
           overlap \in Seq(Bits), base \in Nat, q \in Nat, n \in Nat, t \in Nat,
           memory \in Memories, AddressSpace \in Nat, base + Len(overlap) = q, q + n <= AddressSpace,
           base <= t, t <= q, TrueIn(overlap, base, t, q)
    PROVE  TrueIn(overlap \o Bytes(q, n), base, t, q + n)
  <1> DEFINE bytes == Bytes(q, n)
             combined == overlap \o bytes
  <1>2. PICK o \in Nat : o = Len(overlap) /\ base + o = q
    BY LenProperties
  <1>3. /\ bytes \in Seq(Bits) /\ Len(bytes) = n
        /\ \A k \in 1 .. n : bytes[k] = memory[q + k - 1]
    BY BytesAre
  <1> HIDE DEF bytes
  <1>4. /\ combined \in Seq(Bits) /\ Len(combined) = o + n
        /\ \A k \in 1 .. o + n : combined[k] = IF k <= o THEN overlap[k] ELSE bytes[k - o]
    BY <1>2, <1>3, ConcatProperties
  <1> HIDE DEF combined
  <1>6. ASSUME NEW x \in t .. q + n - 1 PROVE combined[x - base + 1] = memory[x]
    <2>1. x - base + 1 \in 1 .. o + n /\ x \in Nat
      BY <1>2
    <2>2. CASE x < q
      <3>1. x \in t .. q - 1 /\ x - base + 1 <= o
        BY <2>1, <2>2, <1>2
      <3>2. overlap[x - base + 1] = memory[x]
        BY <3>1 DEF TrueIn
      <3> QED BY <2>1, <3>1, <3>2, <1>4
    <2>3. CASE x >= q
      <3>1. ~(x - base + 1 <= o) /\ (x - base + 1) - o = x - q + 1
        BY <2>1, <2>3, <1>2
      <3>2. combined[x - base + 1] = bytes[x - q + 1]
        BY <2>1, <3>1, <1>4
      <3>3. x - q + 1 \in 1 .. n /\ q + (x - q + 1) - 1 = x
        BY <2>1, <2>3, <1>2
      <3> QED BY <3>2, <3>3, <1>3
    <2> QED BY <2>1, <2>2, <2>3
  <1>7. TrueIn(combined, base, t, q + n)
    BY <1>6 DEF TrueIn
  <1> QED BY <1>7 DEF combined, bytes

(* A range further on begins where the ones before have ended. *)
LEMMA OneRange ==
    ASSUME NEW ranges \in Seq(Ranges), Ordered(ranges), NEW i \in 1 .. Len(ranges), NEW k \in 1 .. Len(ranges),
           NEW x \in Nat, ranges[i][1] <= x, x < ranges[i][2], ranges[k][1] <= x, x < ranges[k][2]
    PROVE  k = i
  <1>1. Len(ranges) \in Nat
    BY LenProperties
  <1>2. ranges[i] \in Ranges /\ ranges[k] \in Ranges
    BY ElementOfSeq
  <1>3. ASSUME k < i PROVE FALSE
    <2>1. k \in 1 .. i - 1
      BY <1>1, <1>3
    <2> QED BY <2>1, <1>2 DEF Ordered, Ranges
  <1>4. ASSUME i < k PROVE FALSE
    <2>1. i \in 1 .. k - 1
      BY <1>1, <1>4
    <2> QED BY <2>1, <1>2 DEF Ordered, Ranges
  <1> QED BY <1>3, <1>4

LEMMA MinOfTwo ==
    ASSUME NEW a \in Nat, NEW b \in Nat
    PROVE  /\ Min({a, b}) \in Nat /\ Min({a, b}) <= a /\ Min({a, b}) <= b
           /\ Min({a, b}) = a \/ Min({a, b}) = b
  <1>1. \E x \in {a, b} : \A y \in {a, b} : x <= y
    OBVIOUS
  <1>2. Min({a, b}) \in {a, b} /\ \A y \in {a, b} : Min({a, b}) <= y
    BY <1>1 DEF Min
  <1> QED BY <1>2

(* What is read of a list of mappings: ranges in order, inside 32 bits. *)
LEMMA RegionsAre ==
    ASSUME NEW maps \in Mappings
    PROVE  parse_writable_regions(maps) \in Seq(Ranges) /\ Ordered(parse_writable_regions(maps))
  <1> DEFINE start(k) == maps[k][1]
             end(k) == maps[k][2]
             clip(k) == Min({end(k), AddressSpace})
             clipped == [k \in DOMAIN maps |-> <<maps[k][1], Min({maps[k][2], AddressSpace})>>]
             fits(k) == clipped[k][1] < clipped[k][2]
             Cuts(n) == \A k \in DOMAIN maps : fits(k) <=> k <= n
             kept == CHOOSE n \in 0 .. Len(maps) : Cuts(n)
             regions == [k \in 1 .. kept |-> clipped[k]]
  <1> HIDE DEF clipped
  <1>1. /\ maps \in Seq(Ranges) /\ AddressSpace \in Nat
        /\ \A k \in DOMAIN maps : start(k) % WordSize = 0 /\ start(k) < end(k)
        /\ \A k \in DOMAIN maps : \A j \in 1 .. k - 1 : end(j) <= start(k)
    BY SearchAssumption DEF SearchBounds, Ranges
  <1>2. Len(maps) \in Nat /\ DOMAIN maps = 1 .. Len(maps)
    BY <1>1, LenProperties
  <1>c. AddressSpace \in Nat
    BY <1>1
  <1>n. PICK len \in Nat : len = Len(maps)
    BY <1>2
  <1>3. \A k \in 1 .. len : start(k) \in Nat /\ end(k) \in Nat
    <2> TAKE k \in 1 .. len
    <2>1. maps[k] \in Ranges
      BY <1>1, <1>n, ElementOfSeq
    <2> QED BY <2>1 DEF Ranges
  <1>4. \A k \in 1 .. len :
           /\ clip(k) \in Nat /\ clip(k) <= end(k) /\ clip(k) <= AddressSpace
           /\ clip(k) = end(k) \/ clip(k) = AddressSpace
    BY <1>1, <1>3, MinOfTwo
  <1>a. \A k \in 1 .. len : /\ start(k) % WordSize = 0 /\ start(k) < end(k)
                            /\ \A j \in 1 .. k - 1 : end(j) <= start(k)
    BY <1>1, <1>2, <1>n
  <1>5. \A k \in 1 .. len : clipped[k] = <<start(k), clip(k)>> /\ (fits(k) <=> start(k) < clip(k))
    <2> TAKE k \in 1 .. len
    <2>1. clipped[k] = <<start(k), clip(k)>>
      BY <1>2, <1>n DEF clipped
    <2> HIDE DEF start, clip
    <2> QED BY <2>1
  <1> HIDE DEF clip, start, end
  <1>6. ASSUME NEW l \in 1 .. len, ~fits(l), NEW k \in 1 .. len, l < k
        PROVE  ~fits(k)
    <2>1. l \in 1 .. k - 1
      BY <1>6
    <2>2. end(l) <= start(k) /\ start(l) < end(l) /\ ~(start(l) < clip(l))
      BY <2>1, <1>a, <1>5, <1>6
    <2>n. /\ start(k) \in Nat /\ clip(k) \in Nat /\ clip(k) <= AddressSpace
          /\ start(l) \in Nat /\ end(l) \in Nat /\ (clip(l) = end(l) \/ clip(l) = AddressSpace)
      BY <1>3, <1>4
    <2>3. AddressSpace <= start(k)
      BY <2>2, <2>n, <1>c
    <2>4. ~(start(k) < clip(k))
      BY <2>3, <2>n, <1>c
    <2> QED BY <2>4, <1>5, <1>6
  <1> HIDE DEF fits
  <1>7. \E n \in 0 .. Len(maps) : Cuts(n)
    <2> DEFINE bad == {k \in 1 .. len : ~fits(k)}
    <2>1. CASE bad = {}
      <3>1. len \in 0 .. len /\ \A k \in 1 .. len : k <= len
        OBVIOUS
      <3>2. \A k \in 1 .. len : fits(k)
        BY <2>1
      <3>3. Cuts(len)
        BY <3>1, <3>2, <1>2, <1>n
      <3> QED BY <3>1, <3>3, <1>n
    <2>2. CASE bad # {}
      <3>0. bad \in SUBSET Nat
        OBVIOUS
      <3> HIDE DEF bad
      <3>1. PICK l \in bad : \A k \in bad : l <= k
        BY <2>2, <3>0, LeastOf
      <3>2. l \in 1 .. len /\ ~fits(l) /\ l - 1 \in 0 .. len
        BY DEF bad
      <3>3. ASSUME NEW k \in 1 .. len PROVE fits(k) <=> k <= l - 1
        <4>1. CASE k < l
          <5>1. k \notin bad
            BY <3>1, <3>2, <4>1
          <5> QED BY <5>1, <3>2, <4>1 DEF bad
        <4>2. CASE k = l
          BY <3>2, <4>2
        <4>3. CASE l < k
          BY <3>2, <4>3, <1>6
        <4> QED BY <3>2, <4>1, <4>2, <4>3
      <3>4. Cuts(l - 1)
        BY <3>3, <1>2, <1>n
      <3> QED BY <3>2, <3>4, <1>n
    <2> QED BY <2>1, <2>2
  <1>8. kept \in 0 .. Len(maps) /\ Cuts(kept)
    BY <1>7
  <1>9. parse_writable_regions(maps) = regions
    BY DEF parse_writable_regions, fits, clipped
  <1> HIDE DEF kept
  <1>b. kept \in Nat /\ kept <= len
    BY <1>8, <1>n
  <1>10. ASSUME NEW k \in 1 .. kept PROVE k \in 1 .. len /\ fits(k)
    <2>1. k \in 1 .. len /\ k <= kept
      BY <1>b
    <2> QED BY <2>1, <1>2, <1>8, <1>n
  <1>11. ASSUME NEW k \in 1 .. kept
         PROVE  /\ regions[k] = <<start(k), clip(k)>> /\ regions[k] \in Ranges
                /\ start(k) < clip(k)
    <2>1. k \in 1 .. len /\ fits(k)
      BY <1>10
    <2>2. regions[k] = clipped[k]
      OBVIOUS
    <2>3. clipped[k] = <<start(k), clip(k)>> /\ start(k) < clip(k)
      BY <2>1, <1>5
    <2>4. start(k) \in Nat /\ clip(k) \in Nat
      BY <2>1, <1>3, <1>4
    <2>5. <<start(k), clip(k)>> \in Ranges
      BY <2>4 DEF Ranges
    <2> QED BY <2>2, <2>3, <2>5
  <1>12. regions \in [1 .. kept -> Ranges]
    BY <1>11
  <1> HIDE DEF regions
  <1>13. regions \in Seq(Ranges) /\ DOMAIN regions = 1 .. kept
    <2>1. DOMAIN regions = 1 .. kept
      BY <1>12
    <2>2. regions \in Seq(Ranges)
      BY <1>12, <1>b, SeqDef
    <2> QED BY <2>1, <2>2
  <1>14. Len(regions) = kept
    BY <1>b, <1>13, LenProperties
  <1>15. ASSUME NEW k \in 1 .. kept
         PROVE  /\ regions[k][1] % WordSize = 0 /\ regions[k][1] < regions[k][2] /\ regions[k][2] <= AddressSpace
                /\ \A j \in 1 .. k - 1 : regions[j][2] <= regions[k][1]
    <2>1. k \in 1 .. len /\ regions[k][1] = start(k) /\ regions[k][2] = clip(k)
      BY <1>10, <1>11
    <2>2. ASSUME NEW j \in 1 .. k - 1 PROVE regions[j][2] <= regions[k][1]
      <3>1. j \in 1 .. kept /\ j \in 1 .. len
        BY <1>b, <1>10
      <3>2. clip(j) <= end(j) /\ end(j) <= start(k) /\ clip(j) \in Nat /\ end(j) \in Nat /\ start(k) \in Nat
        BY <3>1, <2>1, <1>a, <1>3, <1>4
      <3>3. clip(j) <= start(k)
        BY <3>2
      <3> QED BY <3>1, <3>3, <2>1, <1>11
    <2>3. start(k) % WordSize = 0 /\ start(k) < clip(k) /\ clip(k) <= AddressSpace
      BY <2>1, <1>a, <1>4, <1>11
    <2> QED BY <2>1, <2>2, <2>3
  <1>16. Ordered(regions)
    BY <1>14, <1>15 DEF Ordered
  <1> QED BY <1>9, <1>13, <1>16

(* An aligned address is a number of words. *)
LEMMA MultipleOf ==
    ASSUME WordSize \in Nat \ {0}, NEW a \in Nat, a % WordSize = 0
    PROVE  \E p \in Nat : a = WordSize * p
  <1>1. PICK w \in Nat : w = WordSize /\ w # 0
    OBVIOUS
  <1>2. a = w * (a \div w) + (a % w) /\ a \div w \in Nat /\ a % w = 0
    BY <1>1, SMTT(30)
  <1>3. PICK p \in Nat : p = a \div w
    BY <1>2
  <1>4. a = w * p
    BY <1>1, <1>2, <1>3, SMTT(30)
  <1> QED BY <1>1, <1>4

(* A word that ends after an aligned address begins there or later. *)
LEMMA AlignedAfter ==
    ASSUME WordSize \in Nat \ {0}, NEW a \in Nat, NEW b \in Nat,
           a % WordSize = 0, b % WordSize = 0, b < a + WordSize
    PROVE  b <= a
  <1>1. PICK w \in Nat : w = WordSize /\ w # 0
    OBVIOUS
  <1>4. PICK p \in Nat, q \in Nat : a = w * p /\ b = w * q
    <2>1. PICK p \in Nat : a = w * p
      BY <1>1, MultipleOf
    <2>2. PICK q \in Nat : b = w * q
      BY <1>1, MultipleOf
    <2> QED BY <2>1, <2>2
  <1>5. w * q < w * (p + 1)
    BY <1>1, <1>4, SMTT(30)
  <1>6. q < p + 1
    BY <1>1, <1>5, SMTT(30)
  <1>7. w * q <= w * p
    BY <1>1, <1>6, SMTT(30)
  <1> QED BY <1>4, <1>7

(* What a chunk adds to what was found: exactly the matches that end in it, but for those over
   the border of a chunk read short. *)
LEMMA ChunkIsExact ==
    ASSUME memory \in Memories, NEW s, NEW i, NEW n \in Nat, NEW seams \in SUBSET Nat
    PROVE  LET found == s.found \union FoundIn(s, Bytes(s.address, n))
           IN  /\ SearchShape(s) /\ i \in 1 .. Len(s.all) /\ Under(s, i) /\ s.address + n <= s.all[i][2]
               /\ s.seams \subseteq seams /\ (s.short /\ n > 0 => s.address \in seams)
               => /\ Exact(s, found, s.read \union (s.address .. s.address + n - 1), seams)
                  /\ found \subseteq 0 .. AddressSpace
  <1> DEFINE new == FoundIn(s, Bytes(s.address, n))
             read == s.read \union (s.address .. s.address + n - 1)
             bytes == Bytes(s.address, n)
             combined == s.overlap \o bytes
  <1>0. SUFFICES ASSUME SearchShape(s), i \in 1 .. Len(s.all), Under(s, i), s.address + n <= s.all[i][2],
                        s.seams \subseteq seams, s.short /\ n > 0 => s.address \in seams
                 PROVE  /\ Exact(s, s.found \union new, read, seams)
                        /\ s.found \union new \subseteq 0 .. AddressSpace
    OBVIOUS
  <1>1. /\ s \in Searches /\ Ordered(s.all) /\ Exact(s, s.found, s.read, s.seams)
        /\ s.kind = "word" => Len(s.needle) = WordSize
        /\ WordSize \in Nat \ {0} /\ AddressSpace \in Nat
    BY <1>0, SearchAssumption DEF SearchBounds, SearchShape
  <1>2. /\ s.needle \in Seq(Bits) /\ s.needle # <<>> /\ s.overlap \in Seq(Bits) /\ s.address \in Nat
        /\ s.read \in SUBSET Nat /\ s.seams \in SUBSET Nat /\ s.found \subseteq 0 .. AddressSpace
        /\ s.all \in Seq(Ranges) /\ s.kind \in {"word", "bytes"}
    BY <1>1 DEF Searches
  <1>3. PICK len \in Nat : len = Len(s.needle) /\ len > 0
    <2>1. Len(s.needle) \in Nat \ {0}
      BY <1>2, EmptySeq
    <2> QED BY <2>1
  <1>4. PICK o \in Nat : o = Len(s.overlap)
    BY <1>2, LenProperties
  <1>5. PICK q \in Nat : q = s.address
    BY <1>2
  <1>6. PICK low \in Nat, high \in Nat : low = s.all[i][1] /\ high = s.all[i][2]
    <2>1. s.all[i] \in Ranges
      BY <1>0, <1>2, ElementOfSeq
    <2> QED BY <2>1 DEF Ranges
  <1>7. /\ low <= q - o /\ q < high /\ q + n <= high /\ high <= AddressSpace /\ o < len
        /\ \A x \in s.read : x < q
    BY <1>0, <1>3, <1>4, <1>5, <1>6, <1>1 DEF Under, Ordered
  <1>8. PICK t \in Nat : Trusted(s, low, t)
    BY <1>0, <1>6 DEF Under
  <1>s. s \in Searches
    BY <1>1
  <1>9. AddressSpace \in Nat /\ q + n <= AddressSpace /\ o <= q
    BY <1>1, <1>7
  <1>b. PICK base \in Nat : base = q - o /\ base + o = q
    BY <1>9
  <1>10. /\ combined \in Seq(Bits) /\ Len(combined) = o + n
         /\ TrueIn(combined, base, t, q + n)
    <2>1. combined = s.overlap \o Bytes(q, n)
      BY <1>5
    <2> HIDE DEF combined
    <2>2. base <= t /\ t <= q /\ TrueIn(s.overlap, base, t, q)
      BY <1>4, <1>5, <1>8, <1>b DEF Trusted
    <2>3. PICK v \in Seq(Bits) : v = s.overlap
      BY <1>2
    <2>4. TrueIn(v, base, t, q) /\ base <= t /\ t <= q /\ base + Len(v) = q
      BY <2>2, <2>3, <1>4, <1>b
    <2>5. v \o Bytes(q, n) \in Seq(Bits) /\ Len(v \o Bytes(q, n)) = Len(v) + n
      <3>1. PICK c \in Seq(Bits) : c = Bytes(q, n) /\ Len(c) = n
        BY <1>9, BytesAre
      <3>2. v \o c \in Seq(Bits) /\ Len(v \o c) = Len(v) + Len(c)
        BY ConcatProperties
      <3> QED BY <3>1, <3>2
    <2>6. TrueIn(v \o Bytes(q, n), base, t, q + n)
      BY <2>4, <1>9, CombinedAre
    <2> QED BY <2>1, <2>3, <2>5, <2>6, <1>4
  <1>11. bytes \in Seq(Bits) /\ Len(bytes) = n /\ \A k \in 1 .. n : bytes[k] = memory[q + k - 1]
    <2>1. bytes = Bytes(q, n)
      BY <1>5
    <2>2. /\ Bytes(q, n) \in Seq(Bits) /\ Len(Bytes(q, n)) = n
          /\ \A k \in 1 .. n : Bytes(q, n)[k] = memory[q + k - 1]
      BY <1>9, BytesAre
    <2> HIDE DEF bytes
    <2> QED BY <2>1, <2>2
  <1> HIDE DEF combined, bytes
  <1>12. s.kind = "word" => \A a : a \in new <=>
            \E offset \in Nat : /\ a = q + offset /\ offset + len <= n /\ a % WordSize = 0
                               /\ \A j \in 1 .. len : bytes[offset + j] = s.needle[j]
    <2>1. ASSUME NEW offset
          PROVE  offset \in find_all_subslices(bytes, s.needle) <=>
                    /\ offset \in Nat /\ offset + Len(s.needle) <= Len(bytes)
                    /\ \A j \in 1 .. Len(s.needle) : bytes[offset + j] = s.needle[j]
      <3>1. bytes \in Seq(Bits) /\ s.needle \in Seq(Bits)
        BY <1>2, <1>11
      <3> QED BY <3>1, SubslicesAre
    <2>2. s.kind = "word" => new = {q + offset : offset \in {x \in find_all_subslices(bytes, s.needle) : (q + x) % WordSize = 0}}
      BY <1>5 DEF FoundIn, scan_aligned_chunk, bytes
    <2> HIDE DEF new
    <2>3. ASSUME NEW offset PROVE offset \in find_all_subslices(bytes, s.needle) <=>
              /\ offset \in Nat /\ offset + len <= n
              /\ \A j \in 1 .. len : bytes[offset + j] = s.needle[j]
      BY <2>1, <1>3, <1>11
    <2>4. s.kind = "word" => \A a : a \in new <=>
             \E offset \in find_all_subslices(bytes, s.needle) : a = q + offset /\ (q + offset) % WordSize = 0
      BY <2>2
    <2> QED BY <2>3, <2>4, Zenon
  <1>13. s.kind = "bytes" => \A a : a \in new <=>
            \E offset \in Nat : /\ a = q - o + offset /\ offset + len <= o + n
                               /\ \A j \in 1 .. len : combined[offset + j] = s.needle[j]
    <2>1. ASSUME NEW offset
          PROVE  offset \in find_all_subslices(combined, s.needle) <=>
                    /\ offset \in Nat /\ offset + Len(s.needle) <= Len(combined)
                    /\ \A j \in 1 .. Len(s.needle) : combined[offset + j] = s.needle[j]
      <3>1. combined \in Seq(Bits) /\ s.needle \in Seq(Bits)
        BY <1>2, <1>10
      <3> QED BY <3>1, SubslicesAre
    <2>2. s.kind = "bytes" => new = {q - o + offset : offset \in find_all_subslices(combined, s.needle)}
      BY <1>4, <1>5 DEF FoundIn, combined, bytes
    <2> HIDE DEF new
    <2>3. ASSUME NEW offset PROVE offset \in find_all_subslices(combined, s.needle) <=>
              /\ offset \in Nat /\ offset + len <= o + n
              /\ \A j \in 1 .. len : combined[offset + j] = s.needle[j]
      BY <2>1, <1>3, <1>10
    <2>4. s.kind = "bytes" => \A a : a \in new <=>
             \E offset \in find_all_subslices(combined, s.needle) : a = q - o + offset
      BY <2>2, Zenon
    <2> QED BY <2>3, <2>4, Zenon
  <1> HIDE DEF new
  <1>w. PICK w \in Seq(Bits) : w = s.needle
    BY <1>2
  <1>r. PICK ranges \in Seq(Ranges) : ranges = s.all
    BY <1>2
  <1>k. Ordered(ranges) /\ DOMAIN ranges = 1 .. Len(ranges) /\ i \in 1 .. Len(ranges)
        /\ ranges[i][1] = low /\ ranges[i][2] = high /\ len = Len(w)
    BY <1>0, <1>1, <1>3, <1>6, <1>r, <1>w, LenProperties
  <1>14. ASSUME NEW a, NEW R
         PROVE  Occurs(a, s, R) <=>
                   /\ a \in 0 .. AddressSpace - len
                   /\ \E k \in 1 .. Len(ranges) : ranges[k][1] <= a /\ a + len <= ranges[k][2]
                   /\ \A j \in 1 .. len : memory[a + j - 1] = w[j]
                   /\ a .. a + len - 1 \subseteq R
                   /\ s.kind = "word" => a % WordSize = 0
    <2>1. /\ len = Len(s.needle) /\ w = s.needle /\ ranges = s.all /\ DOMAIN s.all = 1 .. Len(ranges)
      BY <1>3, <1>r, <1>w, <1>k
    <2> QED BY <2>1, Zenon DEF Occurs
  <1>15. ASSUME NEW a \in Nat, low <= a, a + len <= q + n, \A j \in 1 .. len : memory[a + j - 1] = w[j],
                \A x \in a .. q - 1 : x \in s.read, s.kind = "word" => a % WordSize = 0
         PROVE  Occurs(a, s, read)
    <2>1. a + len <= high /\ a \in 0 .. AddressSpace - len
      BY <1>15, <1>7, <1>9
    <2>2. \E k \in 1 .. Len(ranges) : ranges[k][1] <= a /\ a + len <= ranges[k][2]
      BY <1>15, <1>k, <2>1
    <2>3. ASSUME NEW x \in a .. a + len - 1 PROVE x \in read
      <3>1. x \in a .. q - 1 \/ x \in q .. q + n - 1
        BY <1>15
      <3>2. x \in q .. q + n - 1 => x \in read
        BY <1>5
      <3> QED BY <1>15, <3>1, <3>2
    <2> HIDE DEF read
    <2>4. a .. a + len - 1 \subseteq read
      BY <2>3
    <2> QED BY <2>1, <2>2, <2>4, <1>14, <1>15
  <1>16. ASSUME NEW a \in new PROVE a \in 0 .. AddressSpace /\ (Occurs(a, s, read) \/ Spans(a, s, seams))
    <2>1. CASE s.kind = "word"
      <3>1. PICK offset \in Nat : /\ a = q + offset /\ offset + len <= n /\ a % WordSize = 0
                                 /\ \A j \in 1 .. len : bytes[offset + j] = w[j]
        BY <1>12, <1>16, <1>w, <2>1
      <3>2. ASSUME NEW j \in 1 .. len PROVE memory[a + j - 1] = w[j]
        <4>1. offset + j \in 1 .. n /\ q + (offset + j) - 1 = a + j - 1
          BY <3>1
        <4> QED BY <4>1, <3>1, <1>11
      <3>3. a \in Nat /\ low <= a /\ a + len <= q + n /\ \A x \in a .. q - 1 : x \in s.read
        BY <3>1, <1>7
      <3>4. Occurs(a, s, read)
        BY <3>1, <3>2, <3>3, <1>15
      <3>5. a \in 0 .. AddressSpace
        BY <3>3, <1>9
      <3> QED BY <3>4, <3>5
    <2>2. CASE s.kind = "bytes"
      <3>1. PICK offset \in Nat : /\ a = q - o + offset /\ offset + len <= o + n
                                 /\ \A j \in 1 .. len : combined[offset + j] = w[j]
        BY <1>13, <1>16, <1>w, <2>2
      <3>2. a \in Nat /\ a = base + offset /\ base <= a /\ a + len <= q + n /\ q < a + len
        <4>1. a = q - o + offset /\ offset + len <= o + n /\ base + o = q /\ o < len
          BY <3>1, <1>b, <1>7
        <4>2. a = base + offset
          BY <4>1
        <4>3. a \in Nat /\ base <= a
          BY <4>2
        <4>4. a + len <= q + n /\ q < a + len
          BY <4>1, <4>2
        <4> QED BY <4>2, <4>3, <4>4
      <3>3. a \in 0 .. AddressSpace
        BY <3>2, <1>9
      <3>4. /\ t .. q - 1 \subseteq s.read /\ t \in q - o .. q
            /\ t > q - o => t \in s.seams \/ (t = q /\ s.short)
        BY <1>4, <1>5, <1>8 DEF Trusted
      <3>n. q - o <= t /\ t <= q /\ low <= base /\ base = q - o
        BY <3>4, <1>b, <1>7
      <3>5. CASE t <= a
        <4>1. ASSUME NEW j \in 1 .. len PROVE memory[a + j - 1] = w[j]
          <5>1. a + j - 1 \in t .. q + n - 1 /\ (a + j - 1) - base + 1 = offset + j
            BY <3>2, <3>5
          <5>2. combined[(a + j - 1) - base + 1] = memory[a + j - 1]
            BY <5>1, <1>10 DEF TrueIn
          <5> QED BY <5>1, <5>2, <3>1
        <4>2. \A x \in a .. q - 1 : x \in t .. q - 1
          BY <3>2, <3>5
        <4>3. low <= a /\ \A x \in a .. q - 1 : x \in s.read
          BY <3>2, <3>4, <3>n, <4>2
        <4>4. Occurs(a, s, read)
          BY <3>2, <4>1, <4>3, <2>2, <1>15
        <4> QED BY <3>3, <4>4
      <3>6. CASE a < t
        <4>1. n > 0 /\ a < t /\ t < a + len /\ t > q - o
          BY <3>2, <3>n, <3>6
        <4>2. t \in seams
          BY <4>1, <3>4, <1>0, <1>5
        <4>3. Spans(a, s, seams)
          BY <4>1, <4>2, <1>3 DEF Spans
        <4> QED BY <3>3, <4>3
      <3> QED BY <3>2, <3>5, <3>6
    <2> QED BY <2>1, <2>2, <1>2
  <1>17. ASSUME NEW a, Occurs(a, s, read) PROVE a \in s.found \union new
    <2>1. /\ a \in 0 .. AddressSpace - len /\ \A j \in 1 .. len : memory[a + j - 1] = w[j]
          /\ a .. a + len - 1 \subseteq read
          /\ s.kind = "word" => a % WordSize = 0
      BY <1>14, <1>17
    <2>2. PICK k \in 1 .. Len(ranges) : ranges[k][1] <= a /\ a + len <= ranges[k][2]
      BY <1>14, <1>17
    <2>3. a \in Nat
      BY <2>1
    <2>4. \A x \in read : x < q => x \in s.read
      BY <1>5
    <2> HIDE DEF read
    <2>5. CASE a + len <= q
      <3>1. ASSUME NEW x \in a .. a + len - 1 PROVE x \in s.read
        <4>1. x \in read /\ x < q
          BY <2>1, <2>3, <2>5, <1>3
        <4> QED BY <4>1, <2>4
      <3>2. Occurs(a, s, s.read)
        BY <2>1, <2>2, <3>1, <1>14
      <3> QED BY <3>2, <1>1 DEF Exact
    <2>6. CASE a + len > q
      <3>1. PICK x \in Nat : x = a + len - 1
        <4>1. a + len - 1 \in Nat
          BY <2>3, <1>3
        <4> QED BY <4>1
      <3>a. a \in Nat /\ len > 0 /\ x \in a .. a + len - 1
        BY <2>3, <1>3, <3>1
      <3>2. x \in read /\ q <= x
        BY <2>1, <2>6, <3>1, <3>a
      <3>3. x < q + n
        BY <3>2, <1>5, <1>7 DEF read
      <3>4. /\ ranges[i][1] <= x /\ x < ranges[i][2] /\ ranges[k][1] <= x /\ x < ranges[k][2]
        <4>1. PICK from \in Nat, to \in Nat : from = ranges[k][1] /\ to = ranges[k][2]
          <5>1. ranges[k] \in Ranges
            BY ElementOfSeq
          <5> QED BY <5>1 DEF Ranges
        <4>2. from <= a /\ a + len <= to
          BY <2>2, <4>1
        <4>3. from <= x /\ x < to
          BY <4>2, <3>1, <3>a
        <4>4. low <= x /\ x < high
          BY <3>2, <3>3, <1>7
        <4> QED BY <4>1, <4>3, <4>4, <1>k
      <3>5. k = i
        BY <3>4, <1>k, OneRange
      <3>6. low <= a /\ a + len <= q + n
        BY <2>2, <3>1, <3>3, <3>5, <2>3, <1>k
      <3>7. CASE s.kind = "word"
        <4>1. q <= a
          <5>1. a % WordSize = 0 /\ q % WordSize = 0 /\ len = WordSize /\ WordSize \in Nat \ {0}
            BY <2>1, <3>7, <1>0, <1>1, <1>3, <1>5 DEF Under
          <5>2. q < a + WordSize
            BY <5>1, <2>6, <2>3
          <5> QED BY <5>1, <5>2, <2>3, AlignedAfter
        <4>2. PICK offset \in Nat : a = q + offset
          BY <4>1, <2>3
        <4>3. \A j \in 1 .. len : bytes[offset + j] = w[j]
          <5> TAKE j \in 1 .. len
          <5>1. offset + j \in 1 .. n /\ q + (offset + j) - 1 = a + j - 1
            BY <4>2, <3>6
          <5> QED BY <5>1, <2>1, <1>11
        <4>4. offset + len <= n
          BY <4>2, <3>6
        <4>5. a \in new
          BY <4>2, <4>3, <4>4, <2>1, <3>7, <1>12, <1>w
        <4> QED BY <4>5
      <3>8. CASE s.kind = "bytes"
        <4>n. /\ t \in q - o .. q
              /\ \A y \in low .. q - 1 : (y .. q - 1 \subseteq s.read /\ q - y < len) => t <= y
          BY <1>3, <1>4, <1>5, <1>8, <3>8 DEF Trusted
        <4>1. t <= a /\ base <= t
          <5>1. CASE q <= a
            BY <5>1, <4>n, <1>b, <2>3
          <5>2. CASE a < q
            <6>1. ASSUME NEW y \in a .. q - 1 PROVE y \in s.read
              <7>1. y \in a .. a + len - 1 /\ y < q
                BY <2>3, <2>6, <1>3
              <7> QED BY <7>1, <2>1, <2>4
            <6>2. a \in low .. q - 1 /\ q - a < len
              BY <5>2, <2>3, <2>6, <3>6, <1>3
            <6>3. t <= a
              BY <6>1, <6>2, <4>n
            <6> QED BY <6>3, <4>n, <1>b
          <5> QED BY <5>1, <5>2, <2>3
        <4>2. PICK offset \in Nat : a = base + offset
          BY <4>1, <2>3
        <4>3. \A j \in 1 .. len : combined[offset + j] = w[j]
          <5> TAKE j \in 1 .. len
          <5>1. a + j - 1 \in t .. q + n - 1 /\ (a + j - 1) - base + 1 = offset + j
            BY <4>1, <4>2, <3>6, <2>3
          <5>2. combined[(a + j - 1) - base + 1] = memory[a + j - 1]
            BY <5>1, <1>10 DEF TrueIn
          <5> QED BY <5>1, <5>2, <2>1
        <4>4. offset + len <= o + n /\ a = q - o + offset
          BY <4>2, <3>6, <1>b
        <4>5. a \in new
          BY <4>2, <4>3, <4>4, <3>8, <1>13, <1>w
        <4> QED BY <4>5
      <3> QED BY <3>7, <3>8, <1>2
    <2> QED BY <2>3, <2>5, <2>6
  <1>18. ASSUME NEW a \in s.found PROVE Occurs(a, s, read) \/ Spans(a, s, seams)
    <2>1. Occurs(a, s, s.read) => Occurs(a, s, read)
      <3>1. \A x \in s.read : x \in read
        OBVIOUS
      <3> HIDE DEF read
      <3> QED BY <3>1, <1>14
    <2>2. Spans(a, s, s.seams) => Spans(a, s, seams)
      BY <1>0 DEF Spans
    <2> QED BY <2>1, <2>2, <1>1 DEF Exact
  <1>19. Exact(s, s.found \union new, read, seams)
    BY <1>16, <1>17, <1>18 DEF Exact
  <1>20. s.found \union new \subseteq 0 .. AddressSpace
    BY <1>2, <1>16
  <1> QED BY <1>19, <1>20

LEMMA AlignedSum ==
    ASSUME WordSize \in Nat \ {0}, NEW a \in Nat, NEW b \in Nat, a % WordSize = 0, b % WordSize = 0
    PROVE  (a + b) % WordSize = 0
  <1>1. PICK w \in Nat : w = WordSize /\ w # 0
    OBVIOUS
  <1>4. PICK p \in Nat, q \in Nat : a = w * p /\ b = w * q
    <2>1. PICK p \in Nat : a = w * p
      BY <1>1, MultipleOf
    <2>2. PICK q \in Nat : b = w * q
      BY <1>1, MultipleOf
    <2> QED BY <2>1, <2>2
  <1>5. /\ a + b = w * ((a + b) \div w) + ((a + b) % w) /\ (a + b) \div w \in Nat
        /\ (a + b) % w \in 0 .. w - 1
    BY <1>1, SMTT(30)
  <1>6. PICK m \in Nat, r \in 0 .. w - 1 : a + b = w * m + r /\ r = (a + b) % w
    BY <1>5
  <1>7. w * (p + q) = w * m + r
    BY <1>1, <1>4, <1>6, SMTT(30)
  <1>8. p + q = m
    <2>1. w * m <= w * (p + q) /\ w * (p + q) < w * (m + 1)
      BY <1>1, <1>6, <1>7, SMTT(30)
    <2>2. m <= p + q
      BY <1>1, <2>1, SMTT(30)
    <2>3. p + q < m + 1
      BY <1>1, <2>1, SMTT(30)
    <2> QED BY <2>2, <2>3
  <1>9. r = 0
    BY <1>1, <1>7, <1>8, SMTT(30)
  <1> QED BY <1>1, <1>6, <1>9

(* The end of what was read that is kept. *)
IsTail(end, bytes, len, c, keep) ==
    /\ keep < len /\ keep <= c /\ (keep = c \/ keep = len - 1)
    /\ end \in Seq(Bits) /\ Len(end) = keep
    /\ \A k \in 1 .. keep : end[k] = bytes[c - keep + k]
LEMMA KeptTailIs ==
    ASSUME NEW bytes, NEW needle, NEW c, bytes \in Seq(Bits), needle \in Seq(Bits), c = Len(bytes), Len(needle) > 0
    PROVE  \E keep \in Nat : IsTail(KeptTail(bytes, needle), bytes, Len(needle), c, keep)
  <1>1. PICK len \in Nat : len = Len(needle) /\ len > 0
    BY LenProperties
  <1>c. c \in Nat
    BY LenProperties
  <1> DEFINE keep == Min({len - 1, c})
  <1>2. keep \in Nat /\ keep < len /\ keep <= c /\ (keep = c \/ keep = len - 1)
    <2>1. len - 1 \in Nat
      BY <1>1
    <2>2. /\ keep \in Nat /\ keep <= len - 1 /\ keep <= c
          /\ keep = len - 1 \/ keep = c
      BY <2>1, <1>c, MinOfTwo
    <2> HIDE DEF keep
    <2> QED BY <2>1, <2>2, <1>1
  <1>3. KeptTail(bytes, needle) = SubSeq(bytes, c - keep + 1, c)
    BY <1>1 DEF KeptTail
  <1> HIDE DEF keep
  <1>4. \A k \in c - keep + 1 .. c : k \in 1 .. Len(bytes)
    BY <1>2, <1>c
  <1>5. \A k \in c - keep + 1 .. c : bytes[k] \in Bits
    BY <1>4, ElementOfSeq
  <1>6. c - keep + 1 \in Int /\ c \in Int
    BY <1>2, <1>c
  <1> DEFINE part == SubSeq(bytes, c - keep + 1, c)
  <1>7. /\ part \in Seq(Bits) /\ Len(part) = (IF c - keep + 1 <= c THEN c - (c - keep + 1) + 1 ELSE 0)
        /\ \A k \in 1 .. c - (c - keep + 1) + 1 : part[k] = bytes[c - keep + 1 + k - 1]
    BY <1>5, <1>6, SubSeqProperties
  <1> HIDE DEF part
  <1>8. Len(part) = keep
    BY <1>2, <1>7
  <1>9. \A k \in 1 .. keep : part[k] = bytes[c - keep + k]
    <2> TAKE k \in 1 .. keep
    <2>1. k \in 1 .. c - (c - keep + 1) + 1 /\ c - keep + 1 + k - 1 = c - keep + k
      BY <1>2, <1>c
    <2> QED BY <2>1, <1>7
  <1>10. part = KeptTail(bytes, needle)
    BY <1>3 DEF part
  <1>11. IsTail(part, bytes, len, c, keep)
    BY <1>2, <1>7, <1>8, <1>9 DEF IsTail
  <1> QED BY <1>1, <1>2, <1>10, <1>11

(* What stays of a search when its chunk was not the last of the range. *)
GoesOn(s, s2, n, requested) ==
    /\ s2.kind = s.kind /\ s2.needle = s.needle /\ s2.all = s.all
    /\ s2.address = s.address + requested
    /\ s2.read = s.read \union (s.address .. s.address + n - 1)
    /\ s2.seams = IF s.short /\ n > 0 THEN s.seams \union {s.address} ELSE s.seams
    /\ s2.overlap = IF s.kind = "bytes" /\ n > 0 THEN KeptTail(s.overlap \o Bytes(s.address, n), s.needle) ELSE <<>>
    /\ s2.short <=> s.kind = "bytes" /\ n > 0 /\ n < requested

(* Inside a range the overlap stays right. *)
LEMMA OverlapStays ==
    ASSUME memory \in Memories, NEW s, NEW s2, NEW i, NEW n \in Nat, NEW requested \in Nat
    PROVE  /\ SearchShape(s) /\ i \in 1 .. Len(s.all) /\ Under(s, i)
           /\ n <= requested /\ 0 < requested /\ requested % WordSize = 0
           /\ s.address + requested < s.all[i][2]
           /\ GoesOn(s, s2, n, requested)
           => Under(s2, i)
  <1>0. SUFFICES ASSUME SearchShape(s), i \in 1 .. Len(s.all), Under(s, i), n <= requested, 0 < requested,
                        requested % WordSize = 0, s.address + requested < s.all[i][2], GoesOn(s, s2, n, requested)
                 PROVE  Under(s2, i)
    OBVIOUS
  <1>1. /\ s \in Searches /\ Ordered(s.all)
        /\ WordSize \in Nat \ {0} /\ AddressSpace \in Nat
    BY <1>0, SearchAssumption DEF SearchBounds, SearchShape
  <1>2. /\ s.needle \in Seq(Bits) /\ s.needle # <<>> /\ s.overlap \in Seq(Bits) /\ s.address \in Nat
        /\ s.read \in SUBSET Nat /\ s.seams \in SUBSET Nat
        /\ s.all \in Seq(Ranges) /\ s.kind \in {"word", "bytes"}
    BY <1>1 DEF Searches
  <1>3. PICK len \in Nat : len = Len(s.needle) /\ len > 0
    <2>1. Len(s.needle) \in Nat \ {0}
      BY <1>2, EmptySeq
    <2> QED BY <2>1
  <1>4. PICK o \in Nat : o = Len(s.overlap)
    BY <1>2, LenProperties
  <1>5. PICK q \in Nat : q = s.address
    BY <1>2
  <1>6. PICK low \in Nat, high \in Nat : low = s.all[i][1] /\ high = s.all[i][2]
    <2>1. s.all[i] \in Ranges
      BY <1>0, <1>2, ElementOfSeq
    <2> QED BY <2>1 DEF Ranges
  <1>7. /\ low <= q - o /\ q < high /\ q + requested < high /\ high <= AddressSpace /\ o < len
        /\ \A x \in s.read : x < q
    BY <1>0, <1>3, <1>4, <1>5, <1>6, <1>1 DEF Under, Ordered
  <1>8. q % WordSize = 0 /\ (q + requested) % WordSize = 0
    <2>1. q % WordSize = 0 /\ requested % WordSize = 0
      BY <1>0, <1>5 DEF Under
    <2> QED BY <2>1, <1>1, AlignedSum
  <1>9. PICK t \in Nat : Trusted(s, low, t)
    BY <1>0, <1>6 DEF Under
  <1>10. PICK p \in Nat : p = q + requested
    OBVIOUS
  <1>11. s2.address = p /\ s2.all[i][1] = low /\ s2.all[i][2] = high /\ Len(s2.needle) = len /\ s2.kind = s.kind
    BY <1>0, <1>3, <1>5, <1>6, <1>10 DEF GoesOn
  <1>12. p < high /\ low <= p /\ p % WordSize = 0 /\ q < p /\ q + n <= p /\ low <= q - o
    BY <1>0, <1>7, <1>8, <1>10
  <1>13. \A x : x \in s2.read <=> x \in s.read \/ x \in q .. q + n - 1
    BY <1>0, <1>5 DEF GoesOn
  <1>14. \A x \in s2.read : x \in Nat /\ x < q + n
    BY <1>13, <1>2, <1>7
  <1>15. \A x \in s2.read : x < p
    BY <1>12, <1>14
  <1>16. (s2.short <=> s.kind = "bytes" /\ n > 0 /\ n < requested)
    BY <1>0 DEF GoesOn
  <1>17. ASSUME NEW keep \in Nat, NEW u \in Nat, keep = Len(s2.overlap), keep < len, low <= p - keep,
                u \in p - keep .. p, u .. p - 1 \subseteq s2.read, TrueIn(s2.overlap, p - keep, u, p),
                u > p - keep => u \in s2.seams \/ (u = p /\ s2.short), s2.short => u = p,
                s.kind = "bytes" => \A a \in low .. p - 1 : (a .. p - 1 \subseteq s2.read /\ p - a < len) => u <= a,
                s.kind = "word" => s2.overlap = <<>>
         PROVE  Under(s2, i)
    <2>1. Trusted(s2, low, u)
      BY <1>11, <1>17 DEF Trusted
    <2> QED BY <2>1, <1>11, <1>12, <1>15, <1>16, <1>17 DEF Under
  <1>18. CASE ~(s.kind = "bytes" /\ n > 0)
    <2>1. s2.overlap = <<>> /\ ~s2.short
      BY <1>0, <1>18 DEF GoesOn
    <2>2. Len(s2.overlap) = 0
      BY <2>1
    <2>3. p .. p - 1 \subseteq s2.read /\ TrueIn(s2.overlap, p - 0, p, p) /\ p \in p - 0 .. p
      BY DEF TrueIn
    <2>4. s.kind = "bytes" => p - 1 \notin s2.read
      BY <1>18, <1>14, <1>12
    <2>5. s.kind = "bytes" => \A a \in low .. p - 1 : (a .. p - 1 \subseteq s2.read /\ p - a < len) => p <= a
      BY <2>4
    <2> QED BY <2>1, <2>2, <2>3, <2>5, <1>12, <1>3, <1>17
  <1>19. CASE s.kind = "bytes" /\ n > 0
    <2> DEFINE bytes == Bytes(s.address, n)
               combined == s.overlap \o bytes
    <2>1. PICK base \in Nat : base = q - o /\ base + o = q
      BY <1>7
    <2>n. n <= requested
      BY <1>0
    <2>2. q + n <= AddressSpace
      BY <1>1, <1>7, <2>n
    <2>3. combined \in Seq(Bits) /\ Len(combined) = o + n /\ TrueIn(combined, base, t, q + n)
      <3>1. combined = s.overlap \o Bytes(q, n)
        BY <1>5
      <3> HIDE DEF combined
      <3>2. base <= t /\ t <= q /\ TrueIn(s.overlap, base, t, q)
        BY <1>4, <1>5, <1>9, <2>1 DEF Trusted
      <3>3. PICK v \in Seq(Bits) : v = s.overlap
        BY <1>2
      <3>4. TrueIn(v, base, t, q) /\ base <= t /\ t <= q /\ base + Len(v) = q
        BY <3>2, <3>3, <1>4, <2>1
      <3>5. AddressSpace \in Nat
        BY <1>1
      <3>6. v \o Bytes(q, n) \in Seq(Bits) /\ Len(v \o Bytes(q, n)) = Len(v) + n
        <4>1. PICK c \in Seq(Bits) : c = Bytes(q, n) /\ Len(c) = n
          BY <2>2, <3>5, BytesAre
        <4>2. v \o c \in Seq(Bits) /\ Len(v \o c) = Len(v) + Len(c)
          BY ConcatProperties
        <4> QED BY <4>1, <4>2
      <3>7. TrueIn(v \o Bytes(q, n), base, t, q + n)
        BY <3>4, <3>5, <2>2, CombinedAre
      <3> QED BY <3>1, <3>3, <3>6, <3>7, <1>4
    <2>4. s2.overlap = KeptTail(combined, s.needle)
      BY <1>0, <1>19 DEF GoesOn
    <2> HIDE DEF combined, bytes
    <2>5. PICK keep \in Nat :
             /\ keep < len /\ keep <= o + n /\ (keep = o + n \/ keep = len - 1)
             /\ Len(s2.overlap) = keep
             /\ \A k \in 1 .. keep : s2.overlap[k] = combined[o + n - keep + k]
      <3>1. PICK w \in Seq(Bits) : w = s.needle
        BY <1>2
      <3>2. len = Len(w) /\ s2.overlap = KeptTail(combined, w)
        BY <2>4, <3>1, <1>3
      <3>3. PICK c \in Nat : c = o + n
        OBVIOUS
      <3>4. combined \in Seq(Bits) /\ c = Len(combined) /\ Len(w) > 0
        BY <2>3, <3>2, <3>3, <1>3
      <3>5. \E keep \in Nat : IsTail(KeptTail(combined, w), combined, Len(w), c, keep)
        BY <3>4, KeptTailIs
      <3>6. PICK keep \in Nat : IsTail(s2.overlap, combined, len, c, keep)
        BY <3>2, <3>5
      <3> QED BY <3>3, <3>6 DEF IsTail
    <2>6. low <= p - keep
      BY <2>5, <1>12, <1>0
    <2>7. CASE n < requested
      <3>1. s2.short
        BY <1>16, <1>19, <2>7
      <3>2. p .. p - 1 \subseteq s2.read /\ TrueIn(s2.overlap, p - keep, p, p) /\ p \in p - keep .. p
        BY DEF TrueIn
      <3>3. p - 1 \notin s2.read
        BY <1>14, <1>10, <2>7
      <3>4. \A a \in low .. p - 1 : (a .. p - 1 \subseteq s2.read /\ p - a < len) => p <= a
        BY <3>3
      <3> QED BY <3>1, <3>2, <3>4, <2>5, <2>6, <1>17, <1>19
    <2>8. CASE n = requested
      <3>0. p = q + n /\ ~s2.short
        BY <2>8, <1>10, <1>16
      <3>1. PICK u \in Nat : (t >= p - keep => u = t) /\ (t < p - keep => u = p - keep)
        <4>1. p - keep \in Nat
          BY <2>6
        <4>2. CASE t >= p - keep
          BY <4>2
        <4>3. CASE t < p - keep
          BY <4>1, <4>3
        <4> QED BY <4>1, <4>2, <4>3
      <3>k. keep <= o + n /\ keep \in Nat
        BY <2>5
      <3>m. base <= p - keep
        BY <3>k, <2>1, <3>0
      <3>2. base <= t /\ t <= q /\ base <= p - keep
        BY <3>m, <1>4, <1>5, <1>9, <2>1 DEF Trusted
      <3>3. t <= u /\ p - keep <= u /\ u <= p
        BY <3>1, <3>2, <1>12, <2>6
      <3>4. TrueIn(s2.overlap, p - keep, u, p)
        <4>1. ASSUME NEW x \in u .. p - 1 PROVE s2.overlap[x - (p - keep) + 1] = memory[x]
          <5>1. x - (p - keep) + 1 \in 1 .. keep /\ o + n - keep + (x - (p - keep) + 1) = x - base + 1
            BY <3>0, <3>3, <2>1
          <5>2. s2.overlap[x - (p - keep) + 1] = combined[x - base + 1]
            BY <5>1, <2>5
          <5>3. x \in t .. q + n - 1
            BY <3>0, <3>3
          <5> QED BY <5>2, <5>3, <2>3 DEF TrueIn
        <4> QED BY <4>1 DEF TrueIn
      <3>5. \A x \in u .. p - 1 : x \in s2.read
        <4>1. t .. q - 1 \subseteq s.read
          BY <1>5, <1>9 DEF Trusted
        <4> TAKE x \in u .. p - 1
        <4>2. x \in t .. q - 1 \/ x \in q .. q + n - 1
          BY <3>0, <3>3
        <4> QED BY <4>1, <4>2, <1>13
      <3>6. ASSUME u > p - keep PROVE u \in s2.seams
        <4>1. u = t /\ t > q - o
          BY <3>6, <3>1, <3>2, <2>1
        <4>2. t \in s.seams \/ (t = q /\ s.short)
          BY <4>1, <1>4, <1>5, <1>9 DEF Trusted
        <4> QED BY <4>1, <4>2, <1>0, <1>5, <1>19 DEF GoesOn
      <3>7. ASSUME NEW a \in low .. p - 1, a .. p - 1 \subseteq s2.read, p - a < len PROVE u <= a
        <4>1. CASE q <= a
          <5>1. p - keep <= a
            BY <4>1, <3>7, <2>5, <3>0
          <5> QED BY <5>1, <4>1, <3>1, <3>2
        <4>2. CASE a < q
          <5>1. a \in low .. q - 1 /\ q - a < len
            BY <4>2, <3>7, <3>0
          <5>2. ASSUME NEW x \in a .. q - 1 PROVE x \in s.read
            <6>1. x \in a .. p - 1 /\ x \notin q .. q + n - 1
              BY <1>12
            <6> QED BY <6>1, <3>7, <1>13
          <5>3. t <= a
            BY <5>1, <5>2, <1>3, <1>5, <1>9, <1>19 DEF Trusted
          <5>4. p - keep <= a
            <6>1. p - a < len /\ (keep = o + n \/ keep = len - 1)
              BY <3>7, <2>5
            <6>2. CASE keep = o + n
              BY <6>2, <5>3, <3>2, <3>0, <2>1
            <6>3. CASE keep = len - 1
              BY <6>3, <6>1
            <6> QED BY <6>1, <6>2, <6>3
          <5> QED BY <5>3, <5>4, <3>1
        <4> QED BY <4>1, <4>2
      <3>8. u \in p - keep .. p /\ u .. p - 1 \subseteq s2.read
        BY <3>3, <3>5
      <3> QED BY <3>0, <3>4, <3>6, <3>7, <3>8, <2>5, <2>6, <1>17, <1>19
    <2> QED BY <2>7, <2>8, <1>0
  <1> QED BY <1>18, <1>19

LEMMA SearchStart == SearchInit => SearchInv
  <1> SUFFICES ASSUME SearchInit PROVE SearchInv
    OBVIOUS
  <1>1. memory \in Memories
    BY DEF SearchInit, Memories
  <1> QED BY <1>1 DEF SearchInit, SearchInv

LEMMA SearchFrame == SearchInv /\ UNCHANGED <<memory, search>> => SearchInv'
  BY DEF SearchInv, Memories, SearchShape, Exact, Occurs, Spans, Position, Under, Trusted, TrueIn

LEMMA SearchBeginsKeeps == SearchBegins => SearchInv'
  <1> SUFFICES ASSUME SearchBegins PROVE SearchInv'
    OBVIOUS
  <1>1. memory' \in Memories
    BY DEF SearchBegins, Memories
  <1>2. PICK maps \in Mappings, needle \in Needles, kind \in {"word", "bytes"} :
           LET regions == parse_writable_regions(maps)
           IN  /\ kind = "word" => Len(needle) = WordSize
               /\ search' = IF regions = <<>> THEN [at |-> "refused"]
                            ELSE [at |-> "reading", kind |-> kind, needle |-> needle, regions |-> regions,
                                  address |-> regions[1][1], overlap |-> <<>>, found |-> {}, read |-> {},
                                  seams |-> {}, short |-> FALSE, all |-> regions]
    BY DEF SearchBegins
  <1>3. PICK regions : regions = parse_writable_regions(maps)
    OBVIOUS
  <1>4. regions \in Seq(Ranges) /\ Ordered(regions)
    BY <1>3, RegionsAre
  <1>5. CASE regions = <<>>
    <2>1. search' = [at |-> "refused"]
      BY <1>2, <1>3, <1>5
    <2> QED BY <1>1, <2>1 DEF SearchInv
  <1>6. CASE regions # <<>>
    <2>1. search' = [at |-> "reading", kind |-> kind, needle |-> needle, regions |-> regions,
                     address |-> regions[1][1], overlap |-> <<>>, found |-> {}, read |-> {},
                     seams |-> {}, short |-> FALSE, all |-> regions]
      BY <1>2, <1>3, <1>6
    <2>2. needle \in Seq(Bits) \ {<<>>} /\ AddressSpace \in Nat /\ MaxCandidates \in Nat
      BY SearchAssumption DEF SearchBounds, Bits
    <2>3. PICK len \in Nat : len = Len(needle) /\ len > 0
      <3>1. Len(needle) \in Nat \ {0}
        BY <2>2, EmptySeq
      <3> QED BY <3>1
    <2>4. Len(regions) \in Nat /\ Len(regions) # 0
      BY <1>4, <1>6, EmptySeq, LenProperties
    <2>5. PICK low \in Nat, high \in Nat : low = regions[1][1] /\ high = regions[1][2]
      <3>1. regions[1] \in Ranges
        BY <1>4, <2>4, ElementOfSeq
      <3> QED BY <3>1 DEF Ranges
    <2>6. low < high /\ low % WordSize = 0
      <3>1. 1 \in 1 .. Len(regions)
        BY <2>4
      <3> QED BY <1>4, <2>5, <3>1 DEF Ordered
    <2>7. search' \in Searches
      <3>1. <<>> \in Seq(Bits)
        OBVIOUS
      <3> QED BY <2>1, <2>2, <2>5, <1>4, <3>1 DEF Searches
    <2>8. Exact(search, search.found, search.read, search.seams)'
      <3>1. search'.found = {} /\ search'.read = {} /\ search'.needle = needle
        BY <2>1
      <3>2. ASSUME NEW a, Occurs(a, search, search.read)' PROVE FALSE
        <4>1. a \in 0 .. AddressSpace - len /\ a .. a + len - 1 \subseteq {}
          BY <3>1, <3>2, <2>3 DEF Occurs
        <4>2. a \in a .. a + len - 1
          BY <4>1, <2>2, <2>3
        <4> QED BY <4>1, <4>2
      <3> QED BY <3>1, <3>2 DEF Exact
    <2>9. Cardinality(search'.found) <= MaxCandidates
      BY <2>1, <2>2, FS_EmptySet
    <2>10. SearchShape(search)'
      <3>1. Ordered(search'.all) /\ (search'.kind = "word" => Len(search'.needle) = WordSize)
        BY <2>1, <1>2, <1>4
      <3> QED BY <2>7, <2>8, <2>9, <3>1 DEF SearchShape, Ordered
    <2>11. Position(search, 1)'
      BY <2>1, <2>4 DEF Position
    <2>12. Trusted(search, search.all[1][1], low)'
      <3>1. /\ search'.all[1][1] = low /\ search'.address = low /\ search'.overlap = <<>> /\ search'.read = {}
            /\ ~search'.short /\ Len(search'.overlap) = 0
        BY <2>1, <2>5
      <3> QED BY <3>1 DEF Trusted, TrueIn
    <2>13. Under(search, 1)'
      <3>1. /\ search'.all[1][1] = low /\ search'.all[1][2] = high /\ search'.address = low
            /\ search'.overlap = <<>> /\ search'.read = {} /\ ~search'.short /\ Len(search'.overlap) = 0
            /\ Len(search'.needle) = len
        BY <2>1, <2>3, <2>5
      <3> QED BY <3>1, <2>3, <2>6, <2>12 DEF Under
    <2> QED BY <1>1, <2>10, <2>11, <2>13 DEF SearchInv
  <1> QED BY <1>5, <1>6

LEMMA SearchEndsKeeps == SearchInv /\ SearchEnds => SearchInv'
  <1> SUFFICES ASSUME SearchInv, SearchEnds PROVE SearchInv'
    OBVIOUS
  <1>1. SearchShape(search) /\ UNCHANGED memory /\ memory \in Memories
    BY DEF SearchInv, SearchEnds, NoSearch
  <1>2. CASE search' = [at |-> "refused"]
    BY <1>1, <1>2 DEF SearchInv
  <1>3. CASE search' = [search EXCEPT !.at = "found"]
    <2>1. search \in Searches
      BY <1>1 DEF SearchShape
    <2>2. /\ search'.at = "found" /\ search'.kind = search.kind /\ search'.needle = search.needle
          /\ search'.found = search.found /\ search'.read = search.read /\ search'.seams = search.seams
          /\ search'.all = search.all /\ search' \in Searches
      BY <1>3, <2>1 DEF Searches
    <2>3. SearchShape(search)'
      BY <1>1, <2>2 DEF SearchShape, Ordered, Exact, Occurs, Spans
    <2> QED BY <1>1, <2>2, <2>3 DEF SearchInv
  <1> QED BY <1>2, <1>3 DEF SearchEnds

(* One chunk: not the last of its range, or the last. *)
LEMMA SearchChunkKeeps == SearchInv /\ SearchChunk => SearchInv'
  <1> SUFFICES ASSUME SearchInv, SearchChunk PROVE SearchInv'
    OBVIOUS
  <1>1. /\ SearchShape(search) /\ UNCHANGED memory /\ memory \in Memories
        /\ search.at = "reading" /\ search.regions # <<>>
    BY DEF SearchInv, SearchChunk, NoSearch
  <1>2. PICK i \in Nat : Position(search, i) /\ Under(search, i)
    BY <1>1 DEF SearchInv, NoSearch
  <1>3. PICK s : s = search
    OBVIOUS
  <1>4. /\ s \in Searches /\ Ordered(s.all) /\ SearchShape(s) /\ Under(s, i) /\ Position(s, i)
        /\ s.regions # <<>> /\ s.at = "reading"
    BY <1>1, <1>2, <1>3 DEF SearchShape
  <1>5. /\ s.needle \in Seq(Bits) /\ s.needle # <<>> /\ s.overlap \in Seq(Bits) /\ s.address \in Nat
        /\ s.read \in SUBSET Nat /\ s.seams \in SUBSET Nat /\ s.found \subseteq 0 .. AddressSpace
        /\ s.all \in Seq(Ranges) /\ s.kind \in {"word", "bytes"} /\ s.regions \in Seq(Ranges)
    BY <1>4 DEF Searches
  <1>6. /\ WordSize \in Nat \ {0} /\ ChunkSize \in Nat \ {0} /\ ChunkSize % WordSize = 0
        /\ AddressSpace \in Nat /\ MaxCandidates \in Nat
    BY SearchAssumption DEF SearchBounds
  <1>7. PICK remaining \in Nat, count \in Nat : remaining = Len(s.regions) /\ count = Len(s.all) /\ remaining > 0
    <2>1. Len(s.regions) \in Nat \ {0} /\ Len(s.all) \in Nat
      BY <1>4, <1>5, EmptySeq, LenProperties
    <2> QED BY <2>1
  <1>8. /\ i \in 1 .. count /\ remaining = count + 1 - i
        /\ \A k \in 1 .. remaining : s.regions[k] = s.all[k + i - 1]
    BY <1>4, <1>7 DEF Position
  <1>9. PICK low \in Nat, high \in Nat : low = s.all[i][1] /\ high = s.all[i][2]
    <2>1. s.all[i] \in Ranges
      BY <1>5, <1>7, <1>8, ElementOfSeq
    <2> QED BY <2>1 DEF Ranges
  <1>10. Head(s.regions)[2] = high
    <2>1. Head(s.regions) = s.regions[1]
      BY <1>4, <1>5
    <2>2. 1 \in 1 .. remaining /\ 1 + i - 1 = i
      BY <1>7
    <2> QED BY <2>1, <2>2, <1>8, <1>9
  <1>11. PICK q \in Nat : q = s.address
    BY <1>5
  <1>12. q < high /\ high - q \in Nat /\ q % WordSize = 0 /\ high <= AddressSpace /\ \A x \in s.read : x < q
    <2>1. q < high /\ q % WordSize = 0 /\ \A x \in s.read : x < q
      BY <1>4, <1>9, <1>11 DEF Under
    <2>2. high <= AddressSpace
      BY <1>4, <1>7, <1>8, <1>9 DEF Ordered
    <2> QED BY <2>1, <2>2
  <1>13. PICK requested \in Nat : requested = Min({high - q, ChunkSize})
    BY <1>6, <1>12, MinOfTwo
  <1>14. /\ 0 < requested /\ q + requested <= high
         /\ q + requested = high \/ requested = ChunkSize
    BY <1>6, <1>12, <1>13, MinOfTwo
  <1>15. PICK last \in BOOLEAN : last <=> q + requested = high
    OBVIOUS
  <1>16. PICK rest : rest = IF last THEN Tail(s.regions) ELSE s.regions
    OBVIOUS
  <1>17. PICK n \in ReadOutcomes(requested) : search' = AfterChunk(s, n)
    BY <1>3, <1>10, <1>11, <1>13 DEF SearchChunk, Requested
  <1>18. PICK bytes : bytes = IF Useful(n, s.kind) THEN Bytes(q, n) ELSE <<>>
    OBVIOUS
  <1>19. PICK m \in Nat : /\ m <= requested /\ bytes = Bytes(q, m) /\ Len(bytes) = m /\ (bytes # <<>> <=> m > 0)
                          /\ bytes \in Seq(Bits) /\ (m > 0 => m = n)
    <2>1. CASE Useful(n, s.kind)
      <3>1. n \in Nat /\ n <= requested /\ n > 0
        BY <2>1, <1>6 DEF Useful, ReadOutcomes, NotFound
      <3>2. Bytes(q, n) \in Seq(Bits) /\ Len(Bytes(q, n)) = n
        <4>1. q + n <= AddressSpace
          BY <3>1, <1>6, <1>12, <1>14
        <4> QED BY <3>1, <4>1, <1>1, <1>6, BytesAre
      <3>3. bytes = Bytes(q, n)
        BY <1>18, <2>1
      <3>4. bytes # <<>>
        BY <3>1, <3>2, <3>3
      <3> QED BY <3>1, <3>2, <3>3, <3>4
    <2>2. CASE ~Useful(n, s.kind)
      <3>1. Bytes(q, 0) \in Seq(Bits) /\ Len(Bytes(q, 0)) = 0
        BY <1>1, <1>6, <1>12, BytesAre
      <3>2. Bytes(q, 0) = <<>>
        BY <3>1, EmptySeq
      <3>3. bytes = <<>>
        BY <1>18, <2>2
      <3>4. 0 <= requested /\ 0 \in Nat
        OBVIOUS
      <3> QED BY <3>1, <3>2, <3>3, <3>4
    <2> QED BY <2>1, <2>2
  <1>20. PICK found : found = s.found \union FoundIn(s, bytes)
    OBVIOUS
  <1>21. PICK goesOn \in BOOLEAN : goesOn <=> s.kind = "bytes" /\ m > 0 /\ ~last
    OBVIOUS
  <1>22. search' =
            IF Cardinality(found) > MaxCandidates THEN [at |-> "refused"]
            ELSE [s EXCEPT !.regions = rest, !.found = found,
                    !.address = IF last /\ rest # <<>> THEN Head(rest)[1] ELSE q + requested,
                    !.overlap = IF goesOn THEN KeptTail(s.overlap \o bytes, s.needle) ELSE <<>>,
                    !.read = s.read \union (q .. q + m - 1),
                    !.seams = IF s.short /\ m > 0 THEN s.seams \union {q} ELSE s.seams,
                    !.short = goesOn /\ n < requested]
    BY <1>4, <1>10, <1>11, <1>13, <1>15, <1>16, <1>17, <1>18, <1>19, <1>20, <1>21 DEF Searches, AfterChunk, Requested
  <1>23. CASE Cardinality(found) > MaxCandidates
    <2>1. search' = [at |-> "refused"]
      BY <1>22, <1>23
    <2> QED BY <1>1, <2>1 DEF SearchInv
  <1>24. CASE ~(Cardinality(found) > MaxCandidates)
    <2>1. PICK s2 : s2 = search'
      OBVIOUS
    <2>2. /\ s2.at = "reading" /\ s2.kind = s.kind /\ s2.needle = s.needle /\ s2.all = s.all
          /\ s2.regions = rest /\ s2.found = found
          /\ s2.address = IF last /\ rest # <<>> THEN Head(rest)[1] ELSE q + requested
          /\ s2.overlap = IF goesOn THEN KeptTail(s.overlap \o bytes, s.needle) ELSE <<>>
          /\ s2.read = s.read \union (q .. q + m - 1)
          /\ s2.seams = IF s.short /\ m > 0 THEN s.seams \union {q} ELSE s.seams
          /\ s2.short = (goesOn /\ n < requested)
      BY <1>22, <1>24, <1>4, <2>1 DEF Searches
    <2>3. PICK seams : seams = s2.seams
      OBVIOUS
    <2>4. seams \in SUBSET Nat /\ s.seams \subseteq seams /\ (s.short /\ m > 0 => q \in seams)
      BY <2>2, <2>3, <1>5
    <2>5. Exact(s, found, s2.read, seams) /\ found \subseteq 0 .. AddressSpace
      <3>1. q + m <= high
        BY <1>14, <1>19
      <3>2. /\ Exact(s, s.found \union FoundIn(s, Bytes(s.address, m)),
                     s.read \union (s.address .. s.address + m - 1), seams)
            /\ s.found \union FoundIn(s, Bytes(s.address, m)) \subseteq 0 .. AddressSpace
        BY <3>1, <2>4, <1>1, <1>4, <1>7, <1>8, <1>9, <1>11, ChunkIsExact
      <3> QED BY <3>2, <2>2, <1>11, <1>19, <1>20
    <2>6. Cardinality(s2.found) <= MaxCandidates
      <3>1. IsFiniteSet(found)
        <4>1. IsFiniteSet(0 .. AddressSpace)
          BY <1>6, FS_Interval
        <4>2. found \subseteq 0 .. AddressSpace
          BY <2>5
        <4> QED BY <4>1, <4>2, FS_Subset
      <3>2. Cardinality(found) \in Nat
        BY <3>1, FS_CardinalityType
      <3> QED BY <3>2, <1>6, <1>24, <2>2
    <2>7. ASSUME NEW j, j = IF last THEN i + 1 ELSE i
          PROVE  /\ j \in 1 .. count + 1 /\ Len(rest) = count + 1 - j /\ rest \in Seq(Ranges)
                 /\ \A k \in 1 .. Len(rest) : rest[k] = s.all[k + j - 1]
      <3>1. CASE last
        <4>1. rest = Tail(s.regions) /\ j = i + 1
          BY <3>1, <1>16, <2>7
        <4>2. rest \in Seq(Ranges) /\ Len(rest) = remaining - 1 /\ \A k \in 1 .. remaining - 1 : rest[k] = s.regions[k + 1]
          BY <4>1, <1>4, <1>5, <1>7, HeadTailProperties
        <4>3. ASSUME NEW k \in 1 .. remaining - 1 PROVE rest[k] = s.all[k + j - 1]
          <5>1. k + 1 \in 1 .. remaining /\ (k + 1) + i - 1 = k + j - 1
            BY <4>1, <1>7
          <5> QED BY <5>1, <4>2, <1>8
        <4> QED BY <4>1, <4>2, <4>3, <1>8
      <3>2. CASE ~last
        <4>1. rest = s.regions /\ j = i
          BY <3>2, <1>16, <2>7
        <4> QED BY <4>1, <1>5, <1>7, <1>8
      <3> QED BY <3>1, <3>2
    <2>8. rest \in Seq(Ranges)
      BY <2>7
    <2>9. s2.overlap \in Seq(Bits)
      <3>1. s.overlap \o bytes \in Seq(Bits)
        BY <1>5, <1>19, ConcatProperties
      <3>2. Len(s.needle) \in Nat /\ Len(s.needle) > 0
        BY <1>5, EmptySeq
      <3>3. KeptTail(s.overlap \o bytes, s.needle) \in Seq(Bits)
        BY <3>1, <3>2, <1>5, KeptTailIs DEF IsTail
      <3> QED BY <3>3, <2>2
    <2>10. s2.address \in Nat
      <3>1. CASE last /\ rest # <<>>
        <4>1. Head(rest) \in Ranges
          BY <3>1, <2>8
        <4> QED BY <4>1, <3>1, <2>2 DEF Ranges
      <3> QED BY <3>1, <2>2
    <2>11. s2 \in Searches
      <3>1. s2.short \in BOOLEAN /\ s2.seams \in SUBSET Nat /\ s2.read \in SUBSET Nat
        BY <2>2, <2>3, <2>4, <1>5
      <3>2. s2.found \in SUBSET (0 .. AddressSpace) /\ s2.regions \in Seq(Ranges)
        BY <2>2, <2>5, <2>8
      <3>3. s2 = [s EXCEPT !.regions = s2.regions, !.found = s2.found, !.address = s2.address,
                    !.overlap = s2.overlap, !.read = s2.read, !.seams = s2.seams, !.short = s2.short]
        BY <1>22, <1>24, <1>4, <2>1 DEF Searches
      <3> QED BY <3>1, <3>2, <3>3, <2>9, <2>10, <1>4 DEF Searches
    <2>12. SearchShape(s2)
      <3>1. Exact(s2, s2.found, s2.read, s2.seams)
        BY <2>2, <2>3, <2>5 DEF Exact, Occurs, Spans
      <3> QED BY <3>1, <2>2, <2>6, <2>11, <1>4 DEF SearchShape, Ordered
    <2>13. ASSUME NEW j \in Nat, Position(s2, j), s2.regions # <<>> => Under(s2, j) PROVE SearchInv'
      <3>1. SearchShape(search)'
        BY <2>1, <2>12, <1>1 DEF SearchShape, Ordered, Exact, Occurs, Spans
      <3>2. Position(search, j)'
        BY <2>1, <2>13 DEF Position
      <3>3. search'.regions # <<>> => Under(search, j)'
        BY <2>1, <2>13, <1>1 DEF Under, Trusted, TrueIn
      <3> QED BY <3>1, <3>2, <3>3, <1>1 DEF SearchInv
    <2>14. CASE ~last
      <3>1. Position(s2, i)
        BY <2>2, <2>7, <2>14, <1>7 DEF Position
      <3>2. requested = ChunkSize /\ q + requested < high
        BY <2>14, <1>14, <1>15
      <3>3. GoesOn(s, s2, m, requested)
        <4>1. s2.overlap = IF s.kind = "bytes" /\ m > 0 THEN KeptTail(s.overlap \o Bytes(s.address, m), s.needle) ELSE <<>>
          BY <2>2, <2>14, <1>11, <1>19, <1>21
        <4>2. s2.short <=> s.kind = "bytes" /\ m > 0 /\ m < requested
          BY <2>2, <2>14, <1>19, <1>21
        <4>3. s2.address = s.address + requested
          BY <2>2, <2>14, <1>11
        <4> QED BY <4>1, <4>2, <4>3, <2>2, <1>11 DEF GoesOn
      <3>4. Under(s2, i)
        BY <3>2, <3>3, <1>1, <1>4, <1>6, <1>7, <1>8, <1>9, <1>11, <1>14, <1>19, OverlapStays
      <3> QED BY <3>1, <3>4, <2>13
    <2>15. CASE last
      <3>1. Position(s2, i + 1)
        BY <2>2, <2>7, <2>15, <1>7 DEF Position
      <3>2. ASSUME rest # <<>> PROVE Under(s2, i + 1)
        <4>1. Len(rest) \in Nat /\ Len(rest) # 0
          BY <2>8, <3>2, EmptySeq, LenProperties
        <4>2. i + 1 \in 1 .. count /\ rest[1] = s.all[i + 1]
          <5>1. Len(rest) = count + 1 - (i + 1) /\ \A k \in 1 .. Len(rest) : rest[k] = s.all[k + (i + 1) - 1]
            BY <2>7, <2>15
          <5>2. 1 \in 1 .. Len(rest) /\ 1 + (i + 1) - 1 = i + 1
            BY <4>1
          <5>3. rest[1] = s.all[i + 1]
            BY <5>1, <5>2
          <5>4. i + 1 \in 1 .. count
            <6>1. PICK others \in Nat : others = Len(rest) /\ others # 0
              BY <4>1
            <6>2. others = count + 1 - (i + 1)
              BY <5>1, <6>1
            <6> QED BY <6>1, <6>2, <1>8
          <5> QED BY <5>3, <5>4
        <4>3. PICK start \in Nat, end \in Nat : start = s.all[i + 1][1] /\ end = s.all[i + 1][2]
          <5>1. s.all[i + 1] \in Ranges
            BY <4>2, <1>5, <1>7, ElementOfSeq
          <5> QED BY <5>1 DEF Ranges
        <4>4. start % WordSize = 0 /\ start < end /\ high <= start
          <5>1. i \in 1 .. (i + 1) - 1
            BY <1>8
          <5> QED BY <5>1, <4>2, <4>3, <1>4, <1>7, <1>9 DEF Ordered
        <4>5. /\ s2.all[i + 1][1] = start /\ s2.all[i + 1][2] = end /\ s2.address = start
              /\ s2.overlap = <<>> /\ ~s2.short /\ Len(s2.overlap) = 0
          <5>1. Head(rest) = rest[1]
            BY <3>2, <2>8
          <5>2. ~goesOn
            BY <2>15, <1>21
          <5> QED BY <5>1, <5>2, <2>2, <2>15, <3>2, <4>2, <4>3
        <4>6. Len(s2.needle) \in Nat /\ 0 < Len(s2.needle)
          BY <2>2, <1>5, EmptySeq
        <4>7. \A x \in s2.read : x < start
          <5>1. \A x \in s2.read : x \in s.read \/ x \in q .. q + m - 1
            BY <2>2
          <5> QED BY <5>1, <4>4, <1>5, <1>12, <1>14, <1>19
        <4>8. Trusted(s2, start, start)
          BY <4>3, <4>5 DEF Trusted, TrueIn
        <4> QED BY <4>3, <4>4, <4>5, <4>6, <4>7, <4>8 DEF Under
      <3> QED BY <3>1, <3>2, <2>2, <2>13, <1>8
    <2> QED BY <2>14, <2>15
  <1> QED BY <1>23, <1>24

(* The invariant says where the needle is element by element, the property as a sequence. *)
LEMMA SearchIsRight == SearchInv => SearchIsExact
  <1> SUFFICES ASSUME SearchInv, search.at = "found" PROVE
          /\ Occurrences \subseteq search.found
          /\ \A a \in search.found \ Occurrences :
                 \E seam \in search.seams : a < seam /\ seam < a + Len(search.needle)
          /\ Cardinality(search.found) <= MaxCandidates
    BY DEF SearchIsExact
  <1>1. SearchShape(search) /\ memory \in Memories
    BY DEF SearchInv, NoSearch
  <1>2. /\ search \in Searches /\ Exact(search, search.found, search.read, search.seams)
        /\ Cardinality(search.found) <= MaxCandidates
    BY <1>1 DEF SearchShape
  <1>3. search.needle \in Seq(Bits)
    BY <1>2 DEF Searches
  <1>4. PICK len \in Nat : len = Len(search.needle)
    BY <1>3, LenProperties
  <1>5. AddressSpace \in Nat
    BY SearchAssumption DEF SearchBounds
  <1>6. ASSUME NEW a \in 0 .. AddressSpace - len
        PROVE  Bytes(a, len) = search.needle <=> \A j \in 1 .. len : memory[a + j - 1] = search.needle[j]
    <2>1. a \in Nat /\ a + len <= AddressSpace
      BY <1>5
    <2>2. /\ Bytes(a, len) \in Seq(Bits) /\ Len(Bytes(a, len)) = len
          /\ \A k \in 1 .. len : Bytes(a, len)[k] = memory[a + k - 1]
      BY <2>1, <1>1, <1>5, BytesAre
    <2>3. Bytes(a, len) = search.needle <=> \A k \in 1 .. len : Bytes(a, len)[k] = search.needle[k]
      BY <2>2, <1>3, <1>4, SeqEqual
    <2> QED BY <2>2, <2>3
  <1>7. \A a : a \in Occurrences <=> Occurs(a, search, search.read)
    BY <1>4, <1>6 DEF Occurrences, Occurs
  <1> QED BY <1>2, <1>7 DEF Exact, Spans

LEMMA SearchStep == SearchInv /\ (SearchNext \/ UNCHANGED searchVars) => SearchInv'
  <1> SUFFICES ASSUME SearchInv, SearchNext \/ UNCHANGED searchVars PROVE SearchInv'
    OBVIOUS
  <1>1. CASE SearchBegins \/ SearchChunk \/ SearchEnds
    BY <1>1, SearchBeginsKeeps, SearchChunkKeeps, SearchEndsKeeps
  <1>2. CASE UNCHANGED searchVars
    BY <1>2, SearchFrame DEF searchVars
  <1>3. CASE \E held \in SUBSET Addresses :
         \/ begin(held)
         \/ \E anchors \in AnchorSets : begin_level(held, anchors) \/ begin_map(held, anchors)
                                        \/ find_name(held, anchors)
         \/ /\ hunt.at = "ready"
            /\ \E some \in SUBSET held :
                 refine(held, some) \/ refine_level(held, some) \/ refine_map(held, some)
    <2>1. UNCHANGED <<memory, search>>
      BY <1>3 DEF begin, begin_level, begin_map, find_name, Begins, refine, refine_level, refine_map, Refines
    <2> QED BY <2>1, SearchFrame
  <1> QED BY <1>1, <1>2, <1>3 DEF SearchNext

(* ------------------------------ candidates ------------------------------- *)

Hunts == [at: {"ready", "answered"}, kind: {"Hp", "Level", "Map", "Name"}, candidates: SUBSET Addresses,
          anchors: SUBSET Addresses, first: SUBSET Addresses, ever: SUBSET Addresses, answer: Int, refined: Nat]

(* An isolated level next to a known address, in its hunt. *)
IsTruth(a, h) == a \in h.ever /\ Near(a, h.anchors) /\ Isolated(a, h.first)
HuntGood(h) ==
    /\ h \in Hunts /\ h.candidates # {} /\ h.candidates \subseteq h.ever /\ h.ever \subseteq h.first
    /\ h.answer # NotFound => h.answer \in h.candidates
    /\ h.kind = "Hp" => h.candidates = h.ever /\ (h.answer # NotFound => h.candidates = {h.answer})
    /\ h.kind = "Level" =>
          \A truth : IsTruth(truth, h) =>
             /\ truth \in h.candidates
             /\ h.answer # NotFound => Distance(h.answer, h.anchors) <= Distance(truth, h.anchors)
HuntInv == hunt \in {NoHunt, [at |-> "over"]} \/ HuntGood(hunt)

LEMMA DistanceIs ==
    ASSUME NEW a \in Addresses, NEW anchors \in SUBSET Addresses, AddressSpace \in Nat, Slots \in Nat
    PROVE  Distance(a, anchors) \in Nat
  <1> DEFINE T == {abs_diff(a, x) : x \in anchors}
  <1>1. CASE anchors = {}
    BY <1>1 DEF Distance
  <1>2. CASE anchors # {}
    <2>1. \A x \in anchors : abs_diff(a, x) \in Nat
      <3>1. \A x \in anchors : x \in Nat /\ a \in Nat
        BY DEF Addresses
      <3> QED BY <3>1 DEF abs_diff
    <2>9. T # {} /\ T \in SUBSET Nat
      BY <1>2, <2>1
    <2> HIDE DEF T
    <2>2. Min(T) \in T
      BY <2>9, LeastOf DEF Min
    <2>3. Distance(a, anchors) = Min(T)
      BY <1>2 DEF Distance, T
    <2> QED BY <2>9, <2>2, <2>3
  <1> QED BY <1>1, <1>2

LEMMA NearestIs ==
    ASSUME NEW T \in SUBSET Addresses, NEW anchors \in SUBSET Addresses, AddressSpace \in Nat, Slots \in Nat, T # {}
    PROVE  /\ Nearest(T, anchors) \in T
           /\ \A b \in T : Distance(Nearest(T, anchors), anchors) <= Distance(b, anchors)
  <1> DEFINE D(a) == Distance(a, anchors)
             Best(a) == \A b \in T \ {a} : D(a) < D(b) \/ (D(a) = D(b) /\ a < b)
  <1>1. \A a \in T : D(a) \in Nat /\ a \in Nat
    BY DistanceIs DEF Addresses
  <1>2. Nearest(T, anchors) = CHOOSE a \in T : Best(a)
    BY DEF Nearest
  <1> HIDE DEF D
  <1>3. PICK d \in {D(a) : a \in T} : \A e \in {D(a) : a \in T} : d <= e
    <2>1. {D(a) : a \in T} # {} /\ {D(a) : a \in T} \in SUBSET Nat
      BY <1>1
    <2> QED BY <2>1, LeastOf
  <1>4. PICK a \in {x \in T : D(x) = d} : \A b \in {x \in T : D(x) = d} : a <= b
    <2>1. {x \in T : D(x) = d} # {} /\ {x \in T : D(x) = d} \in SUBSET Nat
      BY <1>1
    <2> QED BY <2>1, LeastOf
  <1>5. Best(a)
    <2>1. ASSUME NEW b \in T \ {a} PROVE D(a) < D(b) \/ (D(a) = D(b) /\ a < b)
      <3>1. D(a) \in Nat /\ D(b) \in Nat /\ a \in Nat /\ b \in Nat /\ D(a) = d /\ d <= D(b)
        BY <1>1, <1>3, <1>4
      <3>2. CASE D(b) = d
        BY <3>1, <3>2, <1>4
      <3>3. CASE D(b) # d
        BY <3>1, <3>3
      <3> QED BY <3>2, <3>3
    <2> QED BY <2>1
  <1>6. \E x \in T : Best(x)
    BY <1>4, <1>5
  <1> DEFINE best == CHOOSE x \in T : Best(x)
  <1>7. best \in T /\ Best(best)
    BY <1>6
  <1> HIDE DEF best
  <1>8. ASSUME NEW b \in T PROVE D(best) <= D(b)
    BY <1>1, <1>7, <1>8
  <1> QED BY <1>2, <1>7, <1>8 DEF best, D

LEMMA PickNearestIs ==
    ASSUME NEW T \in SUBSET Addresses, NEW anchors \in SUBSET Addresses, AddressSpace \in Nat, Slots \in Nat
    PROVE  \/ pick_nearest(T, anchors) = NotFound
           \/ /\ pick_nearest(T, anchors) \in T
              /\ \A b \in T : Distance(pick_nearest(T, anchors), anchors) <= Distance(b, anchors)
  <1>1. IsFiniteSet(T)
    <2>1. IsFiniteSet(Addresses)
      BY FS_Interval DEF Addresses
    <2> QED BY <2>1, FS_Subset
  <1>2. CASE Cardinality(T) = 1
    <2>1. PICK x : T = {x}
      BY <1>1, <1>2, FS_Singleton
    <2>2. pick_nearest(T, anchors) = CHOOSE a \in T : TRUE
      BY <1>2 DEF pick_nearest
    <2>3. pick_nearest(T, anchors) = x
      BY <2>1, <2>2
    <2>4. Distance(x, anchors) \in Nat
      BY <2>1, DistanceIs
    <2> QED BY <2>1, <2>3, <2>4
  <1>3. CASE Cardinality(T) # 1 /\ Cardinality(T) > 1 /\ anchors # {}
    <2>1. T # {}
      BY <1>3, FS_EmptySet
    <2>2. pick_nearest(T, anchors) = Nearest(T, anchors)
      BY <1>3 DEF pick_nearest
    <2> QED BY <2>1, <2>2, NearestIs
  <1>4. CASE Cardinality(T) # 1 /\ ~(Cardinality(T) > 1 /\ anchors # {})
    BY <1>4 DEF pick_nearest
  <1> QED BY <1>2, <1>3, <1>4

LEMMA NearbyKeeps ==
    ASSUME NEW T, T # {}, NEW anchors
    PROVE  /\ prefer_nearby_candidates(T, anchors) # {} /\ prefer_nearby_candidates(T, anchors) \subseteq T
           /\ \A a \in T : Near(a, anchors) => a \in prefer_nearby_candidates(T, anchors)
  BY DEF prefer_nearby_candidates

LEMMA NarrowKeeps ==
    ASSUME NEW T \in SUBSET Addresses, T # {}, NEW anchors, Slots \in Nat
    PROVE  /\ narrow_scan_candidates(T, anchors) # {} /\ narrow_scan_candidates(T, anchors) \subseteq T
           /\ \A a \in T : Near(a, anchors) /\ Isolated(a, T) => a \in narrow_scan_candidates(T, anchors)
  <1> DEFINE nearby == prefer_nearby_candidates(T, anchors)
             apart == {a \in nearby : Isolated(a, nearby)}
  <1>1. /\ nearby # {} /\ nearby \subseteq T
        /\ \A a \in T : Near(a, anchors) => a \in nearby
    BY NearbyKeeps
  <1> HIDE DEF nearby
  <1>2. drop_packed_clusters(nearby) = nearby \/ (drop_packed_clusters(nearby) = apart /\ apart # {})
    BY DEF drop_packed_clusters
  <1>3. narrow_scan_candidates(T, anchors) = drop_packed_clusters(nearby)
    BY DEF narrow_scan_candidates, nearby
  <1>4. ASSUME NEW a \in nearby, Isolated(a, T) PROVE Isolated(a, nearby)
    <2> DEFINE Packed(S) == {b \in S \ {a} : abs_diff(a, b) <= PackedSpan}
    <2>1. IsFiniteSet(Packed(T))
      <3>1. IsFiniteSet(Addresses)
        BY FS_Interval DEF Addresses
      <3>2. Packed(T) \subseteq Addresses
        OBVIOUS
      <3> HIDE DEF Packed
      <3> QED BY <3>1, <3>2, FS_Subset
    <2>2. Packed(nearby) \subseteq Packed(T)
      BY <1>1
    <2>3. Cardinality(Packed(T)) < 2
      BY <1>4 DEF Isolated
    <2> HIDE DEF Packed
    <2>4. /\ IsFiniteSet(Packed(nearby)) /\ Cardinality(Packed(nearby)) <= Cardinality(Packed(T))
      BY <2>1, <2>2, FS_Subset
    <2>5. Cardinality(Packed(nearby)) \in Nat /\ Cardinality(Packed(T)) \in Nat
      BY <2>1, <2>4, FS_CardinalityType
    <2>6. Cardinality(Packed(nearby)) < 2
      BY <2>3, <2>4, <2>5
    <2> QED BY <2>6 DEF Isolated, Packed
  <1>5. \A a \in T : Near(a, anchors) /\ Isolated(a, T) => a \in apart
    BY <1>1, <1>4
  <1> QED BY <1>1, <1>2, <1>3, <1>5

LEMMA BeginsGood ==
    ASSUME NEW held \in SUBSET Addresses, NEW anchors \in SUBSET Addresses, NEW kind \in {"Hp", "Level", "Map"},
           NEW candidates, Begins(kind, held, anchors, candidates),
           held # {} => /\ candidates # {} /\ candidates \subseteq held /\ (kind = "Hp" => candidates = held)
                        /\ \A a \in held : Near(a, anchors) /\ Isolated(a, held) => a \in candidates
    PROVE  HuntInv'
  <1>1. CASE held = {}
    BY <1>1 DEF Begins, HuntInv
  <1>2. CASE held # {}
    <2>1. PICK h : h = hunt'
      OBVIOUS
    <2>2. h = [at |-> "ready", kind |-> kind, candidates |-> candidates, anchors |-> anchors,
               first |-> held, ever |-> held, answer |-> NotFound, refined |-> 0]
      BY <1>2, <2>1 DEF Begins
    <2>3. h \in Hunts
      BY <1>2, <2>2 DEF Hunts, NotFound
    <2>4. \A truth : IsTruth(truth, h) => truth \in h.candidates
      BY <1>2, <2>2 DEF IsTruth
    <2>5. HuntGood(h)
      BY <1>2, <2>2, <2>3, <2>4 DEF HuntGood
    <2> QED BY <2>1, <2>5 DEF HuntInv
  <1> QED BY <1>1, <1>2

LEMMA FindNameGood ==
    ASSUME NEW held \in SUBSET Addresses, NEW anchors \in SUBSET Addresses, AddressSpace \in Nat, Slots \in Nat,
           find_name(held, anchors)
    PROVE  HuntInv'
  <1>1. CASE held = {}
    BY <1>1 DEF find_name, HuntInv
  <1>2. CASE held # {}
    <2> DEFINE narrowed == prefer_nearby_candidates(held, anchors)
               answer == pick_character_name(held, anchors)
    <2>1. narrowed # {} /\ narrowed \subseteq held /\ narrowed \in SUBSET Addresses /\ narrowed \in SUBSET Nat
      <3>1. narrowed # {} /\ narrowed \subseteq held
        BY <1>2, NearbyKeeps
      <3> HIDE DEF narrowed
      <3>2. Addresses \subseteq Nat
        BY DEF Addresses
      <3> QED BY <3>1, <3>2
    <2>2. answer = IF pick_nearest(narrowed, anchors) = NotFound /\ narrowed # {} THEN Min(narrowed)
                   ELSE pick_nearest(narrowed, anchors)
      BY DEF pick_character_name
    <2> HIDE DEF narrowed, answer
    <2>3. Min(narrowed) \in narrowed
      BY <2>1, LeastOf DEF Min
    <2>4. answer \in narrowed
      BY <2>1, <2>2, <2>3, PickNearestIs
    <2>5. PICK h : h = hunt'
      OBVIOUS
    <2>6. h = [at |-> "answered", kind |-> "Name", candidates |-> held, anchors |-> anchors,
               first |-> held, ever |-> held, answer |-> answer, refined |-> 0]
      BY <1>2, <2>5 DEF find_name, answer
    <2>7. h \in Hunts
      BY <2>1, <2>4, <2>6 DEF Hunts
    <2>8. HuntGood(h)
      BY <1>2, <2>1, <2>4, <2>6, <2>7 DEF HuntGood
    <2> QED BY <2>5, <2>8 DEF HuntInv
  <1> QED BY <1>1, <1>2

(* A refinement: what is remaining of the candidates, and an answer that is one of them. *)
LEMMA RefinesGood ==
    ASSUME HuntInv, NEW kind, NEW fitting, NEW candidates, NEW answer, Refines(kind, fitting, candidates, answer),
           candidates # {} =>
              /\ candidates \subseteq hunt.candidates \intersect fitting
              /\ answer # NotFound => answer \in candidates
              /\ kind = "Hp" => /\ candidates = hunt.candidates \intersect fitting
                                /\ answer # NotFound => candidates = {answer}
              /\ kind = "Level" => /\ candidates = hunt.candidates \intersect fitting
                                   /\ answer # NotFound =>
                                         \A b \in candidates : Distance(answer, hunt.anchors) <= Distance(b, hunt.anchors)
    PROVE  HuntInv'
  <1>1. HuntGood(hunt) /\ hunt.at = "ready" /\ hunt.kind = kind
    BY DEF Refines, HuntInv, NoHunt
  <1>2. hunt \in Hunts
    BY <1>1 DEF HuntGood
  <1>3. CASE candidates = {}
    BY <1>3 DEF Refines, HuntInv
  <1>4. CASE candidates # {}
    <2>1. PICK h : h = hunt'
      OBVIOUS
    <2>2. h = [hunt EXCEPT !.ever = hunt.ever \intersect fitting, !.refined = hunt.refined + 1,
                           !.candidates = candidates, !.answer = answer,
                           !.at = IF answer # NotFound THEN "answered" ELSE "ready"]
      BY <1>2, <1>4, <2>1 DEF Refines, Hunts
    <2>3. /\ h.ever = hunt.ever \intersect fitting /\ h.candidates = candidates /\ h.answer = answer
          /\ h.kind = kind /\ h.anchors = hunt.anchors /\ h.first = hunt.first
      BY <1>1, <1>2, <2>2 DEF Hunts
    <2>4. answer = NotFound \/ answer \in candidates
      BY <1>4
    <2>5. answer \in Int /\ candidates \in SUBSET Addresses
      <3>1. candidates \in SUBSET Addresses
        BY <1>2, <1>4 DEF Hunts
      <3>2. Addresses \subseteq Int /\ NotFound \in Int
        BY DEF Addresses, NotFound
      <3> QED BY <2>4, <3>1, <3>2
    <2>6. h \in Hunts
      <3>1. hunt.refined + 1 \in Nat /\ hunt.ever \intersect fitting \in SUBSET Addresses
        BY <1>2 DEF Hunts
      <3> QED BY <1>2, <2>2, <2>5, <3>1 DEF Hunts
    <2>7. candidates \subseteq hunt.ever \intersect fitting /\ hunt.ever \intersect fitting \subseteq hunt.first
      BY <1>1, <1>4 DEF HuntGood
    <2>8. ASSUME kind = "Hp" PROVE h.candidates = h.ever /\ (h.answer # NotFound => h.candidates = {h.answer})
      BY <1>1, <1>4, <2>3, <2>8 DEF HuntGood
    <2>9. ASSUME kind = "Level", NEW truth, IsTruth(truth, h)
          PROVE  /\ truth \in h.candidates
                 /\ h.answer # NotFound => Distance(h.answer, h.anchors) <= Distance(truth, h.anchors)
      <3>1. IsTruth(truth, hunt) /\ truth \in fitting
        BY <2>3, <2>9 DEF IsTruth
      <3>2. truth \in hunt.candidates
        BY <1>1, <2>9, <3>1 DEF HuntGood
      <3>3. truth \in candidates
        BY <1>4, <2>9, <3>1, <3>2
      <3> QED BY <1>4, <2>3, <2>9, <3>3
    <2>10. HuntGood(h)
      BY <1>4, <2>3, <2>4, <2>6, <2>7, <2>8, <2>9 DEF HuntGood
    <2> QED BY <2>1, <2>10 DEF HuntInv
  <1> QED BY <1>3, <1>4

LEMMA HuntStep == HuntInv /\ (SearchNext \/ UNCHANGED searchVars) => HuntInv'
  <1> SUFFICES ASSUME HuntInv, SearchNext \/ UNCHANGED searchVars PROVE HuntInv'
    OBVIOUS
  <1>1. AddressSpace \in Nat /\ Slots \in Nat /\ AnchorSets \subseteq SUBSET Addresses
    BY SearchAssumption DEF SearchBounds, Addresses
  <1>2. CASE UNCHANGED hunt
    BY <1>2 DEF HuntInv
  <1>3. CASE \E held \in SUBSET Addresses : begin(held)
    <2>1. PICK held \in SUBSET Addresses : Begins("Hp", held, {}, held)
      BY <1>3 DEF begin
    <2> QED BY <2>1, BeginsGood
  <1>4. CASE \E held \in SUBSET Addresses, anchors \in AnchorSets : begin_level(held, anchors) \/ begin_map(held, anchors)
    <2>1. PICK held \in SUBSET Addresses, anchors \in SUBSET Addresses, kind \in {"Level", "Map"} :
             Begins(kind, held, anchors, narrow_scan_candidates(held, anchors))
      BY <1>1, <1>4 DEF begin_level, begin_map
    <2>2. ASSUME held # {}
          PROVE  /\ narrow_scan_candidates(held, anchors) # {} /\ narrow_scan_candidates(held, anchors) \subseteq held
                 /\ \A a \in held : Near(a, anchors) /\ Isolated(a, held) => a \in narrow_scan_candidates(held, anchors)
      BY <1>1, <2>2, NarrowKeeps
    <2> QED BY <2>1, <2>2, BeginsGood
  <1>5. CASE \E held \in SUBSET Addresses, anchors \in AnchorSets : find_name(held, anchors)
    BY <1>1, <1>5, FindNameGood
  <1>6. ASSUME NEW held \in SUBSET Addresses, NEW some \in SUBSET held, hunt.at = "ready",
               refine(held, some) \/ refine_level(held, some) \/ refine_map(held, some)
        PROVE  HuntInv'
    <2>1. HuntGood(hunt) /\ hunt \in Hunts
      BY <1>6 DEF HuntInv, NoHunt, HuntGood
    <2>2. hunt.candidates \in SUBSET Addresses /\ hunt.anchors \in SUBSET Addresses
      BY <2>1 DEF Hunts
    <2>a. Addresses \subseteq Nat
      BY DEF Addresses
    <2>3. CASE refine(held, some)
      <3> DEFINE layouts == detect_layout(hunt.candidates \intersect held, some)
                 fitting == {a \in some : a < Slots - LayoutSpan}
                 answer == IF Cardinality(layouts) = 1 THEN Min(layouts) ELSE NotFound
      <3>1. Refines("Hp", fitting, layouts, answer)
        BY <2>3 DEF refine
      <3>2. layouts = hunt.candidates \intersect fitting
        <4>1. LayoutSpan \in Nat
          BY SearchAssumption DEF SearchBounds
        <4>2. \A a \in some : a \in held /\ a \in Nat
          BY <2>a
        <4>3. \A a \in some : a + LayoutSpan < Slots <=> a < Slots - LayoutSpan
          BY <4>1, <4>2, <1>1
        <4> QED BY <4>2, <4>3 DEF detect_layout
      <3>3. layouts \in SUBSET Nat /\ layouts \in SUBSET Addresses
        BY <3>2, <2>2, <2>a
      <3> HIDE DEF layouts, fitting
      <3>4. IsFiniteSet(layouts)
        <4>1. IsFiniteSet(Addresses)
          BY <1>1, FS_Interval DEF Addresses
        <4> QED BY <3>3, <4>1, FS_Subset
      <3>5. answer # NotFound => layouts = {answer}
        <4>1. SUFFICES ASSUME answer # NotFound PROVE layouts = {answer}
          OBVIOUS
        <4>2. Cardinality(layouts) = 1 /\ answer = Min(layouts)
          BY <4>1
        <4>3. PICK x : layouts = {x}
          BY <3>4, <4>2, FS_Singleton
        <4>4. Min(layouts) \in layouts
          BY <3>3, <4>3, LeastOf DEF Min
        <4> QED BY <4>2, <4>3, <4>4
      <3> HIDE DEF answer
      <3> QED BY <3>1, <3>2, <3>5, RefinesGood
    <2>4. CASE refine_level(held, some)
      <3> DEFINE candidates == hunt.candidates \intersect held
                 nearest == pick_nearest(candidates, hunt.anchors)
                 answer == IF nearest \in some THEN nearest ELSE NotFound
      <3>1. Refines("Level", held, candidates, answer)
        BY <2>4 DEF refine_level
      <3>2. candidates \in SUBSET Addresses
        BY <2>2
      <3>5. candidates = hunt.candidates \intersect held
        OBVIOUS
      <3> HIDE DEF candidates
      <3>3. \/ nearest = NotFound
            \/ nearest \in candidates /\ \A b \in candidates : Distance(nearest, hunt.anchors) <= Distance(b, hunt.anchors)
        BY <1>1, <2>2, <3>2, PickNearestIs
      <3> HIDE DEF nearest
      <3>4. answer # NotFound =>
               answer \in candidates /\ \A b \in candidates : Distance(answer, hunt.anchors) <= Distance(b, hunt.anchors)
        BY <3>3
      <3> HIDE DEF answer
      <3> QED BY <3>1, <3>4, <3>5, RefinesGood
    <2>5. CASE refine_map(held, some)
      <3> DEFINE changed == hunt.candidates \intersect held
                 answer == resolve_map_after_compare(changed, some, hunt.anchors)
      <3>1. Refines("Map", held, changed, answer)
        BY <2>5 DEF refine_map
      <3>2. changed \in SUBSET Addresses /\ changed \intersect some \in SUBSET Addresses
        BY <2>2
      <3>5. changed = hunt.candidates \intersect held
        OBVIOUS
      <3> HIDE DEF changed
      <3>3. ASSUME changed # {} PROVE answer \in changed
        <4>1. CASE changed \intersect some # {}
          <5>1. answer = Nearest(changed \intersect some, hunt.anchors)
            BY <3>3, <4>1 DEF resolve_map_after_compare
          <5>2. Nearest(changed \intersect some, hunt.anchors) \in changed \intersect some
            BY <4>1, <3>2, <2>2, <1>1, NearestIs
          <5> QED BY <5>1, <5>2
        <4>2. CASE changed \intersect some = {}
          <5>1. answer = Nearest(changed, hunt.anchors)
            BY <3>3, <4>2 DEF resolve_map_after_compare
          <5>2. Nearest(changed, hunt.anchors) \in changed
            BY <3>3, <3>2, <2>2, <1>1, NearestIs
          <5> QED BY <5>1, <5>2
        <4> QED BY <4>1, <4>2
      <3> HIDE DEF answer
      <3> QED BY <3>1, <3>3, <3>5, RefinesGood
    <2> QED BY <1>6, <2>3, <2>4, <2>5
  <1>7. SearchBegins \/ SearchChunk \/ SearchEnds \/ UNCHANGED searchVars => UNCHANGED hunt
    BY DEF SearchBegins, SearchChunk, SearchEnds, searchVars
  <1> QED BY <1>2, <1>3, <1>4, <1>5, <1>6, <1>7 DEF SearchNext

LEMMA HuntRight == HuntInv => AnswersAreSound
  <1> SUFFICES ASSUME HuntInv, hunt.at \in {"ready", "answered"} PROVE AnswersAreSound
    BY DEF AnswersAreSound
  <1>1. HuntGood(hunt)
    BY DEF HuntInv, NoHunt
  <1> QED BY <1>1 DEF HuntGood, IsTruth, AnswersAreSound

(* ScannerIsSound: a scan is of one process, what is kept or reported was read in it, a search finds
   exactly what was in the memory it read, and an answer held every value the user gave, for every
   number of overlapping commands, all mappings, needles and sizes of a chunk, and every read that
   falls short (scanner.rs, session.rs, proc_memory.rs). *)
THEOREM ScannerAlwaysSound == AddressScannerSpec => []ScannerIsSound
  <1>1. AddressScannerSpec => []ScanSound
    <2>1. AddressScannerInit => ScannerInit
      BY DEF AddressScannerInit
    <2>2. [AddressScannerNext]_addressScannerVars => [ScannerNext]_scannerVars
      BY DEF AddressScannerNext, addressScannerVars, scannerVars
    <2> QED BY <2>1, <2>2, ScanAlwaysSound, PTL DEF AddressScannerSpec, ScannerSpec
  <1>2. AddressScannerInit => SearchInv /\ HuntInv
    <2>1. SearchInit => HuntInv
      BY DEF SearchInit, HuntInv
    <2> QED BY <2>1, SearchStart DEF AddressScannerInit
  <1>3. SearchInv /\ HuntInv /\ [AddressScannerNext]_addressScannerVars => (SearchInv /\ HuntInv)'
    <2>1. [AddressScannerNext]_addressScannerVars => SearchNext \/ UNCHANGED searchVars
      BY DEF AddressScannerNext, addressScannerVars
    <2> QED BY <2>1, SearchStep, HuntStep
  <1>4. SearchInv /\ HuntInv => SearchIsSound
    BY SearchIsRight, HuntRight DEF SearchIsSound
  <1> QED BY <1>1, <1>2, <1>3, <1>4, PTL DEF AddressScannerSpec, ScannerIsSound

(* ---------------------------- Discord presence ---------------------------- *)

SampledProfiles == Profiles \union {"hash"}
Snapshots == [of: Characters \union {"nobody"}, from: 0..2]
Registered == [known: {TRUE}, identity: {1, 2}, layout: {"hash", "derived", "none"},
               snapshot: Snapshots, profile: SampledProfiles \union {NoProfile},
               pending: (SampledProfiles \X Characters) \union {NoPending},
               samples: 0..StableSamples, invalid: 0..InvalidSamples]
OwnSnapshot(c) == c.snapshot # NoSnapshot => c.snapshot.from = c.identity

(* A client is not registered, or its snapshot is of the process it is now. *)
Sound(c) == c = NoPlayer \/ (c \in Registered /\ OwnSnapshot(c))
SoundPlayers(ps) == DOMAIN ps = Players /\ \A p \in Players : Sound(ps[p])

(* A connection that failed is closed, so Discord shows what was sent last or nothing. *)
LinkHolds(l) ==
    /\ l \in [sent: {l.sent}, shown: {l.shown}, failed: BOOLEAN]
    /\ l.shown \in {Nothing, l.sent}
    /\ l.failed => l.shown = Nothing

PresenceInv ==
    /\ enabled \in BOOLEAN /\ workerRuns \in BOOLEAN
    /\ SoundPlayers(players)
    /\ LinkHolds(Link)
    /\ shown \in {Nothing, Desired(enabled, players)}

(* One sample of one client keeps it sound: a stable sample names the process of now. *)
LEMMA InvalidateSound ==
    ASSUME NEW c \in Registered, OwnSnapshot(c)
    PROVE  InvalidateClient(c) \in Registered /\ OwnSnapshot(InvalidateClient(c))
  <1> DEFINE bad == c.invalid + 1
             over == bad >= InvalidSamples
             snapshot == IF over THEN NoSnapshot ELSE c.snapshot
             invalid == IF over THEN InvalidSamples ELSE bad
             profile == IF over /\ c.layout # "hash" THEN NoProfile ELSE c.profile
             d == [c EXCEPT !.pending = NoPending, !.samples = 0, !.invalid = invalid,
                            !.snapshot = snapshot, !.profile = profile]
  <1>1. InvalidateClient(c) = d
    BY DEF InvalidateClient
  <1>2. invalid \in 0..InvalidSamples
    <2>1. c.invalid \in Nat /\ InvalidSamples \in Nat
      BY SamplesAssumption DEF Registered
    <2> QED BY <2>1
  <1>3. snapshot \in {NoSnapshot, c.snapshot} /\ profile \in {NoProfile, c.profile}
    OBVIOUS
  <1>4. snapshot \in Snapshots /\ profile \in SampledProfiles \union {NoProfile} /\ 0 \in 0..StableSamples
    BY <1>3, SamplesAssumption DEF Registered, NoSnapshot, Snapshots
  <1> HIDE DEF snapshot, invalid, profile
  <1>5. d \in Registered
    BY <1>2, <1>4 DEF Registered
  <1>6. d.snapshot = snapshot /\ d.identity = c.identity
    BY DEF Registered
  <1> QED BY <1>1, <1>3, <1>5, <1>6 DEF OwnSnapshot

(* A sample of a character counts for the identity it was read under. *)
LEMMA RecordSound ==
    ASSUME NEW c \in Registered, OwnSnapshot(c), NEW f \in SampledProfiles, NEW x \in Characters
    PROVE  RecordIngameSample(c, f, x) \in Registered /\ OwnSnapshot(RecordIngameSample(c, f, x))
  <1> DEFINE key == <<f, x>>
             n == IF c.pending # key THEN 1 ELSE IF c.samples < StableSamples THEN c.samples + 1
                  ELSE StableSamples
             stable == n >= StableSamples
             taken1 == [of |-> x, from |-> c.identity]
             profile == IF stable THEN f ELSE c.profile
             snapshot == IF stable THEN taken1 ELSE c.snapshot
             invalid == IF stable THEN 0 ELSE c.invalid
             d == [c EXCEPT !.pending = key, !.samples = n, !.profile = profile,
                            !.snapshot = snapshot, !.invalid = invalid]
  <1>1. RecordIngameSample(c, f, x) = d
    BY DEF RecordIngameSample
  <1>2. n \in 0..StableSamples
    <2>1. c.samples \in 0..StableSamples /\ StableSamples \in Nat \ {0}
      BY SamplesAssumption DEF Registered
    <2> QED BY <2>1
  <1>3. snapshot \in {taken1, c.snapshot} /\ profile \in {f, c.profile} /\ invalid \in {0, c.invalid}
    OBVIOUS
  <1>4. taken1 \in Snapshots /\ taken1.from = c.identity
    BY DEF Registered, Snapshots
  <1>5. invalid \in 0..InvalidSamples
    <2>1. c.invalid \in 0..InvalidSamples /\ InvalidSamples \in Nat
      BY SamplesAssumption DEF Registered
    <2> QED BY <1>3, <2>1
  <1>6. snapshot \in Snapshots /\ profile \in SampledProfiles \union {NoProfile}
    BY <1>3, <1>4 DEF Registered
  <1>7. key \in SampledProfiles \X Characters
    OBVIOUS
  <1> HIDE DEF snapshot, invalid, profile, key, n, stable, taken1
  <1>8. d \in Registered
    BY <1>2, <1>5, <1>6, <1>7 DEF Registered
  <1>9. d.snapshot = snapshot /\ d.identity = c.identity
    BY DEF Registered
  <1> QED BY <1>1, <1>3, <1>4, <1>8, <1>9 DEF OwnSnapshot

(* Whatever is read of a client, its snapshot is its own. *)
LEMMA SampleSound ==
    ASSUME NEW c \in Registered, OwnSnapshot(c), NEW d \in SampleClient(c)
    PROVE  d \in Registered /\ OwnSnapshot(d)
  <1>1. Candidates(c) \subseteq SampledProfiles
    BY DEF Candidates, Registered, SampledProfiles
  <1>2. \/ d = c \/ d = InvalidateClient(c)
        \/ \E f \in Candidates(c), x \in Characters : d = RecordIngameSample(c, f, x)
    BY DEF SampleClient
  <1> QED BY <1>1, <1>2, InvalidateSound, RecordSound

(* A tick samples every client that is registered. *)
LEMMA SampledSound ==
    ASSUME NEW ps, SoundPlayers(ps), NEW next \in Sampled(ps)
    PROVE  SoundPlayers(next)
  <1> DEFINE choices == [p \in Players |-> IF ps[p].known THEN SampleClient(ps[p]) ELSE {NoPlayer}]
  <1>1. CASE ~enabled
    BY <1>1 DEF Sampled
  <1>2. CASE enabled
    <2>1. /\ next \in [Players -> UNION Range(choices)]
          /\ \A p \in Players : next[p] \in choices[p]
      BY <1>2 DEF Sampled
    <2>2. ASSUME NEW p \in Players
          PROVE  Sound(next[p])
      <3>1. next[p] \in IF ps[p].known THEN SampleClient(ps[p]) ELSE {NoPlayer}
        BY <2>1, <2>2
      <3>2. Sound(ps[p])
        BY <2>2 DEF SoundPlayers
      <3>3. CASE ps[p] = NoPlayer
        <4>1. ~ps[p].known
          BY <3>3 DEF NoPlayer
        <4> QED BY <3>1, <4>1 DEF Sound
      <3>4. CASE ps[p] \in Registered /\ OwnSnapshot(ps[p])
        <4>1. ps[p].known
          BY <3>4 DEF Registered
        <4> QED BY <3>1, <3>4, <4>1, SampleSound DEF Sound
      <3> QED BY <3>2, <3>3, <3>4 DEF Sound
    <2>3. DOMAIN next = Players
      BY <2>1
    <2> QED BY <2>2, <2>3 DEF SoundPlayers
  <1> QED BY <1>1, <1>2

(* A publication leaves on Discord what was asked for, or nothing. *)
LEMMA PublishHolds ==
    ASSUME NEW l, LinkHolds(l), NEW desired, NEW force, NEW since, NEW arrives
    PROVE  /\ LinkHolds(Publish(l, desired, force, since, arrives))
           /\ Publish(l, desired, force, since, arrives).shown \in {Nothing, desired}
  <1> DEFINE r == Publish(l, desired, force, since, arrives)
  <1>1. \/ r = l /\ (desired = l.sent \/ l.failed)
        \/ r = [l EXCEPT !.failed = FALSE] /\ l.sent = Nothing
        \/ r = [sent |-> desired, shown |-> desired, failed |-> FALSE]
        \/ r = [l EXCEPT !.shown = Nothing, !.failed = TRUE]
    BY DEF Publish, AfterError
  <1> HIDE DEF r
  <1>2. CASE r = l /\ (desired = l.sent \/ l.failed)
    BY <1>2 DEF LinkHolds, r
  <1>3. CASE r = [l EXCEPT !.failed = FALSE] /\ l.sent = Nothing
    <2>1. r.sent = l.sent /\ r.shown = l.shown /\ r.failed = FALSE
          /\ r \in [sent: {l.sent}, shown: {l.shown}, failed: BOOLEAN]
      BY <1>3 DEF LinkHolds
    <2> QED BY <1>3, <2>1 DEF LinkHolds, r
  <1>4. CASE r = [sent |-> desired, shown |-> desired, failed |-> FALSE]
    BY <1>4 DEF LinkHolds, r
  <1>5. CASE r = [l EXCEPT !.shown = Nothing, !.failed = TRUE]
    <2>1. r.sent = l.sent /\ r.shown = Nothing /\ r.failed = TRUE
          /\ r \in [sent: {l.sent}, shown: {Nothing}, failed: BOOLEAN]
      BY <1>5 DEF LinkHolds
    <2> QED BY <2>1 DEF LinkHolds, r
  <1> QED BY <1>1, <1>2, <1>3, <1>4, <1>5

(* The connection takes the value that an operation on it returns. *)
LEMMA BecomesLink ==
    ASSUME NEW l, LinkHolds(l), Becomes(l)
    PROVE  LinkHolds(Link') /\ shown' = l.shown
  <1>1. Link' = l
    BY DEF Link, Becomes, LinkHolds
  <1> QED BY <1>1 DEF Becomes

(* What is published is shown, or nothing is. *)
LEMMA PublishBecomes ==
    ASSUME NEW l, LinkHolds(l), NEW desired, NEW force, NEW since, NEW arrives,
           Becomes(Publish(l, desired, force, since, arrives))
    PROVE  LinkHolds(Link') /\ shown' \in {Nothing, desired}
  <1> DEFINE r == Publish(l, desired, force, since, arrives)
  <1>1. LinkHolds(r) /\ r.shown \in {Nothing, desired}
    BY PublishHolds
  <1> HIDE DEF r
  <1>2. Becomes(r)
    BY DEF r
  <1> QED BY <1>1, <1>2, BecomesLink

(* The sample and the forced publication of a command. *)
LEMMA SampleAndPublishKeeps ==
    ASSUME PresenceInv, NEW ps, SoundPlayers(ps), SampleAndPublish(ps)
    PROVE  PresenceInv'
  <1>1. UNCHANGED <<enabled, workerRuns>>
    BY DEF SampleAndPublish
  <1>2. SoundPlayers(players')
    BY SampledSound DEF SampleAndPublish
  <1> DEFINE d == Desired(enabled, players')
  <1>3. PICK since \in Intervals, first \in BOOLEAN, second \in BOOLEAN :
            Becomes(Publish(IF enabled THEN Publish(Link, d, FALSE, since, first) ELSE Link,
                            d, TRUE, "short", second))
    BY DEF SampleAndPublish
  <1> DEFINE l == IF enabled THEN Publish(Link, d, FALSE, since, first) ELSE Link
  <1>4. LinkHolds(l)
    <2> HIDE DEF d
    <2>1. LinkHolds(Link)
      BY DEF PresenceInv
    <2>2. LinkHolds(Publish(Link, d, FALSE, since, first))
      BY <2>1, PublishHolds
    <2> QED BY <2>1, <2>2
  <1>5. Becomes(Publish(l, d, TRUE, "short", second))
    BY <1>3
  <1> HIDE DEF l, d
  <1>6. LinkHolds(Link') /\ shown' \in {Nothing, d}
    BY <1>4, <1>5, PublishBecomes
  <1>7. shown' \in {Nothing, Desired(enabled', players')}
    BY <1>1, <1>6 DEF d
  <1> QED BY <1>1, <1>2, <1>6, <1>7 DEF PresenceInv

(* The switch clears what is shown when it goes off. *)
LEMMA SetEnabledKeeps ==
    ASSUME PresenceInv, NEW on \in BOOLEAN, SetEnabled(on)
    PROVE  PresenceInv'
  <1>1. enabled' = on /\ UNCHANGED <<players, workerRuns>>
    BY DEF SetEnabled
  <1>2. LinkHolds(Link') /\ shown' \in {Nothing, Desired(on, players)}
    <2>0. LinkHolds(Link) /\ shown \in {Nothing, Desired(enabled, players)}
      BY DEF PresenceInv
    <2>1. CASE on
      <3>1. UNCHANGED <<sentActivity, shown, presenceError>>
        BY <2>1 DEF SetEnabled
      <3>2. Link' = Link
        BY <3>1 DEF Link
      <3>3. CASE enabled
        BY <2>0, <2>1, <3>1, <3>2, <3>3 DEF Desired
      <3>4. CASE ~enabled
        BY <2>0, <3>1, <3>2, <3>4 DEF Desired
      <3> QED BY <3>3, <3>4
    <2>2. CASE ~on
      <3>1. PICK arrives \in BOOLEAN : Becomes(Publish(Link, Nothing, TRUE, "short", arrives))
        BY <2>2 DEF SetEnabled
      <3> QED BY <2>0, <3>1, PublishBecomes
    <2> QED BY <2>1, <2>2
  <1>3. SoundPlayers(players)
    BY DEF PresenceInv
  <1> QED BY <1>1, <1>2, <1>3 DEF PresenceInv

(* One client is replaced by a sound one. *)
LEMMA Replaced ==
    ASSUME NEW ps, SoundPlayers(ps), NEW p \in Players, NEW c, Sound(c)
    PROVE  SoundPlayers([ps EXCEPT ![p] = c])
  BY DEF SoundPlayers

(* A client without a snapshot shows no other identity. *)
LEMMA NoSnapshotIsOwn ==
    ASSUME NEW c, c.snapshot = NoSnapshot
    PROVE  OwnSnapshot(c)
  BY DEF OwnSnapshot

(* The missing snapshot is a snapshot. *)
LEMMA NoSnapshotIsOne == NoSnapshot \in Snapshots
  BY DEF NoSnapshot, Snapshots

(* A client that registers again starts without samples. *)
LEMMA RegisterPlayerKeeps ==
    ASSUME PresenceInv, NEW p \in Players, NEW layout \in Layouts[p], RegisterPlayer(p, layout)
    PROVE  PresenceInv'
  <1> DEFINE profile == IF layout = "hash" THEN "hash" ELSE NoProfile
             c == [known |-> TRUE, identity |-> 1, layout |-> layout, snapshot |-> NoSnapshot,
                   profile |-> profile, pending |-> NoPending, samples |-> 0, invalid |-> 0]
  <1>1. layout \in {"hash", "derived", "none"} /\ profile \in SampledProfiles \union {NoProfile}
    BY LayoutsAssumption DEF SampledProfiles
  <1>2. 0 \in 0..StableSamples /\ 0 \in 0..InvalidSamples
    BY SamplesAssumption
  <1>3. SampleAndPublish([players EXCEPT ![p] = c])
    BY DEF RegisterPlayer
  <1> HIDE DEF profile
  <1>4. c \in Registered /\ c.snapshot = NoSnapshot
    BY <1>1, <1>2, NoSnapshotIsOne DEF Registered
  <1> HIDE DEF c
  <1>5. SoundPlayers([players EXCEPT ![p] = c])
    BY <1>4, NoSnapshotIsOwn, Replaced DEF Sound, PresenceInv
  <1> QED BY <1>3, <1>5, SampleAndPublishKeeps

(* What a command finds of a client that is registered, and what Reset leaves of it. *)
LEMMA ResetIs ==
    ASSUME NEW ps, SoundPlayers(ps), NEW p \in Players, ps[p].known
    PROVE  Reset(ps[p]) \in Registered /\ Reset(ps[p]).snapshot = NoSnapshot
  <1>1. ps[p] \in Registered
    BY DEF SoundPlayers, Sound, NoPlayer
  <1>2. 0 \in 0..StableSamples /\ 0 \in 0..InvalidSamples
    BY SamplesAssumption
  <1> QED BY <1>1, <1>2, NoSnapshotIsOne DEF Reset, Registered

(* New layouts drop what was read with the old ones. *)
LEMMA ApplyOverridesKeeps ==
    ASSUME PresenceInv, NEW p \in Players, ApplyOverrides(p)
    PROVE  PresenceInv'
  <1>1. PICK layout \in Layouts[p] \ {"hash"} :
            SampleAndPublish([players EXCEPT
              ![p] = [Reset(players[p]) EXCEPT !.profile = NoProfile, !.layout = layout]])
    BY DEF ApplyOverrides
  <1>2. Reset(players[p]) \in Registered /\ Reset(players[p]).snapshot = NoSnapshot
        /\ layout \in {"hash", "derived", "none"}
    BY ResetIs, LayoutsAssumption DEF ApplyOverrides, PresenceInv
  <1> DEFINE c == [Reset(players[p]) EXCEPT !.profile = NoProfile, !.layout = layout]
  <1>3. c \in Registered /\ c.snapshot = NoSnapshot
    BY <1>2 DEF Registered
  <1>4. SampleAndPublish([players EXCEPT ![p] = c])
    BY <1>1
  <1> HIDE DEF c
  <1>5. SoundPlayers([players EXCEPT ![p] = c])
    BY <1>3, NoSnapshotIsOwn, Replaced DEF Sound, PresenceInv
  <1> QED BY <1>4, <1>5, SampleAndPublishKeeps

(* The process of the client changes: its snapshot goes before it is sampled again. *)
LEMMA HandoffPlayerKeeps ==
    ASSUME PresenceInv, NEW p \in Players, HandoffPlayer(p)
    PROVE  PresenceInv'
  <1> DEFINE c == [Reset(players[p]) EXCEPT !.identity = 2]
  <1>1. SampleAndPublish([players EXCEPT ![p] = c])
    BY DEF HandoffPlayer
  <1>2. Reset(players[p]) \in Registered /\ Reset(players[p]).snapshot = NoSnapshot
    BY ResetIs DEF HandoffPlayer, PresenceInv
  <1>3. c \in Registered /\ c.snapshot = NoSnapshot
    BY <1>2 DEF Registered
  <1> HIDE DEF c
  <1>4. SoundPlayers([players EXCEPT ![p] = c])
    BY <1>3, NoSnapshotIsOwn, Replaced DEF Sound, PresenceInv
  <1> QED BY <1>1, <1>4, SampleAndPublishKeeps

(* A client that leaves is no longer shown. *)
LEMMA UnregisterPlayerKeeps ==
    ASSUME PresenceInv, NEW p \in Players, UnregisterPlayer(p)
    PROVE  PresenceInv'
  <1>1. players' = [players EXCEPT ![p] = NoPlayer] /\ UNCHANGED <<enabled, workerRuns>>
    BY DEF UnregisterPlayer
  <1>2. SoundPlayers(players')
    BY <1>1, Replaced DEF Sound, PresenceInv
  <1>3. PICK arrives \in BOOLEAN : Becomes(Publish(Link, Desired(enabled, players'), TRUE, "short", arrives))
    BY DEF UnregisterPlayer
  <1>4. LinkHolds(Link') /\ shown' \in {Nothing, Desired(enabled, players')}
    BY <1>3, PublishBecomes DEF PresenceInv
  <1> QED BY <1>1, <1>2, <1>4 DEF PresenceInv

(* A tick samples, chooses and publishes. *)
LEMMA SampleTickKeeps ==
    ASSUME PresenceInv, SampleTick
    PROVE  PresenceInv'
  <1>1. UNCHANGED <<enabled, workerRuns>>
    BY DEF SampleTick
  <1>2. SoundPlayers(players')
    BY SampledSound DEF SampleTick, PresenceInv
  <1>3. PICK since \in Intervals, arrives \in BOOLEAN :
            Becomes(Publish(Link, Desired(enabled, players'), FALSE, since, arrives))
    BY DEF SampleTick
  <1>4. LinkHolds(Link') /\ shown' \in {Nothing, Desired(enabled, players')}
    BY <1>3, PublishBecomes DEF PresenceInv
  <1> QED BY <1>1, <1>2, <1>4 DEF PresenceInv

(* The presence is cleared before the connection is closed. *)
LEMMA ShutdownPresenceKeeps ==
    ASSUME PresenceInv, ShutdownPresence
    PROVE  PresenceInv'
  <1>1. workerRuns' = FALSE /\ UNCHANGED <<enabled, players>>
    BY DEF ShutdownPresence
  <1>2. PICK arrives \in BOOLEAN :
            Becomes([Publish(Link, Desired(enabled, players), TRUE, "short", arrives)
                       EXCEPT !.shown = Nothing])
    BY DEF ShutdownPresence
  <1> DEFINE l == Publish(Link, Desired(enabled, players), TRUE, "short", arrives)
             r == [l EXCEPT !.shown = Nothing]
  <1>3. LinkHolds(l) /\ Becomes(r)
    BY <1>2, PublishHolds DEF PresenceInv
  <1> HIDE DEF l
  <1>4. r.sent = l.sent /\ r.shown = Nothing /\ r.failed = l.failed
        /\ r \in [sent: {l.sent}, shown: {Nothing}, failed: BOOLEAN]
    BY <1>3 DEF LinkHolds
  <1> HIDE DEF r
  <1>5. LinkHolds(r)
    BY <1>4 DEF LinkHolds
  <1>6. LinkHolds(Link') /\ shown' = Nothing
    BY <1>3, <1>4, <1>5, BecomesLink
  <1> QED BY <1>1, <1>6 DEF PresenceInv

(* A restart of Discord drops the connection and what it showed. *)
LEMMA DiscordRestartsKeeps ==
    ASSUME PresenceInv, DiscordRestarts
    PROVE  PresenceInv'
  <1>1. UNCHANGED <<enabled, players, sentActivity, presenceError, workerRuns>> /\ shown' = Nothing
    BY DEF DiscordRestarts
  <1>2. LinkHolds(Link')
    BY <1>1 DEF PresenceInv, Link, LinkHolds
  <1> QED BY <1>1, <1>2 DEF PresenceInv

(* The presence starts with no client and nothing shown. *)
LEMMA PresenceStarts ==
    ASSUME PresenceInit
    PROVE  PresenceInv
  BY DEF PresenceInit, PresenceInv, SoundPlayers, Sound, LinkHolds, Link

(* Every step of the presence keeps its invariant. *)
LEMMA PresenceNextKeeps ==
    ASSUME PresenceInv, [PresenceNext]_presenceVars
    PROVE  PresenceInv'
  <1>1. CASE UNCHANGED presenceVars
    <2>1. UNCHANGED <<enabled, players, sentActivity, presenceError, shown, workerRuns>>
      BY <1>1 DEF presenceVars
    <2>2. Link' = Link
      BY <2>1 DEF Link
    <2> QED BY <2>1, <2>2 DEF PresenceInv
  <1>2. ASSUME NEW p \in Players,
               \/ \E layout \in Layouts[p] : RegisterPlayer(p, layout)
               \/ ApplyOverrides(p) \/ HandoffPlayer(p) \/ UnregisterPlayer(p)
        PROVE  PresenceInv'
    BY <1>2, RegisterPlayerKeeps, ApplyOverridesKeeps, HandoffPlayerKeeps, UnregisterPlayerKeeps
  <1> QED BY <1>1, <1>2, SetEnabledKeeps, SampleTickKeeps, ShutdownPresenceKeeps,
             DiscordRestartsKeeps DEF PresenceNext

(* Discord never shows a client that was unregistered, a presence that was disabled or *)
(* the character of another process, for any clients, samples and commands.            *)
THEOREM ShownAlwaysCurrent == PresenceSpec => [](PresenceTypeOK /\ ShownIsCurrent)
  <1>1. ASSUME PresenceInv PROVE PresenceTypeOK /\ ShownIsCurrent
    <2>1. \A p \in Known(players) : players[p] \in Registered /\ OwnSnapshot(players[p])
      BY <1>1 DEF PresenceInv, SoundPlayers, Sound, Known, NoPlayer
    <2>2. presenceError \in BOOLEAN
      BY <1>1 DEF PresenceInv, LinkHolds, Link
    <2>3. PresenceTypeOK
      BY <1>1, <2>1, <2>2 DEF PresenceTypeOK, PresenceInv, Registered
    <2> QED BY <1>1, <2>1, <2>3 DEF PresenceInv, ShownIsCurrent, OwnSnapshot
  <1> QED BY <1>1, PresenceStarts, PresenceNextKeeps, PTL DEF PresenceSpec

(* ------------------------- the list of clients ---------------------------- *)

EventTypes == [type: {"game-exit", "game-client"}, id: Windows]
LaunchCalls == [step: {"asked", "reserved", "ok", "refused"}, client: Windows]
RefreshCalls == {NoRefresh} \cup [step: {"asked", "answered"}, ids: SUBSET Windows]
ListTypes ==
    /\ backendClients \subseteq Windows /\ fresh \subseteq Windows
    /\ listed \subseteq Windows /\ closedIds \subseteq Windows
    /\ emitted \in Seq(EventTypes) /\ launchCall \in LaunchCalls \cup {NoLaunch}
    /\ refreshes \in [Refreshes -> RefreshCalls] /\ newest \in Refreshes \cup {NoRefreshId}

Announced(type, c) == \E i \in DOMAIN emitted : emitted[i] = [type |-> type, id |-> c]
Launching(c, steps) == launchCall # NoLaunch /\ launchCall.client = c /\ launchCall.step \in steps
InLaunch(c) == launchCall # NoLaunch /\ launchCall.client = c
(* The window drops this client, if it shows it, when what is on its way arrives. *)
Leaving(c) == Announced("game-exit", c) \/ Launching(c, {"asked", "refused"})

(* The life of an id.  It is used once, and what has ended does not come back. *)
LifeOf(c) ==
    /\ c \in closedIds => c \notin backendClients \cup listed \cup fresh
    /\ c \in backendClients => c \notin fresh
    /\ Announced("game-exit", c) => c \notin backendClients \cup fresh
    /\ Announced("game-client", c) =>
          c \notin fresh /\ (c \in backendClients \cup closedIds \/ Announced("game-exit", c))
    /\ Announced("game-client", c) \/ Announced("game-exit", c) =>
          ~Launching(c, {"asked", "reserved", "refused"})
    /\ InLaunch(c) => c \notin fresh
    /\ Launching(c, {"asked", "refused"}) => c \notin backendClients
    /\ Launching(c, {"asked", "reserved"}) => c \notin closedIds
    /\ Launching(c, {"reserved"}) => c \in backendClients
    /\ Launching(c, {"ok"}) => c \in backendClients \cup closedIds \/ Announced("game-exit", c)

(* What the window shows runs or is leaving, and what runs is shown or about to be. *)
ShownRight(c) ==
    /\ c \in listed => c \in backendClients \/ Leaving(c)
    /\ c \in backendClients => c \in listed \/ InLaunch(c)
(* A census that will count says the same. *)
CensusRight(c) ==
    newest \in Refreshes /\ refreshes[newest].step = "answered" =>
        /\ c \in refreshes[newest].ids => c \in backendClients \cup closedIds \/ Leaving(c)
        /\ c \in backendClients => c \in refreshes[newest].ids \/ InLaunch(c)

ListInv == ListTypes /\ \A c \in Windows : LifeOf(c) /\ ShownRight(c) /\ CensusRight(c)

(* What Append and Tail do to the announcements. *)
LEMMA EventAppended ==
    ASSUME ListTypes, NEW e \in EventTypes, emitted' = Append(emitted, e), NEW type, NEW c
    PROVE  /\ emitted' \in Seq(EventTypes)
           /\ Announced(type, c)' <=> Announced(type, c) \/ e = [type |-> type, id |-> c]
  <1>1. /\ emitted' \in Seq(EventTypes) /\ DOMAIN emitted' = 1..(Len(emitted) + 1)
        /\ DOMAIN emitted = 1..Len(emitted) /\ Len(emitted) \in Nat
        /\ \A i \in 1..Len(emitted) : emitted'[i] = emitted[i]
        /\ emitted'[Len(emitted) + 1] = e
    BY DEF ListTypes
  <1> QED BY <1>1 DEF Announced

LEMMA EventTaken ==
    ASSUME ListTypes, emitted # <<>>, emitted' = Tail(emitted), NEW type, NEW c
    PROVE  /\ emitted' \in Seq(EventTypes) /\ Head(emitted) \in EventTypes
           /\ Announced(type, c)' => Announced(type, c)
           /\ Announced(type, c) => Announced(type, c)' \/ Head(emitted) = [type |-> type, id |-> c]
           /\ Head(emitted) = [type |-> type, id |-> c] => Announced(type, c)
  <1>1. /\ emitted' \in Seq(EventTypes) /\ Head(emitted) = emitted[1] /\ Head(emitted) \in EventTypes
        /\ DOMAIN emitted = 1..Len(emitted) /\ Len(emitted) \in Nat \ {0}
        /\ DOMAIN emitted' = 1..(Len(emitted) - 1)
        /\ \A i \in 1..(Len(emitted) - 1) : emitted'[i] = emitted[i + 1]
    BY DEF ListTypes
  <1>2. Announced(type, c)' => Announced(type, c)
    <2>1. ASSUME NEW i \in DOMAIN emitted', emitted'[i] = [type |-> type, id |-> c]
          PROVE  Announced(type, c)
      <3>1. i + 1 \in DOMAIN emitted /\ emitted[i + 1] = [type |-> type, id |-> c]
        BY <1>1, <2>1
      <3> QED BY <3>1 DEF Announced
    <2> QED BY <2>1 DEF Announced
  <1>3. ASSUME NEW i \in DOMAIN emitted, emitted[i] = [type |-> type, id |-> c]
        PROVE  Announced(type, c)' \/ Head(emitted) = [type |-> type, id |-> c]
    <2>1. CASE i = 1
      BY <1>1, <1>3, <2>1
    <2>2. CASE i # 1
      <3>1. i - 1 \in DOMAIN emitted' /\ emitted'[i - 1] = [type |-> type, id |-> c]
        BY <1>1, <1>3, <2>2
      <3> QED BY <3>1 DEF Announced
    <2> QED BY <2>1, <2>2
  <1>4. Head(emitted) = [type |-> type, id |-> c] => Announced(type, c)
    BY <1>1 DEF Announced
  <1> QED BY <1>1, <1>2, <1>3, <1>4 DEF Announced

(* What a step does to the client it is about, and leaves of the others. *)
LEMMA HandleLaunchLists ==
    ASSUME ListInv, NEW c \in Windows, HandleLaunch(c)
    PROVE  ListInv'
  <1>1. /\ launchCall = NoLaunch /\ c \in fresh /\ fresh' = fresh \ {c}
        /\ launchCall' = [step |-> "asked", client |-> c]
        /\ UNCHANGED <<backendClients, emitted, refreshes, closedIds>>
        /\ listed' = listed \cup {c} /\ newest' = NoRefreshId
    BY DEF HandleLaunch, UpsertClient, Upserted, ListInv, LifeOf
  <1>2. ListTypes'
    BY <1>1 DEF ListInv, ListTypes, LaunchCalls
  <1>3. launchCall' # NoLaunch
    BY <1>1 DEF NoLaunch
  <1>4. ASSUME NEW d \in Windows PROVE (LifeOf(d) /\ ShownRight(d) /\ CensusRight(d))'
    BY <1>1, <1>3, RefreshesAssumption DEF ListInv, LifeOf, ShownRight, CensusRight, Launching, InLaunch, Leaving, Announced
  <1> QED BY <1>2, <1>4 DEF ListInv

LEMMA BackendLaunchLists ==
    ASSUME ListInv, BackendLaunch
    PROVE  ListInv'
  <1>1. launchCall \in LaunchCalls /\ launchCall # NoLaunch
    BY DEF BackendLaunch, ListInv, ListTypes, LaunchCalls, NoLaunch
  <1>2. PICK c \in Windows : c = launchCall.client
    BY <1>1 DEF LaunchCalls
  <1>3. /\ UNCHANGED <<emitted, listed, closedIds, newest, refreshes, fresh>>
        /\ launchCall' \in LaunchCalls /\ launchCall'.client = c
        /\ \/ launchCall.step = "asked" /\ backendClients' = backendClients \cup {c} /\ launchCall'.step = "reserved"
           \/ launchCall.step = "reserved" /\ backendClients' = backendClients /\ launchCall'.step = "ok"
           \/ launchCall.step \in {"asked", "reserved"} /\ backendClients' = backendClients \ {c}
              /\ launchCall'.step = "refused"
    BY <1>1, <1>2 DEF BackendLaunch, LaunchCalls, storeState
  <1>4. launchCall' # NoLaunch
    BY <1>3 DEF NoLaunch, LaunchCalls
  <1>5. ListTypes'
    BY <1>3 DEF ListInv, ListTypes
  <1>6. ASSUME NEW d \in Windows PROVE (LifeOf(d) /\ ShownRight(d) /\ CensusRight(d))'
    BY <1>1, <1>2, <1>3, <1>4 DEF ListInv, LifeOf, ShownRight, CensusRight, Launching, InLaunch, Leaving, Announced
  <1> QED BY <1>5, <1>6 DEF ListInv

LEMMA LaunchAnsweredLists ==
    ASSUME ListInv, LaunchAnswered
    PROVE  ListInv'
  <1>1. launchCall \in LaunchCalls /\ launchCall # NoLaunch /\ launchCall' = NoLaunch
    BY DEF LaunchAnswered, ListInv, ListTypes, LaunchCalls, NoLaunch
  <1>2. PICK c \in Windows : c = launchCall.client
    BY <1>1 DEF LaunchCalls
  <1>3. UNCHANGED <<backendClients, emitted, fresh>>
    BY DEF LaunchAnswered
  <1>4. CASE launchCall.step = "ok"
    <2>1. PICK r \in Refreshes : StartRefresh(r) /\ Upserted(c)
      BY <1>2, <1>4 DEF LaunchAnswered
    <2>2. /\ newest' = r /\ refreshes' = [refreshes EXCEPT ![r] = [step |-> "asked", ids |-> {}]]
          /\ closedIds' = closedIds /\ listed' = IF c \in closedIds THEN listed ELSE listed \cup {c}
      BY <2>1 DEF StartRefresh, Upserted
    <2>3. ListTypes' /\ refreshes'[newest'].step = "asked"
      BY <1>1, <1>3, <2>2 DEF ListInv, ListTypes, RefreshCalls
    <2>4. ASSUME NEW d \in Windows PROVE (LifeOf(d) /\ ShownRight(d) /\ CensusRight(d))'
      BY <1>1, <1>2, <1>3, <1>4, <2>2, <2>3 DEF ListInv, LifeOf, ShownRight, CensusRight, Launching, InLaunch,
         Leaving, Announced
    <2> QED BY <2>3, <2>4 DEF ListInv
  <1>5. CASE launchCall.step = "refused"
    <2>1. /\ listed' = listed \ {c} /\ newest' = NoRefreshId /\ closedIds' = closedIds \cup {c}
          /\ refreshes' = refreshes
      BY <1>2, <1>5 DEF LaunchAnswered, RemoveClient
    <2>2. ListTypes'
      BY <1>1, <1>3, <2>1 DEF ListInv, ListTypes
    <2>3. ASSUME NEW d \in Windows PROVE (LifeOf(d) /\ ShownRight(d) /\ CensusRight(d))'
      BY <1>1, <1>2, <1>3, <1>5, <2>1, RefreshesAssumption DEF ListInv, LifeOf, ShownRight, CensusRight, Launching,
         InLaunch, Leaving, Announced
    <2> QED BY <2>2, <2>3 DEF ListInv
  <1> QED BY <1>4, <1>5 DEF LaunchAnswered

LEMMA RefreshLists ==
    ASSUME ListInv, NEW r \in Refreshes, RefreshClients(r) \/ ListClients(r) \/ RefreshAnswered(r)
    PROVE  ListInv'
  <1>1. UNCHANGED <<backendClients, emitted, launchCall, closedIds, fresh>>
    BY DEF RefreshClients, ListClients, RefreshAnswered, SetClients, storeState
  <1>2. CASE RefreshClients(r)
    <2>1. /\ newest' = r /\ refreshes' = [refreshes EXCEPT ![r] = [step |-> "asked", ids |-> {}]]
          /\ listed' = listed
      BY <1>2 DEF RefreshClients, StartRefresh
    <2>2. ListTypes' /\ refreshes'[newest'].step = "asked"
      BY <1>1, <2>1 DEF ListInv, ListTypes, RefreshCalls
    <2>3. ASSUME NEW d \in Windows PROVE (LifeOf(d) /\ ShownRight(d) /\ CensusRight(d))'
      BY <1>1, <2>1, <2>2 DEF ListInv, LifeOf, ShownRight, CensusRight, Launching, InLaunch, Leaving, Announced
    <2> QED BY <2>2, <2>3 DEF ListInv
  <1>3. CASE ListClients(r)
    <2>1. refreshes[r] \in [step: {"asked", "answered"}, ids: SUBSET Windows]
      BY <1>3 DEF ListClients, ListInv, ListTypes, RefreshCalls, NoRefresh
    <2>2. /\ refreshes'[r] = [step |-> "answered", ids |-> backendClients]
          /\ \A q \in Refreshes \ {r} : refreshes'[q] = refreshes[q]
          /\ refreshes' \in [Refreshes -> RefreshCalls] /\ UNCHANGED <<listed, newest>>
      BY <1>3, <2>1 DEF ListClients, storeState, ListInv, ListTypes, RefreshCalls
    <2>3. ListTypes'
      BY <1>1, <2>2 DEF ListInv, ListTypes
    <2>4. ASSUME NEW d \in Windows PROVE (LifeOf(d) /\ ShownRight(d) /\ CensusRight(d))'
      <3>1. (LifeOf(d) /\ ShownRight(d))'
        BY <1>1, <2>2 DEF ListInv, LifeOf, ShownRight, Launching, InLaunch, Leaving, Announced
      <3>2. CASE newest = r
        <4>1. refreshes'[newest'].ids = backendClients'
          BY <1>1, <2>2, <3>2
        <4> QED BY <3>1, <4>1 DEF CensusRight
      <3>3. CASE newest # r
        <4>1. newest' \in Refreshes => newest \in Refreshes /\ refreshes'[newest'] = refreshes[newest]
          BY <2>2, <3>3
        <4>2. (Leaving(d)' <=> Leaving(d)) /\ (InLaunch(d)' <=> InLaunch(d))
          BY <1>1 DEF Leaving, Announced, Launching, InLaunch
        <4> QED BY <1>1, <3>1, <4>1, <4>2 DEF ListInv, CensusRight
      <3> QED BY <3>1, <3>2, <3>3
    <2> QED BY <2>3, <2>4 DEF ListInv
  <1>4. CASE RefreshAnswered(r)
    <2>1. /\ refreshes[r].step = "answered" /\ refreshes' = [refreshes EXCEPT ![r] = NoRefresh]
          /\ \/ newest = r /\ listed' = refreshes[r].ids \ closedIds /\ newest' = NoRefreshId
             \/ newest # r /\ UNCHANGED <<listed, newest>>
      BY <1>4 DEF RefreshAnswered, SetClients, storeState
    <2>2. refreshes[r].ids \subseteq Windows
      BY <2>1 DEF ListInv, ListTypes, RefreshCalls, NoRefresh
    <2>3. ListTypes'
      BY <1>1, <2>1, <2>2 DEF ListInv, ListTypes, RefreshCalls
    <2>4. ASSUME NEW d \in Windows PROVE (LifeOf(d) /\ ShownRight(d) /\ CensusRight(d))'
      <3>1. CASE newest = r
        BY <1>1, <2>1, <3>1, RefreshesAssumption DEF ListInv, LifeOf, ShownRight, CensusRight, Launching, InLaunch,
           Leaving, Announced
      <3>2. CASE newest # r
        <4>1. newest' \in Refreshes => refreshes'[newest'] = refreshes[newest]
          BY <2>1, <3>2 DEF ListInv, ListTypes
        <4> QED BY <1>1, <2>1, <3>2, <4>1 DEF ListInv, LifeOf, ShownRight, CensusRight, Launching, InLaunch,
               Leaving, Announced
      <3> QED BY <3>1, <3>2
    <2> QED BY <2>3, <2>4 DEF ListInv
  <1> QED BY <1>2, <1>3, <1>4

LEMMA GameEventLists ==
    ASSUME ListInv, NEW c \in Windows, GameEvent(c)
    PROVE  ListInv'
  <1>1. /\ UNCHANGED <<launchCall, listed, closedIds, newest, refreshes, fresh>>
        /\ c \in backendClients /\ ~Launching(c, {"asked", "reserved"})
    BY DEF GameEvent, Started, storeState, Launching
  <1>2. PICK e \in EventTypes :
           /\ emitted' = Append(emitted, e) /\ e.id = c
           /\ \/ e = [type |-> "game-exit", id |-> c] /\ backendClients' = backendClients \ {c}
              \/ e = [type |-> "game-client", id |-> c] /\ backendClients' = backendClients
    BY DEF GameEvent, EventTypes
  <1>3. ListTypes /\ \A d \in Windows : LifeOf(d) /\ ShownRight(d) /\ CensusRight(d)
    BY DEF ListInv
  <1>4. \A d \in Windows :
           /\ Announced("game-exit", d)' <=> Announced("game-exit", d) \/ e = [type |-> "game-exit", id |-> d]
           /\ Announced("game-client", d)' <=> Announced("game-client", d) \/ e = [type |-> "game-client", id |-> d]
    BY <1>2, <1>3, EventAppended
  <1>5. ListTypes'
    BY <1>1, <1>2, <1>3, EventAppended DEF ListTypes
  <1>6. ASSUME NEW d \in Windows PROVE (LifeOf(d) /\ ShownRight(d) /\ CensusRight(d))'
    <2>1. /\ Launching(d, {"asked", "refused"})' <=> Launching(d, {"asked", "refused"})
          /\ Launching(d, {"asked", "reserved"})' <=> Launching(d, {"asked", "reserved"})
          /\ Launching(d, {"asked", "reserved", "refused"})' <=> Launching(d, {"asked", "reserved", "refused"})
          /\ Launching(d, {"reserved"})' <=> Launching(d, {"reserved"})
          /\ (Launching(d, {"ok"})' <=> Launching(d, {"ok"})) /\ (InLaunch(d)' <=> InLaunch(d))
      BY <1>1 DEF Launching, InLaunch
    <2>2. /\ Launching(d, {"asked", "reserved", "refused"}) =>
                Launching(d, {"asked", "refused"}) \/ Launching(d, {"asked", "reserved"})
          /\ Launching(d, {"reserved"}) => Launching(d, {"asked", "reserved"})
      BY DEF Launching
    <2>3. d # c => (d \in backendClients' <=> d \in backendClients)
      BY <1>2
    <2>4. e = [type |-> "game-exit", id |-> d] => d = c /\ d \notin backendClients'
      BY <1>2
    <2>5. e = [type |-> "game-client", id |-> d] => d = c /\ d \in backendClients'
      BY <1>1, <1>2
    <2>6. d \in backendClients' => d \in backendClients
      BY <1>2
    <2>7. d \in backendClients \ backendClients' => d = c /\ Announced("game-exit", d)'
      BY <1>2, <1>4
    <2>8. LifeOf(d)'
      <3>1. LifeOf(d) /\ (d = c => d \notin fresh \cup closedIds)
        BY <1>1, <1>3 DEF LifeOf
      <3>2. CASE d # c
        BY <1>1, <1>4, <2>1, <2>3, <2>4, <2>5, <3>1, <3>2 DEF LifeOf
      <3>3. CASE d = c
        BY <1>1, <1>4, <2>1, <2>2, <2>4, <2>5, <2>6, <2>7, <3>1, <3>3 DEF LifeOf
      <3> QED BY <3>2, <3>3
    <2>9. (ShownRight(d) /\ CensusRight(d))'
      BY <1>1, <1>3, <1>4, <2>1, <2>6, <2>7 DEF ShownRight, CensusRight, Leaving
    <2> QED BY <2>8, <2>9
  <1> QED BY <1>5, <1>6 DEF ListInv

LEMMA EventArrivesLists ==
    ASSUME ListInv, EventArrives
    PROVE  ListInv'
  <1>1. /\ emitted # <<>> /\ emitted' = Tail(emitted)
        /\ UNCHANGED <<backendClients, launchCall, refreshes, fresh>>
    BY DEF EventArrives
  <1>2. ListTypes /\ \A d \in Windows : LifeOf(d) /\ ShownRight(d) /\ CensusRight(d)
    BY DEF ListInv
  <1>3. Head(emitted) \in EventTypes /\ emitted' \in Seq(EventTypes)
    BY <1>1, <1>2, EventTaken
  <1>4. PICK c \in Windows : c = Head(emitted).id
    BY <1>3 DEF EventTypes
  <1>5. \/ /\ Head(emitted) = [type |-> "game-exit", id |-> c]
           /\ listed' = listed \ {c} /\ newest' = NoRefreshId /\ closedIds' = closedIds \cup {c}
        \/ /\ Head(emitted) = [type |-> "game-client", id |-> c] /\ c \in closedIds
           /\ UNCHANGED <<listed, newest, closedIds>>
        \/ /\ Head(emitted) = [type |-> "game-client", id |-> c] /\ c \notin closedIds
           /\ listed' = listed \cup {c} /\ newest' = NoRefreshId /\ UNCHANGED closedIds
    BY <1>3, <1>4 DEF EventArrives, EventTypes, RemoveClient, UpsertClient, Upserted
  <1>6. ListTypes'
    BY <1>1, <1>2, <1>3, <1>5 DEF ListTypes
  <1>7. ASSUME NEW type, NEW d
        PROVE  /\ Announced(type, d)' => Announced(type, d)
               /\ Announced(type, d) => Announced(type, d)' \/ Head(emitted) = [type |-> type, id |-> d]
               /\ Head(emitted) = [type |-> type, id |-> d] => Announced(type, d)
    BY <1>1, <1>2, EventTaken
  <1>8. ASSUME NEW d \in Windows PROVE (LifeOf(d) /\ ShownRight(d) /\ CensusRight(d))'
    <2>1. /\ Announced("game-exit", d)' => Announced("game-exit", d)
          /\ Announced("game-client", d)' => Announced("game-client", d)
          /\ Announced("game-exit", d) => Announced("game-exit", d)' \/ Head(emitted) = [type |-> "game-exit", id |-> d]
          /\ Head(emitted) = [type |-> "game-exit", id |-> c] => Announced("game-exit", c)
          /\ Head(emitted) = [type |-> "game-client", id |-> c] => Announced("game-client", c)
      BY <1>7
    <2>2. /\ Launching(d, {"asked", "refused"})' <=> Launching(d, {"asked", "refused"})
          /\ Launching(d, {"asked", "reserved"})' <=> Launching(d, {"asked", "reserved"})
          /\ Launching(d, {"asked", "reserved", "refused"})' <=> Launching(d, {"asked", "reserved", "refused"})
          /\ Launching(d, {"reserved"})' <=> Launching(d, {"reserved"})
          /\ (Launching(d, {"ok"})' <=> Launching(d, {"ok"})) /\ (InLaunch(d)' <=> InLaunch(d))
      BY <1>1 DEF Launching, InLaunch
    <2>3. Launching(d, {"asked", "reserved", "refused"}) <=>
             Launching(d, {"asked", "refused"}) \/ Launching(d, {"asked", "reserved"})
      BY DEF Launching
    <2>4. (LifeOf(d) /\ ShownRight(d))'
      BY <1>1, <1>2, <1>5, <2>1, <2>2, <2>3 DEF LifeOf, ShownRight, Leaving
    <2>5. CensusRight(d)'
      BY <1>1, <1>2, <1>5, <2>1, <2>2, <2>3, RefreshesAssumption DEF CensusRight, Leaving
    <2> QED BY <2>4, <2>5
  <1> QED BY <1>6, <1>8 DEF ListInv

LEMMA ListFrame ==
    ASSUME ListInv, (\E c \in Windows : StopClient(c)) \/ UNCHANGED launcherVars
    PROVE  ListInv'
  <1>1. /\ UNCHANGED <<backendClients, emitted, launchCall, listed, closedIds, refreshes, fresh>>
        /\ newest' \in {newest, NoRefreshId}
    BY DEF StopClient, launcherVars, storeState
  <1>2. ListTypes'
    BY <1>1 DEF ListInv, ListTypes
  <1>3. ASSUME NEW d \in Windows PROVE (LifeOf(d) /\ ShownRight(d) /\ CensusRight(d))'
    BY <1>1, RefreshesAssumption DEF ListInv, LifeOf, ShownRight, CensusRight, Launching, InLaunch, Leaving, Announced
  <1> QED BY <1>2, <1>3 DEF ListInv

LEMMA ListStep == ListInv /\ (LauncherNext \/ UNCHANGED launcherVars) => ListInv'
  BY HandleLaunchLists, BackendLaunchLists, LaunchAnsweredLists, RefreshLists, GameEventLists,
     EventArrivesLists, ListFrame DEF LauncherNext

LEMMA ListStart == LauncherInit => ListInv
  <1> SUFFICES ASSUME LauncherInit PROVE ListInv
    OBVIOUS
  <1>1. ListTypes
    BY DEF LauncherInit, ListTypes, RefreshCalls
  <1>2. \A c \in Windows : LifeOf(c) /\ ShownRight(c) /\ CensusRight(c)
    BY RefreshesAssumption DEF LauncherInit, LifeOf, ShownRight, CensusRight, Launching, InLaunch, Leaving, Announced
  <1> QED BY <1>1, <1>2 DEF ListInv

LEMMA ListTrue == ListInv => ListIsTrue
  <1> SUFFICES ASSUME ListInv, emitted = <<>>, launchCall = NoLaunch PROVE listed = backendClients
    BY DEF ListIsTrue
  <1>1. \A c \in Windows : (c \in listed) <=> (c \in backendClients)
    BY DEF ListInv, ShownRight, Leaving, Announced, Launching, InLaunch
  <1> QED BY <1>1 DEF ListInv, ListTypes

(* ------------------------------ the settings ------------------------------ *)

Docs == [runner: Runners \cup {NoRunner}, presence: BOOLEAN]
Saves == [runner: BOOLEAN, presence: BOOLEAN]
ChoiceIds == [runner: Nat, presence: Nat]
Jobs == [kind: {"runner", "migrate"}, value: Runners, id: Nat]
           \cup [kind: {"presence"}, value: BOOLEAN, id: Nat]
Loads == {NotLoading, [step |-> "migrating"]} \cup [step: {"runners"}, ids: ChoiceIds]
            \cup [step: {"asked"}, ids: ChoiceIds, pending: BOOLEAN]
            \cup [step: {"read"}, ids: ChoiceIds, pending: BOOLEAN, file: Docs]
SettingTypes ==
    /\ settingsFile \in Docs /\ chosen \in Docs /\ persisted \in Docs
    /\ saving \in Saves /\ requestIds \in ChoiceIds /\ tail \in Seq(Jobs)
    /\ writing \in [runner: Runners \cup {NoRunner}, presence: BOOLEAN, runs: BOOLEAN]
    /\ loading \in Loads /\ outOfStep \in BOOLEAN /\ settingEdits \in Nat

(* A field is being saved exactly while the write of its last choice is queued; older ones are
   before it. *)
Queue(q, kind, saves, id) ==
    /\ saves => \E i \in DOMAIN q : q[i].kind = kind /\ q[i].id = id
    /\ \A i \in DOMAIN q : q[i].kind = kind => saves /\ q[i].id <= id
    /\ \A i, j \in DOMAIN q : i < j /\ q[i].kind = kind /\ q[j].kind = kind => q[i].id < q[j].id
(* A migration is queued only by the load that waits for it; a later choice of the user is behind
   it. *)
Alone(q, migrating, id) ==
    \A i \in DOMAIN q : q[i].kind = "migrate" =>
        /\ migrating /\ \A j \in DOMAIN q : q[j].kind = "migrate" => i = j
        /\ \/ q[i].id = id
           \/ \E j \in DOMAIN q : i < j /\ q[j].kind = "runner" /\ q[j].id = id
QueueInv ==
    /\ Queue(tail, "runner", saving.runner, requestIds.runner)
    /\ Queue(tail, "presence", saving.presence, requestIds.presence)
    /\ Alone(tail, loading.step = "migrating", requestIds.runner)

(* A load that will count found nothing queued, and what it read is still in the file. *)
Loading == loading.step \in {"asked", "read"}
LoadInv ==
    Loading =>
        /\ loading.ids.runner <= requestIds.runner /\ loading.ids.presence <= requestIds.presence
        /\ ~loading.pending /\ loading.ids = requestIds =>
              tail = <<>> /\ (loading.step = "read" => loading.file = settingsFile)

(* The write that runs has the value it was asked for, and of the other field what the window
   shows, unless that is being saved as well. *)
WriteInv ==
    writing.runs =>
        /\ tail # <<>>
        /\ tail[1].kind # "presence" =>
              writing.runner = tail[1].value /\ (~saving.presence => writing.presence = chosen.presence)
        /\ tail[1].kind = "presence" =>
              writing.presence = tail[1].value /\ (~saving.runner => writing.runner = chosen.runner)

(* While the window is in step the file holds what it shows or, of a field that is being saved,
   what it will go back to. *)
FieldInv ==
    ~outOfStep =>
        /\ settingsFile.runner = IF saving.runner THEN persisted.runner ELSE chosen.runner
        /\ settingsFile.presence = IF saving.presence THEN persisted.presence ELSE chosen.presence

SettingsInv == SettingTypes /\ QueueInv /\ LoadInv /\ WriteInv /\ FieldInv

(* The queue when a write joins and when the first one leaves. *)
LEMMA QueueJoins ==
    ASSUME NEW q \in Seq(Jobs), NEW job \in Jobs, NEW kind, NEW saves \in BOOLEAN, NEW id \in Nat,
           Queue(q, kind, saves, id)
    PROVE  /\ job.kind # kind => Queue(Append(q, job), kind, saves, id)
           /\ job.kind = kind /\ job.id = id + 1 => Queue(Append(q, job), kind, TRUE, id + 1)
  <1> DEFINE p == Append(q, job)
  <1>1. /\ DOMAIN p = 1..(Len(q) + 1) /\ DOMAIN q = 1..Len(q) /\ Len(q) \in Nat
        /\ \A i \in 1..Len(q) : p[i] = q[i] /\ p[i] \in Jobs
        /\ p[Len(q) + 1] = job
    OBVIOUS
  <1>2. \A i \in DOMAIN p : p[i].id \in Nat
    BY <1>1 DEF Jobs
  <1> HIDE DEF p
  <1>3. ASSUME job.kind # kind PROVE Queue(p, kind, saves, id)
    <2>1. \A i \in DOMAIN p : p[i].kind = kind => i \in DOMAIN q /\ p[i] = q[i]
      BY <1>1, <1>3
    <2>2. \A i \in DOMAIN q : i \in DOMAIN p /\ p[i] = q[i]
      BY <1>1
    <2> QED BY <2>1, <2>2 DEF Queue
  <1>4. ASSUME job.kind = kind, job.id = id + 1 PROVE Queue(p, kind, TRUE, id + 1)
    <2>1. \E i \in DOMAIN p : p[i].kind = kind /\ p[i].id = id + 1
      BY <1>1, <1>4
    <2>2. \A i \in DOMAIN p : p[i].kind = kind => p[i].id <= id + 1
      BY <1>1, <1>2, <1>4 DEF Queue
    <2>3. ASSUME NEW i \in DOMAIN p, NEW j \in DOMAIN p, i < j, p[i].kind = kind, p[j].kind = kind
          PROVE  p[i].id < p[j].id
      <3>1. i \in DOMAIN q /\ p[i] = q[i] /\ p[i].id <= id
        BY <1>1, <2>3 DEF Queue
      <3>2. CASE j = Len(q) + 1
        BY <1>1, <1>2, <1>4, <3>1, <3>2
      <3>3. CASE j \in DOMAIN q
        BY <1>1, <2>3, <3>1, <3>3 DEF Queue
      <3> QED BY <1>1, <3>2, <3>3
    <2> QED BY <2>1, <2>2, <2>3 DEF Queue
  <1> QED BY <1>3, <1>4 DEF p

LEMMA QueueLeaves ==
    ASSUME NEW q \in Seq(Jobs), q # <<>>, NEW kind, NEW saves \in BOOLEAN, NEW id \in Nat,
           Queue(q, kind, saves, id)
    PROVE  /\ q[1].kind = kind /\ q[1].id = id => Queue(Tail(q), kind, FALSE, id)
           /\ ~(q[1].kind = kind /\ q[1].id = id) => Queue(Tail(q), kind, saves, id)
  <1> DEFINE p == Tail(q)
  <1>1. /\ DOMAIN p = 1..(Len(q) - 1) /\ DOMAIN q = 1..Len(q) /\ Len(q) \in Nat \ {0}
        /\ \A i \in 1..(Len(q) - 1) : p[i] = q[i + 1]
    OBVIOUS
  <1>2. \A i \in DOMAIN q : q[i].id \in Nat
    BY <1>1 DEF Jobs
  <1> HIDE DEF p
  <1>3. \A i \in DOMAIN p : i + 1 \in DOMAIN q /\ p[i] = q[i + 1] /\ 1 < i + 1
    BY <1>1
  <1>4. \A i, j \in DOMAIN p : i < j /\ p[i].kind = kind /\ p[j].kind = kind => p[i].id < p[j].id
    BY <1>1, <1>3 DEF Queue
  <1>5. \A i \in DOMAIN p : p[i].kind = kind => saves /\ p[i].id <= id
    BY <1>3 DEF Queue
  <1>6. ASSUME q[1].kind = kind, q[1].id = id PROVE Queue(p, kind, FALSE, id)
    <2>1. ASSUME NEW i \in DOMAIN p, p[i].kind = kind PROVE FALSE
      <3>1. q[1].id < q[i + 1].id /\ q[i + 1].id <= id
        BY <1>1, <1>3, <1>6, <2>1 DEF Queue
      <3> QED BY <1>1, <1>2, <1>3, <1>6, <2>1, <3>1
    <2> QED BY <2>1, <1>4 DEF Queue
  <1>7. ASSUME ~(q[1].kind = kind /\ q[1].id = id) PROVE Queue(p, kind, saves, id)
    <2>1. ASSUME NEW i \in DOMAIN q, q[i].kind = kind, q[i].id = id
          PROVE  \E j \in DOMAIN p : p[j].kind = kind /\ p[j].id = id
      <3>1. i - 1 \in DOMAIN p /\ p[i - 1] = q[i]
        BY <1>1, <1>7, <2>1
      <3> QED BY <2>1, <3>1
    <2>2. saves => \E j \in DOMAIN p : p[j].kind = kind /\ p[j].id = id
      BY <2>1 DEF Queue
    <2> QED BY <1>4, <1>5, <2>2 DEF Queue
  <1> QED BY <1>6, <1>7 DEF p

LEMMA MigrationJoins ==
    ASSUME NEW q \in Seq(Jobs), NEW job \in Jobs, NEW on \in BOOLEAN, NEW id \in Nat, Alone(q, on, id)
    PROVE  /\ job.kind = "presence" => Alone(Append(q, job), on, id)
           /\ job.kind = "runner" /\ job.id = id + 1 => Alone(Append(q, job), on, id + 1)
           /\ ~on /\ job.id = id => Alone(Append(q, job), TRUE, id)
  <1> DEFINE p == Append(q, job)
  <1>1. /\ DOMAIN p = 1..(Len(q) + 1) /\ DOMAIN q = 1..Len(q) /\ Len(q) \in Nat
        /\ \A i \in 1..Len(q) : p[i] = q[i]
        /\ p[Len(q) + 1] = job
    OBVIOUS
  <1> HIDE DEF p
  <1>2. \A i \in DOMAIN p : i \in DOMAIN q \/ i = Len(q) + 1
    BY <1>1
  <1>3. /\ \A i \in DOMAIN q : i \in DOMAIN p /\ i < Len(q) + 1 /\ p[i] = q[i]
        /\ Len(q) + 1 \in DOMAIN p
    BY <1>1
  <1>4. ASSUME job.kind = "presence" PROVE Alone(p, on, id)
    BY <1>1, <1>2, <1>3, <1>4 DEF Alone
  <1>5. ASSUME job.kind = "runner", job.id = id + 1 PROVE Alone(p, on, id + 1)
    BY <1>1, <1>2, <1>3, <1>5 DEF Alone
  <1>6. ASSUME ~on, job.id = id PROVE Alone(p, TRUE, id)
    BY <1>1, <1>2, <1>3, <1>6 DEF Alone
  <1> QED BY <1>4, <1>5, <1>6 DEF p

LEMMA MigrationLeaves ==
    ASSUME NEW q \in Seq(Jobs), q # <<>>, NEW on \in BOOLEAN, NEW id, Alone(q, on, id)
    PROVE  Alone(Tail(q), on, id) /\ (q[1].kind = "migrate" => on /\ Alone(Tail(q), FALSE, id))
  <1> DEFINE p == Tail(q)
  <1>1. /\ DOMAIN p = 1..(Len(q) - 1) /\ DOMAIN q = 1..Len(q) /\ Len(q) \in Nat \ {0}
        /\ \A i \in 1..(Len(q) - 1) : p[i] = q[i + 1]
    OBVIOUS
  <1> HIDE DEF p
  <1>2. /\ \A i \in DOMAIN p : i \in Nat /\ i + 1 \in DOMAIN q /\ p[i] = q[i + 1] /\ i + 1 # 1
        /\ \A i, j \in DOMAIN p : i + 1 = j + 1 => i = j
        /\ 1 \in DOMAIN q
    BY <1>1
  <1>3. ASSUME NEW i \in DOMAIN p, NEW k \in DOMAIN q, i + 1 < k
        PROVE  k - 1 \in DOMAIN p /\ i < k - 1 /\ p[k - 1] = q[k]
    BY <1>1, <1>3
  <1>4. ASSUME NEW i \in DOMAIN p, p[i].kind = "migrate"
        PROVE  /\ on /\ \A j \in DOMAIN p : p[j].kind = "migrate" => i = j
               /\ p[i].id = id \/ \E j \in DOMAIN p : i < j /\ p[j].kind = "runner" /\ p[j].id = id
    <2>1. /\ on /\ \A j \in DOMAIN q : q[j].kind = "migrate" => i + 1 = j
          /\ \/ q[i + 1].id = id
             \/ \E k \in DOMAIN q : i + 1 < k /\ q[k].kind = "runner" /\ q[k].id = id
      BY <1>2, <1>4 DEF Alone
    <2>2. \A j \in DOMAIN p : p[j].kind = "migrate" => i = j
      BY <1>2, <2>1
    <2>3. p[i].id = id \/ \E j \in DOMAIN p : i < j /\ p[j].kind = "runner" /\ p[j].id = id
      BY <1>2, <1>3, <2>1
    <2> QED BY <2>1, <2>2, <2>3
  <1>5. Alone(p, on, id)
    BY <1>4 DEF Alone
  <1>6. ASSUME q[1].kind = "migrate" PROVE on /\ Alone(p, FALSE, id)
    <2>1. on /\ \A i \in DOMAIN p : p[i].kind # "migrate"
      BY <1>2, <1>6 DEF Alone
    <2> QED BY <2>1 DEF Alone
  <1> QED BY <1>5, <1>6 DEF p

(* The types of the fields, for the steps that read them. *)
LEMMA SettingFields ==
    ASSUME SettingTypes
    PROVE  /\ saving.runner \in BOOLEAN /\ saving.presence \in BOOLEAN
           /\ requestIds.runner \in Nat /\ requestIds.presence \in Nat
           /\ chosen.runner \in Runners \cup {NoRunner} /\ chosen.presence \in BOOLEAN
           /\ persisted.runner \in Runners \cup {NoRunner} /\ persisted.presence \in BOOLEAN
           /\ settingsFile.runner \in Runners \cup {NoRunner} /\ settingsFile.presence \in BOOLEAN
           /\ writing.runner \in Runners \cup {NoRunner} /\ writing.presence \in BOOLEAN
           /\ Loading => /\ loading.ids \in ChoiceIds /\ loading.ids.runner \in Nat /\ loading.ids.presence \in Nat
                         /\ loading.pending \in BOOLEAN
           /\ settingEdits \in Nat
  <1>1. /\ saving.runner \in BOOLEAN /\ saving.presence \in BOOLEAN
        /\ requestIds.runner \in Nat /\ requestIds.presence \in Nat
    BY DEF SettingTypes, Saves, ChoiceIds
  <1>2. /\ chosen.runner \in Runners \cup {NoRunner} /\ chosen.presence \in BOOLEAN
        /\ persisted.runner \in Runners \cup {NoRunner} /\ persisted.presence \in BOOLEAN
        /\ settingsFile.runner \in Runners \cup {NoRunner} /\ settingsFile.presence \in BOOLEAN
    BY DEF SettingTypes, Docs
  <1>3. /\ writing.runner \in Runners \cup {NoRunner} /\ writing.presence \in BOOLEAN
    BY DEF SettingTypes
  <1>4. Loading => loading.ids \in ChoiceIds /\ loading.pending \in BOOLEAN
    BY DEF SettingTypes, Loads, Loading, NotLoading
  <1>5. \A ids \in ChoiceIds : ids.runner \in Nat /\ ids.presence \in Nat
    BY DEF ChoiceIds
  <1>6. settingEdits \in Nat
    BY DEF SettingTypes
  <1> QED BY <1>1, <1>2, <1>3, <1>4, <1>5, <1>6

(* A load that began before a choice of the user does not count. *)
LEMMA ChoiceOutdatesLoad ==
    ASSUME SettingsInv, UNCHANGED loading,
           requestIds' \in ChoiceIds,
           \/ requestIds'.runner = requestIds.runner + 1 /\ requestIds'.presence = requestIds.presence
           \/ requestIds'.runner = requestIds.runner /\ requestIds'.presence = requestIds.presence + 1
    PROVE  LoadInv'
  <1> SUFFICES ASSUME Loading'
               PROVE  /\ loading'.ids.runner <= requestIds'.runner
                      /\ loading'.ids.presence <= requestIds'.presence
                      /\ loading'.ids # requestIds'
    BY DEF LoadInv
  <1>1. Loading
    BY DEF Loading
  <1>2. /\ loading.ids.runner \in Nat /\ loading.ids.presence \in Nat
        /\ requestIds.runner \in Nat /\ requestIds.presence \in Nat
    BY <1>1, SettingFields DEF SettingsInv
  <1>3. loading.ids.runner <= requestIds.runner /\ loading.ids.presence <= requestIds.presence
    BY <1>1 DEF LoadInv, SettingsInv
  <1> QED BY <1>2, <1>3

LEMMA SetRunnerSettles ==
    ASSUME SettingsInv, NEW r \in Runners, SetRunner(r)
    PROVE  SettingsInv'
  <1> DEFINE job == [kind |-> "runner", value |-> r, id |-> requestIds.runner + 1]
  <1> USE SettingFields
  <1>1. SettingTypes /\ QueueInv /\ LoadInv /\ WriteInv /\ FieldInv
    BY DEF SettingsInv
  <1>2. /\ requestIds' = [requestIds EXCEPT !.runner = @ + 1] /\ saving' = [saving EXCEPT !.runner = TRUE]
        /\ persisted' = IF saving.runner THEN persisted ELSE [persisted EXCEPT !.runner = chosen.runner]
        /\ settingEdits' = settingEdits + 1 /\ UNCHANGED <<settingsFile, chosen, writing, loading, outOfStep>>
    BY DEF SetRunner, Edits
  <1>3. job \in Jobs /\ tail' = Append(tail, job)
    BY <1>1, <1>2 DEF SetRunner, Queued, SettingTypes, ChoiceIds, Jobs
  <1>4. /\ requestIds' \in ChoiceIds /\ requestIds'.runner = requestIds.runner + 1
        /\ requestIds'.presence = requestIds.presence
    BY <1>1, <1>2 DEF SettingTypes, ChoiceIds
  <1>5. saving' \in Saves /\ saving'.runner = TRUE /\ saving'.presence = saving.presence
    BY <1>1, <1>2 DEF SettingTypes, Saves
  <1>6. /\ persisted' \in Docs /\ persisted'.presence = persisted.presence
        /\ persisted'.runner = (IF saving.runner THEN persisted.runner ELSE chosen.runner)
    <2>1. CASE saving.runner
      BY <1>1, <1>2, <2>1 DEF SettingTypes
    <2>2. CASE ~saving.runner
      <3>1. persisted' = [persisted EXCEPT !.runner = chosen.runner] /\ persisted \in Docs
        BY <1>1, <1>2, <2>2 DEF SettingTypes
      <3>2. persisted' \in Docs
        BY <1>1, <3>1 DEF Docs
      <3> QED BY <1>1, <2>2, <3>1, <3>2 DEF Docs
    <2> QED BY <2>1, <2>2
  <1>7. settingEdits' \in Nat
    BY <1>1, <1>2
  <1>8. tail' \in Seq(Jobs) /\ tail' # <<>> /\ (tail # <<>> => tail'[1] = tail[1])
    BY <1>1, <1>3 DEF SettingTypes
  <1>9. SettingTypes'
    BY <1>1, <1>2, <1>4, <1>5, <1>6, <1>7, <1>8 DEF SettingTypes
  <1>10. QueueInv'
    <2>1. Queue(tail', "runner", TRUE, requestIds.runner + 1)
      BY <1>1, <1>3, QueueJoins DEF QueueInv, SettingTypes
    <2>2. Queue(tail', "presence", saving.presence, requestIds.presence)
      BY <1>1, <1>3, QueueJoins DEF QueueInv, SettingTypes
    <2>3. Alone(tail', loading.step = "migrating", requestIds.runner + 1)
      BY <1>1, <1>3, MigrationJoins DEF QueueInv, SettingTypes
    <2> QED BY <1>2, <1>4, <1>5, <2>1, <2>2, <2>3 DEF QueueInv
  <1>11. LoadInv'
    BY <1>2, <1>4, <1>7, ChoiceOutdatesLoad
  <1>12. WriteInv'
    BY <1>1, <1>2, <1>5, <1>8 DEF WriteInv
  <1>13. FieldInv'
    BY <1>1, <1>2, <1>5, <1>6 DEF FieldInv
  <1> QED BY <1>9, <1>10, <1>11, <1>12, <1>13 DEF SettingsInv

LEMMA SetPresenceSettles ==
    ASSUME SettingsInv, NEW on \in BOOLEAN, SetRichPresenceEnabled(on)
    PROVE  SettingsInv'
  <1> DEFINE job == [kind |-> "presence", value |-> on, id |-> requestIds.presence + 1]
  <1> USE SettingFields
  <1>1. SettingTypes /\ QueueInv /\ LoadInv /\ WriteInv /\ FieldInv
    BY DEF SettingsInv
  <1>2. /\ requestIds' = [requestIds EXCEPT !.presence = @ + 1] /\ saving' = [saving EXCEPT !.presence = TRUE]
        /\ persisted' = IF saving.presence THEN persisted ELSE [persisted EXCEPT !.presence = chosen.presence]
        /\ chosen' = [chosen EXCEPT !.presence = on]
        /\ settingEdits' = settingEdits + 1 /\ UNCHANGED <<settingsFile, writing, loading, outOfStep>>
    BY DEF SetRichPresenceEnabled, Edits
  <1>3. job \in Jobs /\ tail' = Append(tail, job)
    BY <1>1, <1>2 DEF SetRichPresenceEnabled, Queued, SettingTypes, ChoiceIds, Jobs
  <1>4. /\ requestIds' \in ChoiceIds /\ requestIds'.presence = requestIds.presence + 1
        /\ requestIds'.runner = requestIds.runner
    BY <1>1, <1>2 DEF SettingTypes, ChoiceIds
  <1>5. saving' \in Saves /\ saving'.presence = TRUE /\ saving'.runner = saving.runner
    BY <1>1, <1>2 DEF SettingTypes, Saves
  <1>6. /\ persisted' \in Docs /\ persisted'.runner = persisted.runner
        /\ persisted'.presence = (IF saving.presence THEN persisted.presence ELSE chosen.presence)
        /\ chosen' \in Docs /\ chosen'.runner = chosen.runner
    <2>1. chosen' \in Docs /\ chosen'.runner = chosen.runner
      BY <1>1, <1>2 DEF SettingTypes, Docs
    <2>2. CASE saving.presence
      BY <1>1, <1>2, <2>1, <2>2 DEF SettingTypes
    <2>3. CASE ~saving.presence
      <3>1. persisted' = [persisted EXCEPT !.presence = chosen.presence] /\ persisted \in Docs
        BY <1>1, <1>2, <2>3 DEF SettingTypes
      <3>2. persisted' \in Docs
        BY <1>1, <3>1 DEF Docs
      <3> QED BY <1>1, <2>1, <2>3, <3>1, <3>2 DEF Docs
    <2> QED BY <2>2, <2>3
  <1>7. settingEdits' \in Nat
    BY <1>1, <1>2
  <1>8. tail' \in Seq(Jobs) /\ tail' # <<>> /\ (tail # <<>> => tail'[1] = tail[1])
    BY <1>1, <1>3 DEF SettingTypes
  <1>9. SettingTypes'
    BY <1>1, <1>2, <1>4, <1>5, <1>6, <1>7, <1>8 DEF SettingTypes
  <1>10. QueueInv'
    <2>1. Queue(tail', "presence", TRUE, requestIds.presence + 1)
      BY <1>1, <1>3, QueueJoins DEF QueueInv, SettingTypes
    <2>2. Queue(tail', "runner", saving.runner, requestIds.runner)
      BY <1>1, <1>3, QueueJoins DEF QueueInv, SettingTypes
    <2>3. Alone(tail', loading.step = "migrating", requestIds.runner)
      BY <1>1, <1>3, MigrationJoins DEF QueueInv, SettingTypes
    <2> QED BY <1>2, <1>4, <1>5, <2>1, <2>2, <2>3 DEF QueueInv
  <1>11. LoadInv'
    BY <1>2, <1>4, <1>7, ChoiceOutdatesLoad
  <1>12. WriteInv'
    BY <1>1, <1>2, <1>5, <1>6, <1>8 DEF WriteInv
  <1>13. FieldInv'
    BY <1>1, <1>2, <1>5, <1>6 DEF FieldInv
  <1> QED BY <1>9, <1>10, <1>11, <1>12, <1>13 DEF SettingsInv

(* A write that waits or runs finds no load that will count. *)
LEMMA QueuedAfterLoad ==
    ASSUME SettingsInv, tail # <<>>
    PROVE  /\ Loading => ~(~loading.pending /\ loading.ids = requestIds)
           /\ Head(tail) = tail[1] /\ tail[1] \in Jobs
           /\ tail[1].kind = "migrate" => tail[1].id = requestIds.runner \/ saving.runner
           /\ tail[1].kind = "runner" => saving.runner
           /\ tail[1].kind = "presence" => saving.presence
  <1>1. 1 \in DOMAIN tail /\ Head(tail) = tail[1] /\ tail[1] \in Jobs
    BY DEF SettingsInv, SettingTypes
  <1>2. Loading => ~(~loading.pending /\ loading.ids = requestIds)
    BY DEF SettingsInv, LoadInv
  <1>3. /\ tail[1].kind = "migrate" => tail[1].id = requestIds.runner \/ saving.runner
        /\ tail[1].kind = "runner" => saving.runner
        /\ tail[1].kind = "presence" => saving.presence
    BY <1>1 DEF SettingsInv, QueueInv, Queue, Alone
  <1> QED BY <1>1, <1>2, <1>3

LEMMA StartWriteSettles ==
    ASSUME SettingsInv, StartWrite
    PROVE  SettingsInv'
  <1> USE SettingFields
  <1>1. SettingTypes /\ QueueInv /\ LoadInv /\ WriteInv /\ FieldInv
    BY DEF SettingsInv
  <1>2. /\ tail # <<>> /\ ~writing.runs
        /\ UNCHANGED <<settingsFile, chosen, saving, persisted, requestIds, outOfStep, settingEdits>>
    BY DEF StartWrite
  <1>3. Head(tail) = tail[1] /\ tail[1] \in Jobs
    BY <1>2, QueuedAfterLoad
  <1>4. CASE tail[1].kind = "migrate" /\ tail' = Tail(tail) /\ loading' = NotLoading /\ writing' = writing
    <2>1. SettingTypes'
      BY <1>1, <1>2, <1>4 DEF SettingTypes, Loads
    <2>2. /\ Queue(Tail(tail), "runner", saving.runner, requestIds.runner)
          /\ Queue(Tail(tail), "presence", saving.presence, requestIds.presence)
      BY <1>1, <1>2, <1>4, QueueLeaves DEF QueueInv, SettingTypes
    <2>3. Alone(Tail(tail), FALSE, requestIds.runner) /\ loading.step = "migrating"
      BY <1>1, <1>2, <1>4, MigrationLeaves DEF QueueInv, SettingTypes
    <2>4. loading'.step # "migrating" /\ ~Loading' /\ ~Loading
      BY <1>4, <2>3 DEF NotLoading, Loading
    <2>5. QueueInv'
      BY <1>2, <1>4, <2>2, <2>3, <2>4 DEF QueueInv, Alone
    <2> QED BY <1>1, <1>2, <1>4, <2>1, <2>4, <2>5 DEF SettingsInv, LoadInv, WriteInv, FieldInv
  <1>5. CASE writing' = DocumentOf(Head(tail)) /\ UNCHANGED <<tail, loading>>
    <2>1. CASE tail[1].kind # "presence"
      <3>1. tail[1].value \in Runners /\ tail[1].kind \in {"runner", "migrate"}
        BY <1>3, <2>1 DEF Jobs
      <3>2. writing' = [runner |-> tail[1].value, presence |-> chosen.presence, runs |-> TRUE]
        BY <1>3, <1>5, <3>1 DEF DocumentOf
      <3>3. writing' \in [runner: Runners \cup {NoRunner}, presence: BOOLEAN, runs: BOOLEAN]
        BY <1>1, <3>1, <3>2
      <3>4. SettingTypes'
        BY <1>1, <1>2, <1>5, <3>3 DEF SettingTypes
      <3>5. writing'.runner = tail[1].value /\ writing'.presence = chosen.presence
        BY <3>2
      <3>6. WriteInv'
        BY <1>2, <1>5, <2>1, <3>5 DEF WriteInv
      <3> QED BY <1>1, <1>2, <1>5, <3>4, <3>6 DEF SettingsInv, QueueInv, LoadInv, FieldInv, Loading
    <2>2. CASE tail[1].kind = "presence"
      <3>1. tail[1].value \in BOOLEAN
        BY <1>3, <2>2 DEF Jobs
      <3>2. writing' = [runner |-> IF saving.runner THEN persisted.runner ELSE chosen.runner,
                        presence |-> tail[1].value, runs |-> TRUE]
        BY <1>3, <1>5, <2>2 DEF DocumentOf
      <3>3. writing' \in [runner: Runners \cup {NoRunner}, presence: BOOLEAN, runs: BOOLEAN]
        BY <1>1, <3>1, <3>2
      <3>4. SettingTypes'
        BY <1>1, <1>2, <1>5, <3>3 DEF SettingTypes
      <3>5. writing'.runner = (IF saving.runner THEN persisted.runner ELSE chosen.runner) /\ writing'.presence = tail[1].value
        BY <3>2
      <3>6. WriteInv'
        BY <1>2, <1>5, <2>2, <3>5 DEF WriteInv
      <3> QED BY <1>1, <1>2, <1>5, <3>4, <3>6 DEF SettingsInv, QueueInv, LoadInv, FieldInv, Loading
    <2> QED BY <2>1, <2>2
  <1> QED BY <1>3, <1>4, <1>5 DEF StartWrite

LEMMA WriteEndsSettles ==
    ASSUME SettingsInv, NEW ok \in BOOLEAN, WriteEnds(ok)
    PROVE  SettingsInv'
  <1> USE SettingFields
  <1>1. SettingTypes /\ QueueInv /\ LoadInv /\ WriteInv /\ FieldInv
    BY DEF SettingsInv
  <1>2. /\ writing.runs /\ tail' = Tail(tail) /\ writing' = NoWrite /\ requestIds' = requestIds
        /\ persisted' = (IF ok THEN [runner |-> writing.runner, presence |-> writing.presence] ELSE persisted)
        /\ settingsFile' \in {settingsFile, [runner |-> writing.runner, presence |-> writing.presence]}
        /\ ok => settingsFile' = [runner |-> writing.runner, presence |-> writing.presence]
        /\ outOfStep' = (~ok /\ (outOfStep \/ settingsFile' # settingsFile))
        /\ settingEdits' \in {settingEdits, settingEdits + 1}
    BY DEF WriteEnds, PersistSettings, Edits
  <1>3. /\ tail # <<>>
        /\ Loading => ~(~loading.pending /\ loading.ids = requestIds)
        /\ Head(tail) = tail[1] /\ tail[1] \in Jobs
        /\ tail[1].kind = "migrate" => tail[1].id = requestIds.runner \/ saving.runner
        /\ tail[1].kind = "runner" => saving.runner
        /\ tail[1].kind = "presence" => saving.presence
    BY <1>1, <1>2, QueuedAfterLoad DEF WriteInv
  <1>4. PICK job \in Jobs : job = tail[1] /\ job = Head(tail)
    BY <1>3
  <1>5. /\ job.kind \in {"runner", "migrate"} => job.value \in Runners
        /\ job.kind = "presence" => job.value \in BOOLEAN
        /\ job.kind \in {"runner", "migrate", "presence"}
    BY DEF Jobs
  <1>6. /\ settingsFile' \in Docs /\ persisted' \in Docs /\ settingEdits' \in Nat /\ tail' \in Seq(Jobs)
        /\ writing' \in [runner: Runners \cup {NoRunner}, presence: BOOLEAN, runs: BOOLEAN] /\ ~writing'.runs
        /\ persisted'.runner = (IF ok THEN writing.runner ELSE persisted.runner)
        /\ persisted'.presence = (IF ok THEN writing.presence ELSE persisted.presence)
        /\ ok => settingsFile'.runner = writing.runner /\ settingsFile'.presence = writing.presence
        /\ outOfStep' \in BOOLEAN
        /\ ~outOfStep' /\ ~ok => ~outOfStep /\ settingsFile' = settingsFile
    <2>0. outOfStep' \in BOOLEAN /\ (~outOfStep' /\ ~ok => ~outOfStep /\ settingsFile' = settingsFile)
      BY <1>2
    <2>1. settingEdits' \in Nat /\ tail' \in Seq(Jobs)
      BY <1>1, <1>2, <1>3 DEF SettingTypes
    <2>2. /\ writing' \in [runner: Runners \cup {NoRunner}, presence: BOOLEAN, runs: BOOLEAN] /\ ~writing'.runs
      BY <1>2 DEF NoWrite
    <2>3. CASE ok
      BY <1>1, <1>2, <2>0, <2>1, <2>2, <2>3 DEF Docs
    <2>4. CASE ~ok
      <3>1. settingsFile' \in Docs /\ persisted' = persisted /\ persisted \in Docs
        BY <1>1, <1>2, <2>4 DEF SettingTypes, Docs
      <3> QED BY <2>0, <2>1, <2>2, <2>4, <3>1
    <2> QED BY <2>3, <2>4
  <1>7. /\ job.kind # "presence" =>
              writing.runner = job.value /\ (~saving.presence => writing.presence = chosen.presence)
        /\ job.kind = "presence" =>
              writing.presence = job.value /\ (~saving.runner => writing.runner = chosen.runner)
    BY <1>1, <1>2, <1>4 DEF WriteInv
  <1>8. ~outOfStep =>
            /\ settingsFile.runner = (IF saving.runner THEN persisted.runner ELSE chosen.runner)
            /\ settingsFile.presence = (IF saving.presence THEN persisted.presence ELSE chosen.presence)
    BY <1>1 DEF FieldInv
  <1>9. /\ Alone(Tail(tail), loading.step = "migrating", requestIds.runner)
        /\ job.kind = "migrate" => Alone(Tail(tail), FALSE, requestIds.runner) /\ loading.step = "migrating"
    BY <1>1, <1>3, <1>4, MigrationLeaves DEF QueueInv, SettingTypes
  <1>10. /\ job.kind = "runner" /\ job.id = requestIds.runner =>
               Queue(Tail(tail), "runner", FALSE, requestIds.runner)
         /\ ~(job.kind = "runner" /\ job.id = requestIds.runner) =>
               Queue(Tail(tail), "runner", saving.runner, requestIds.runner)
         /\ job.kind = "presence" /\ job.id = requestIds.presence =>
               Queue(Tail(tail), "presence", FALSE, requestIds.presence)
         /\ ~(job.kind = "presence" /\ job.id = requestIds.presence) =>
               Queue(Tail(tail), "presence", saving.presence, requestIds.presence)
    BY <1>1, <1>3, <1>4, QueueLeaves DEF QueueInv, SettingTypes
  (* It is enough to follow the two switches, what is shown and the load. *)
  <1>11. ASSUME chosen' \in Docs, saving' \in Saves, loading' \in Loads,
                loading' = loading \/ loading' = NotLoading,
                QueueInv', FieldInv'
         PROVE  SettingsInv'
    <2>1. SettingTypes'
      BY <1>1, <1>2, <1>6, <1>11 DEF SettingTypes
    <2>2. LoadInv'
      <3>1. ~Loading' \/ (loading' = loading /\ Loading)
        BY <1>11 DEF Loading, NotLoading
      <3>2. CASE ~Loading'
        BY <3>2 DEF LoadInv
      <3>3. CASE loading' = loading /\ Loading
        BY <1>1, <1>2, <1>3, <3>3 DEF LoadInv
      <3> QED BY <3>1, <3>2, <3>3
    <2>3. WriteInv'
      BY <1>6 DEF WriteInv
    <2> QED BY <1>11, <2>1, <2>2, <2>3 DEF SettingsInv
  <1>12. chosen \in Docs /\ saving \in Saves /\ loading \in Loads
    BY <1>1 DEF SettingTypes
  <1>13. CASE job.kind = "runner" /\ job.id = requestIds.runner
    <2>1. /\ chosen' = [chosen EXCEPT !.runner = IF ok THEN job.value ELSE persisted'.runner]
          /\ saving' = [saving EXCEPT !.runner = FALSE] /\ loading' = loading
      BY <1>4, <1>13 DEF WriteEnds
    <2>2. /\ saving' \in Saves /\ saving'.runner = FALSE /\ saving'.presence = saving.presence
      BY <1>12, <2>1 DEF Saves
    <2>3. /\ chosen' \in Docs /\ chosen'.presence = chosen.presence
          /\ chosen'.runner = (IF ok THEN job.value ELSE persisted'.runner)
      <3>1. persisted'.runner \in Runners \cup {NoRunner}
        BY <1>6 DEF Docs
      <3> QED BY <1>5, <1>12, <1>13, <2>1, <3>1 DEF Docs
    <2>4. QueueInv'
      BY <1>2, <1>9, <1>10, <1>13, <2>1, <2>2 DEF QueueInv
    <2>5. FieldInv'
      BY <1>1, <1>3, <1>4, <1>6, <1>7, <1>8, <1>13, <2>2, <2>3 DEF FieldInv
    <2> QED BY <1>11, <1>12, <2>1, <2>2, <2>3, <2>4, <2>5
  <1>14. CASE job.kind = "presence" /\ job.id = requestIds.presence
    <2>1. /\ chosen' = [chosen EXCEPT !.presence = IF ok THEN job.value ELSE persisted'.presence]
          /\ saving' = [saving EXCEPT !.presence = FALSE] /\ loading' = loading
      BY <1>4, <1>14 DEF WriteEnds
    <2>2. /\ saving' \in Saves /\ saving'.presence = FALSE /\ saving'.runner = saving.runner
      BY <1>12, <2>1 DEF Saves
    <2>3. /\ chosen' \in Docs /\ chosen'.runner = chosen.runner
          /\ chosen'.presence = (IF ok THEN job.value ELSE persisted'.presence)
      <3>1. persisted'.presence \in BOOLEAN
        BY <1>6 DEF Docs
      <3> QED BY <1>5, <1>12, <1>14, <2>1, <3>1 DEF Docs
    <2>4. QueueInv'
      BY <1>2, <1>9, <1>10, <1>14, <2>1, <2>2 DEF QueueInv
    <2>5. FieldInv'
      BY <1>1, <1>3, <1>4, <1>6, <1>7, <1>8, <1>14, <2>2, <2>3 DEF FieldInv
    <2> QED BY <1>11, <1>12, <2>1, <2>2, <2>3, <2>4, <2>5
  <1>15. CASE job.kind = "migrate"
    <2>1. /\ chosen' = IF ok /\ job.id = requestIds.runner THEN [chosen EXCEPT !.runner = job.value] ELSE chosen
          /\ saving' = saving /\ loading' = NotLoading
      BY <1>4, <1>15 DEF WriteEnds
    <2>2. /\ chosen' \in Docs /\ chosen'.presence = chosen.presence
          /\ chosen'.runner = (IF ok /\ job.id = requestIds.runner THEN job.value ELSE chosen.runner)
      BY <1>5, <1>12, <1>15, <2>1 DEF Docs
    <2>3. loading'.step # "migrating" /\ loading' \in Loads
      BY <2>1 DEF NotLoading, Loads
    <2>4. QueueInv'
      BY <1>2, <1>9, <1>10, <1>15, <2>1, <2>3 DEF QueueInv, Alone
    <2>5. FieldInv'
      BY <1>1, <1>3, <1>4, <1>6, <1>7, <1>8, <1>15, <2>1, <2>2 DEF FieldInv
    <2> QED BY <1>11, <1>12, <2>1, <2>2, <2>3, <2>4, <2>5
  <1>16. CASE \/ job.kind = "runner" /\ job.id # requestIds.runner
              \/ job.kind = "presence" /\ job.id # requestIds.presence
    <2>1. UNCHANGED <<chosen, saving, loading>>
      BY <1>4, <1>16 DEF WriteEnds
    <2>2. QueueInv'
      BY <1>2, <1>9, <1>10, <1>16, <2>1 DEF QueueInv
    <2>3. FieldInv'
      BY <1>1, <1>3, <1>4, <1>6, <1>7, <1>8, <1>16, <2>1 DEF FieldInv
    <2> QED BY <1>11, <1>12, <2>1, <2>2, <2>3
  <1> QED BY <1>5, <1>13, <1>14, <1>15, <1>16

(* A load sees nothing queued when it counts, and shows what the file then holds. *)
LEMMA LoadSettles ==
    ASSUME SettingsInv, LoadAgain \/ LoadFails \/ LoadReadsFile \/ LoadSettings
    PROVE  SettingsInv'
  <1> USE SettingFields
  <1>1. SettingTypes /\ QueueInv /\ LoadInv /\ WriteInv /\ FieldInv
    BY DEF SettingsInv
  <1>2. UNCHANGED <<settingsFile, saving, requestIds, tail, writing>>
    BY DEF LoadAgain, LoadFails, LoadReadsFile, LoadSettings
  <1>3. loading.step # "migrating" /\ \A i \in DOMAIN tail : tail[i].kind # "migrate"
    BY <1>1 DEF LoadAgain, LoadFails, LoadReadsFile, LoadSettings, QueueInv, Alone, NotLoading
  <1>7. CASE /\ loading' = NotLoading \/ loading' = [step |-> "runners", ids |-> requestIds]
             /\ settingEdits' = settingEdits + 1 /\ UNCHANGED <<chosen, persisted, outOfStep>>
    <2>1. loading' \in Loads /\ ~Loading' /\ loading'.step # "migrating" /\ settingEdits' \in Nat
      BY <1>1, <1>7 DEF Loads, Loading, NotLoading, SettingTypes
    <2>2. SettingTypes'
      BY <1>1, <1>2, <1>7, <2>1 DEF SettingTypes
    <2>3. QueueInv'
      BY <1>1, <1>2, <1>3 DEF QueueInv, Alone
    <2> QED BY <1>1, <1>2, <1>7, <2>1, <2>2, <2>3 DEF SettingsInv, LoadInv, WriteInv, FieldInv
  <1>4. CASE LoadAgain /\ loading'.step = "asked"
    <2>1. /\ loading = NotLoading /\ settingEdits' = settingEdits + 1
          /\ UNCHANGED <<chosen, persisted, outOfStep>>
          /\ loading' = [step |-> "asked", ids |-> requestIds, pending |-> saving.runner \/ saving.presence]
      BY <1>4 DEF LoadAgain, Edits
    <2>2. /\ loading' \in Loads /\ Loading' /\ loading'.step = "asked" /\ loading'.ids = requestIds'
          /\ loading'.pending = (saving.runner \/ saving.presence) /\ settingEdits' \in Nat
      BY <1>1, <1>2, <2>1 DEF Loads, Loading, SettingTypes
    <2>3. SettingTypes'
      BY <1>1, <1>2, <2>1, <2>2 DEF SettingTypes
    <2>4. ASSUME ~saving.runner, ~saving.presence PROVE tail = <<>>
      <3> SUFFICES ASSUME tail # <<>> PROVE FALSE
        OBVIOUS
      <3>1. 1 \in DOMAIN tail /\ tail[1] \in Jobs
        BY <1>1 DEF SettingTypes
      <3>2. tail[1].kind \in {"runner", "migrate", "presence"}
        BY <3>1 DEF Jobs
      <3> QED BY <1>1, <1>3, <2>4, <3>1, <3>2 DEF QueueInv, Queue
    <2>5. LoadInv'
      BY <1>1, <1>2, <2>2, <2>4 DEF LoadInv
    <2>6. QueueInv'
      BY <1>1, <1>2, <1>3 DEF QueueInv, Alone
    <2>7. WriteInv'
      BY <1>1, <1>2, <2>1 DEF WriteInv
    <2>8. FieldInv'
      BY <1>1, <1>2, <2>1 DEF FieldInv
    <2> QED BY <2>3, <2>5, <2>6, <2>7, <2>8 DEF SettingsInv
  <1>5. CASE LoadReadsFile
    <2>1. /\ loading.step = "asked" /\ UNCHANGED <<chosen, persisted, outOfStep, settingEdits>>
          /\ loading' = [step |-> "read", ids |-> loading.ids, pending |-> loading.pending, file |-> settingsFile]
      BY <1>5 DEF LoadReadsFile
    <2>2. Loading /\ loading.ids \in ChoiceIds /\ loading.pending \in BOOLEAN
      BY <1>1, <2>1 DEF Loading
    <2>3. /\ loading' \in Loads /\ Loading' /\ loading'.ids = loading.ids /\ loading'.pending = loading.pending
          /\ loading'.file = settingsFile'
      BY <1>1, <1>2, <2>1, <2>2 DEF Loads, Loading, SettingTypes
    <2>4. SettingTypes'
      BY <1>1, <1>2, <2>1, <2>3 DEF SettingTypes
    <2>5. LoadInv'
      BY <1>1, <1>2, <2>1, <2>2, <2>3 DEF LoadInv
    <2>6. QueueInv'
      BY <1>1, <1>2, <1>3 DEF QueueInv, Alone
    <2> QED BY <1>1, <1>2, <2>1, <2>2, <2>3, <2>4, <2>5, <2>6 DEF SettingsInv, WriteInv, FieldInv
  <1>6. CASE LoadSettings
    <2>1. /\ loading.step = "read" /\ settingEdits' = settingEdits
          /\ loading' = [step |-> "runners", ids |-> requestIds]
      BY <1>6 DEF LoadSettings
    <2>2. loading' \in Loads /\ ~Loading' /\ Loading
      BY <1>1, <2>1 DEF Loads, Loading, SettingTypes
    <2>3. QueueInv'
      BY <1>1, <1>2, <1>3 DEF QueueInv, Alone
    <2>4. LoadInv'
      BY <2>2 DEF LoadInv
    <2>5. CASE loading.pending \/ loading.ids # requestIds
      <3>1. UNCHANGED <<chosen, persisted, outOfStep>>
        BY <1>6, <2>5 DEF LoadSettings
      <3>3. SettingTypes'
        BY <1>1, <1>2, <2>1, <2>2, <3>1 DEF SettingTypes
      <3> QED BY <1>1, <1>2, <2>1, <2>3, <2>4, <3>1, <3>3 DEF SettingsInv, WriteInv, FieldInv
    <2>6. CASE ~(loading.pending \/ loading.ids # requestIds)
      <3>1. chosen' = settingsFile /\ persisted' = settingsFile /\ outOfStep' = FALSE /\ tail = <<>>
        BY <1>1, <1>6, <2>1, <2>2, <2>6 DEF LoadSettings, LoadInv
      <3>2. SettingTypes'
        BY <1>1, <1>2, <2>1, <2>2, <3>1 DEF SettingTypes
      <3>3. WriteInv' /\ FieldInv'
        BY <1>1, <1>2, <3>1 DEF WriteInv, FieldInv
      <3> QED BY <2>3, <2>4, <3>2, <3>3 DEF SettingsInv
    <2> QED BY <2>5, <2>6
  <1> QED BY <1>4, <1>5, <1>6, <1>7 DEF LoadAgain, LoadFails, Edits

LEMMA LoadRunnersSettles ==
    ASSUME SettingsInv, LoadRunners
    PROVE  SettingsInv'
  <1> USE SettingFields
  <1>1. SettingTypes /\ QueueInv /\ LoadInv /\ WriteInv /\ FieldInv
    BY DEF SettingsInv
  <1>2. /\ loading.step = "runners"
        /\ UNCHANGED <<settingsFile, chosen, saving, persisted, requestIds, writing, outOfStep,
                        settingEdits>>
    BY DEF LoadRunners
  <1>3. ~Loading /\ \A i \in DOMAIN tail : tail[i].kind # "migrate"
    BY <1>1, <1>2 DEF Loading, QueueInv, Alone
  <1>4. CASE loading' = NotLoading /\ tail' = tail
    <2>1. SettingTypes' /\ ~Loading'
      BY <1>1, <1>2, <1>4 DEF SettingTypes, Loads, Loading, NotLoading
    <2>2. QueueInv'
      BY <1>1, <1>2, <1>3, <1>4 DEF QueueInv, Alone
    <2> QED BY <1>1, <1>2, <1>3, <1>4, <2>1, <2>2 DEF SettingsInv, LoadInv, WriteInv, FieldInv
  <1>5. ASSUME NEW r \in Runners, Queued("migrate", r, loading.ids.runner), loading.ids.runner = requestIds.runner,
               loading' = [step |-> "migrating"]
        PROVE  SettingsInv'
    <2> DEFINE job == [kind |-> "migrate", value |-> r, id |-> requestIds.runner]
    <2>1. job \in Jobs /\ tail' = Append(tail, job)
      BY <1>1, <1>5 DEF Queued, Jobs
    <2>2. tail' \in Seq(Jobs) /\ tail' # <<>> /\ (tail # <<>> => tail'[1] = tail[1])
      <3>1. tail \in Seq(Jobs)
        BY <1>1 DEF SettingTypes
      <3> HIDE DEF job
      <3> QED BY <2>1, <3>1
    <2>3. SettingTypes' /\ ~Loading' /\ loading'.step = "migrating"
      BY <1>1, <1>2, <1>5, <2>2 DEF SettingTypes, Loads, Loading
    <2>4. /\ Queue(tail', "runner", saving.runner, requestIds.runner)
          /\ Queue(tail', "presence", saving.presence, requestIds.presence)
      BY <1>1, <2>1, QueueJoins DEF QueueInv, SettingTypes
    <2>5. Alone(tail', TRUE, requestIds.runner)
      <3>1. Alone(tail, FALSE, requestIds.runner)
        BY <1>3 DEF Alone
      <3> QED BY <1>1, <2>1, <3>1, MigrationJoins DEF SettingTypes
    <2>6. QueueInv'
      BY <1>2, <2>3, <2>4, <2>5 DEF QueueInv
    <2> QED BY <1>1, <1>2, <1>3, <2>2, <2>3, <2>6 DEF SettingsInv, LoadInv, WriteInv, FieldInv
  <1> QED BY <1>4, <1>5 DEF LoadRunners

LEMMA SettingsStep == SettingsInv /\ (SettingsNext \/ UNCHANGED settingsVars) => SettingsInv'
  <1>1. SettingsInv /\ UNCHANGED settingsVars => SettingsInv'
    BY DEF settingsVars, SettingsInv, SettingTypes, QueueInv, LoadInv, WriteInv, FieldInv, Loading
  <1> QED BY <1>1, SetRunnerSettles, SetPresenceSettles, StartWriteSettles, WriteEndsSettles, LoadSettles,
             LoadRunnersSettles DEF SettingsNext

LEMMA SettingsStart == SettingsInit => SettingsInv
  <1> SUFFICES ASSUME SettingsInit PROVE SettingsInv
    OBVIOUS
  <1>1. SettingTypes /\ tail = <<>> /\ saving.runner = FALSE /\ saving.presence = FALSE
    BY DEF SettingsInit, SettingTypes, Docs, Saves, ChoiceIds, Loads, NoWrite
  <1>2. QueueInv
    BY <1>1 DEF QueueInv, Queue, Alone
  <1>3. LoadInv /\ WriteInv /\ FieldInv
    BY <1>1 DEF SettingsInit, LoadInv, WriteInv, FieldInv, NoWrite
  <1> QED BY <1>1, <1>2, <1>3 DEF SettingsInv

LEMMA SettingsTrue == SettingsInv => SettingsAgree
  <1> SUFFICES ASSUME SettingsInv, tail = <<>>, ~outOfStep PROVE chosen = settingsFile
    BY DEF SettingsAgree
  <1>1. ~saving.runner /\ ~saving.presence
    BY DEF SettingsInv, QueueInv, Queue
  <1>2. chosen.runner = settingsFile.runner /\ chosen.presence = settingsFile.presence
    BY <1>1 DEF SettingsInv, FieldInv
  <1>3. \A d, e \in Docs : d.runner = e.runner /\ d.presence = e.presence => d = e
    BY DEF Docs
  <1> QED BY <1>2, <1>3 DEF SettingsInv, SettingTypes

(* WindowsAreTrue: the list of clients and the settings that the window shows agree with the
   backend once nothing is on its way (launcher.store.ts, settings.store.ts), for any number of
   clients, refreshes, choices and failed loads and writes; of the settings nothing is said
   between a write that failed with its document on disk and the next load or write that
   succeeds. *)
THEOREM WindowsAlwaysTrue == WindowSpec => []WindowsAreTrue
  <1>1. WindowInit => ListInv /\ SettingsInv
    BY ListStart, SettingsStart DEF WindowInit
  <1>2. ListInv /\ SettingsInv /\ [WindowNext]_windowVars => (ListInv /\ SettingsInv)'
    BY ListStep, SettingsStep DEF WindowNext, windowVars
  <1>3. ListInv /\ SettingsInv => WindowsAreTrue
    BY ListTrue, SettingsTrue DEF WindowsAreTrue
  <1> QED BY <1>1, <1>2, <1>3, PTL DEF WindowSpec
==============================================================================
