----------------------------- MODULE ServerTools -----------------------------
(***************************************************************************)
(* tools/server_tools: the dgVoodoo wrapper in a game directory            *)
(* (dgvoodoo.rs: backups of the user's files, snapshots, rollback and      *)
(* manifest), its status (scan.rs) and the launch of a server tool that    *)
(* must see it whole (session.rs), under the "dgvoodoo" operation guard.       *)
(* Contents are abstracted to whose they are.                              *)
(***************************************************************************)
EXTENDS Naturals, Sequences, SequencesExt

CONSTANTS
    MaxToolErrors,      \* I/O errors
    MaxToolKills,       \* kills of the launcher
    MaxToolOps,         \* installations and removals
    MaxToolLaunches,    \* tools launched
    MaxUserEdits        \* files edited or deleted by the user

(* the wrappers and the configuration the user may edit: one of each stands for
   TEMPLATE_FILES *)
Names == {"dll", "conf"}
NameOrder == <<"dll", "conf">>
NoRecord == "none"          \* of a manifest: "bare" has no backup, "kept" has one
NoManifest == [n \in Names |-> NoRecord]
NoTool == [kind |-> "none", at |-> "none", saw |-> FALSE, overrides |-> FALSE, touched |-> FALSE]

VARIABLES
    had,            \* the names the user has a file of his own for
    disk,           \* <<place, name>> -> content; places "game", "backup" and "preserved"
    manifest,
    job,            \* "none", "install", "uninstall", "rollback" or "discard"
    unvisited,      \* template files not visited
    pending,        \* writes decided for the file at hand: <<path, content>>
    records,        \* the manifest to be
    snapshots,      \* contents before the first write, newest last
    toolGuard,      \* "free", "job", or the tool that holds it: "shared", "exclusive"
    tool,           \* the server tool that is launched
    lost,           \* "no"; "killed": an operation was cut off; "cut": in a rollback that had
                    \* the edit in memory only; "redone": an installation was repeated over
                    \* one cut off; "rollback": a rollback failed and said so
    edited,         \* the user edited dgVoodoo.conf
    allowance

toolVars == <<had, disk, manifest, job, unvisited, pending, records, snapshots, toolGuard, tool,
              lost, edited, allowance>>
jobVars == <<had, manifest, job, unvisited, pending, records, snapshots>>

Paths == {"game", "backup", "preserved"} \X Names
Game(n) == <<"game", n>>
Backup(n) == <<"backup", n>>
Preserved == <<"preserved", "conf">>

ServerToolsInit ==
    /\ had \in SUBSET Names
    /\ disk = [p \in Paths |-> IF p[1] = "game" /\ p[2] \in had THEN "original" ELSE "none"]
    /\ manifest = NoManifest /\ job = "none" /\ unvisited = <<>> /\ pending = <<>>
    /\ records = NoManifest /\ snapshots = <<>> /\ toolGuard = "free" /\ tool = NoTool
    /\ lost = "no" /\ edited = FALSE
    /\ allowance = [errors |-> MaxToolErrors, kills |-> MaxToolKills, ops |-> MaxToolOps,
                    launches |-> MaxToolLaunches, edits |-> MaxUserEdits]

Pays(what) == allowance[what] > 0 /\ allowance' = [allowance EXCEPT ![what] = @ - 1]
(* record_matches_bytes: size and hash of what was installed *)
Matches(n) == disk[Game(n)] = "wrapper"
(* detect_dgvoodoo and verify_wrapper_files *)
Configured == Matches("dll") /\ disk[Game("conf")] # "none"

(* -------------------------- install and uninstall ----------------------- *)

BeginInstallFiles ==
    /\ job = "none" /\ toolGuard = "free" /\ Pays("ops")
    /\ job' = "install" /\ toolGuard' = "job" /\ unvisited' = NameOrder
    /\ pending' = <<>> /\ records' = NoManifest /\ snapshots' = <<>>
    /\ lost' = IF lost \in {"killed", "cut"} /\ manifest = NoManifest THEN "redone" ELSE lost
    /\ UNCHANGED <<had, disk, manifest, tool, edited>>
(* the decision for one template file; TRUE: it was modified and must be kept *)
Refuses(n) == manifest[n] # NoRecord /\ disk[Game(n)] # "none" /\ ~Matches(n) /\ n # "conf"
KeepsEdit(n) == manifest[n] # NoRecord /\ disk[Game(n)] # "none" /\ ~Matches(n) /\ n = "conf"
(* Mutant: a repair takes the wrapper for the user's original. *)
FileWritesBacksUpAgain(n) ==
    (IF disk[Game(n)] # "none" THEN << <<Backup(n), disk[Game(n)]>> >> ELSE <<>>)
    \o << <<Game(n), "wrapper">> >>
FileWrites(n) ==
    (IF manifest[n] = NoRecord /\ disk[Game(n)] # "none" THEN << <<Backup(n), disk[Game(n)]>> >>
                                                         ELSE <<>>)
    \o << <<Game(n), "wrapper">> >>
FileRecord(n) ==
    CASE manifest[n] # NoRecord -> manifest[n]
      [] manifest[n] = NoRecord /\ disk[Game(n)] = "none" -> "bare"
      [] OTHER -> "kept"
InstallFile ==
    /\ job = "install" /\ pending = <<>> /\ unvisited # <<>>
    /\ LET n == Head(unvisited) IN
       IF Refuses(n)
         THEN job' = "rollback" /\ UNCHANGED <<unvisited, pending, records>>
         ELSE /\ unvisited' = Tail(unvisited) /\ UNCHANGED job
              /\ pending' = IF KeepsEdit(n) THEN <<>> ELSE FileWrites(n)
              /\ records' = [records EXCEPT ![n] = FileRecord(n)]
    /\ UNCHANGED <<had, disk, manifest, snapshots, toolGuard, tool, lost, edited, allowance>>
(* snapshot_once and atomic_write_regular, or the removal of a file *)
Remembered == {snapshots[i][1] : i \in DOMAIN snapshots}
WritePending ==
    /\ job \in {"install", "uninstall"} /\ pending # <<>>
    /\ LET w == Head(pending) IN
       /\ snapshots' = IF w[1] \in Remembered THEN snapshots
                                              ELSE Append(snapshots, <<w[1], disk[w[1]]>>)
       /\ disk' = [disk EXCEPT ![w[1]] = w[2]]
    /\ pending' = Tail(pending)
    /\ UNCHANGED <<had, manifest, job, unvisited, records, toolGuard, tool, lost, edited, allowance>>
InstallCommit ==
    /\ job = "install" /\ pending = <<>> /\ unvisited = <<>>
    /\ manifest' = records /\ job' = "none" /\ toolGuard' = "free"
    /\ UNCHANGED <<had, disk, unvisited, pending, records, snapshots, tool, lost, edited, allowance>>

(* uninstall_files: everything is verified before anything changes; an edited
   configuration is preserved beside the restored original, under a name no file has
   (so what was preserved before stays).  The snapshot of the target is taken first: a
   write of what it holds stands for it. *)
UninstallWrites(n) ==
    LET restored == IF manifest[n] = "kept" THEN disk[Backup(n)] ELSE "none"
        modified == disk[Game(n)] # "none" /\ ~Matches(n)
    IN  << <<Game(n), disk[Game(n)]>> >>
        \o (IF modified /\ disk[Preserved] # "edited" THEN << <<Preserved, disk[Game(n)]>> >> ELSE <<>>)
        \o (IF restored # disk[Game(n)] THEN << <<Game(n), restored>> >> ELSE <<>>)
UninstallRefused ==
    \/ manifest = NoManifest
    \/ \E n \in Names : Refuses(n) \/ (manifest[n] = "kept" /\ disk[Backup(n)] = "none")
BeginUninstallFiles ==
    /\ job = "none" /\ toolGuard = "free" /\ ~UninstallRefused /\ Pays("ops")
    /\ job' = "uninstall" /\ toolGuard' = "job" /\ unvisited' = <<>> /\ snapshots' = <<>>
    /\ pending' = UninstallWrites("dll") \o UninstallWrites("conf")
    /\ UNCHANGED <<had, disk, manifest, records, tool, lost, edited>>
(* the manifest goes, then the backups nobody needs; their removal may fail *)
UninstallCommit ==
    /\ job = "uninstall" /\ pending = <<>> /\ manifest' = NoManifest
    /\ job' = "discard" /\ unvisited' = NameOrder
    /\ UNCHANGED <<had, disk, pending, records, snapshots, toolGuard, tool, lost, edited, allowance>>
DiscardBackup ==
    /\ job = "discard"
    /\ IF unvisited = <<>>
         THEN job' = "none" /\ toolGuard' = "free" /\ UNCHANGED <<disk, unvisited>>
         ELSE /\ unvisited' = Tail(unvisited) /\ UNCHANGED <<job, toolGuard>>
              /\ \/ disk' = [disk EXCEPT ![Backup(Head(unvisited))] = "none"]
                 \/ UNCHANGED disk
    /\ UNCHANGED <<had, manifest, pending, records, snapshots, tool, lost, edited, allowance>>

(* the first error of either: every snapshot is put back, newest first *)
WriteFailsAndRollsBack ==
    /\ job \in {"install", "uninstall"} /\ Pays("errors") /\ job' = "rollback"
    /\ UNCHANGED <<had, disk, manifest, unvisited, pending, records, snapshots, toolGuard, tool, lost, edited>>
Rollback ==
    /\ job = "rollback"
    /\ \/ /\ snapshots = <<>> /\ job' = "none" /\ toolGuard' = "free"
          /\ UNCHANGED <<disk, snapshots, lost, allowance>>
       \/ /\ snapshots # <<>> /\ snapshots' = Front(snapshots) /\ UNCHANGED <<job, toolGuard>>
          /\ \/ /\ disk' = [disk EXCEPT ![Last(snapshots)[1]] = Last(snapshots)[2]]
                /\ UNCHANGED <<lost, allowance>>
             \/ Pays("errors") /\ lost' = "rollback" /\ UNCHANGED disk
    /\ UNCHANGED <<had, manifest, unvisited, pending, records, tool, edited>>

(* ------------------------------ server tools ---------------------------- *)

LockMode(kind) == CASE kind = "patcher" -> "none" [] kind = "setup" -> "shared" [] OTHER -> "exclusive"
(* launch_tool scans, begins the runner operation, locks, and scans again *)
LaunchTool(kind) ==
    /\ tool.at = "none" /\ Pays("launches")
    /\ tool' = [NoTool EXCEPT !.kind = kind, !.at = "scanned", !.saw = Configured]
    /\ UNCHANGED <<disk, jobVars, toolGuard, lost, edited>>
AcquireToolGuard ==
    /\ tool.at = "scanned"
    /\ \/ LockMode(tool.kind) = "none" /\ tool' = [tool EXCEPT !.at = "locked"] /\ UNCHANGED toolGuard
       \/ /\ LockMode(tool.kind) # "none" /\ toolGuard = "free"
          /\ toolGuard' = LockMode(tool.kind) /\ tool' = [tool EXCEPT !.at = "locked"]
       \/ LockMode(tool.kind) # "none" /\ toolGuard # "free" /\ tool' = NoTool /\ UNCHANGED toolGuard
    /\ UNCHANGED <<disk, jobVars, lost, edited, allowance>>
Unlocked == toolGuard' = IF LockMode(tool.kind) = "none" THEN toolGuard ELSE "free"
Spawned(t) ==
    [t EXCEPT !.at = "running", !.touched = FALSE, !.overrides = t.saw /\ t.kind # "patcher"]
(* Mutant: the scan made before the lock decides. *)
RescanTrustsTheFirst ==
    /\ tool.at = "locked" /\ tool' = Spawned(tool) /\ UNCHANGED toolGuard
    /\ UNCHANGED <<disk, jobVars, lost, edited, allowance>>
Rescan ==
    /\ tool.at = "locked"
    /\ \/ Configured = tool.saw /\ tool' = Spawned(tool) /\ UNCHANGED toolGuard
       \/ Configured # tool.saw /\ tool' = NoTool /\ Unlocked
    /\ UNCHANGED <<disk, jobVars, lost, edited, allowance>>
ToolExits ==
    /\ tool.at = "running" /\ tool' = NoTool /\ Unlocked
    /\ UNCHANGED <<disk, jobVars, lost, edited, allowance>>

(* -------------------------------- faults -------------------------------- *)

(* the user edits or deletes an installed file, the control panel edits the configuration *)
UserEdits ==
    /\ Pays("edits") /\ job = "none"
    /\ \E n \in Names : \E content \in {"edited", "none"} :
           /\ Matches(n) /\ disk' = [disk EXCEPT ![Game(n)] = content]
           /\ edited' = (edited \/ (n = "conf" /\ content = "edited"))
    /\ tool' = [tool EXCEPT !.touched = TRUE]
    /\ UNCHANGED <<jobVars, toolGuard, lost>>
(* a rollback that has not put the configuration back yet; it undoes the newest write
   first, so the preserved copy goes before the file is restored *)
RollsBackConf == job = "rollback" /\ Game("conf") \in Remembered
LauncherKilled ==
    /\ Pays("kills") /\ job # "none"
    /\ job' = "none" /\ toolGuard' = "free" /\ tool' = NoTool
    /\ lost' = CASE lost \in {"no", "killed"} /\ RollsBackConf -> "cut"
                 [] lost = "no" /\ ~RollsBackConf -> "killed"
                 [] OTHER -> lost
    /\ UNCHANGED <<had, disk, manifest, unvisited, pending, records, snapshots, edited>>

ServerToolsNext ==
    \/ BeginInstallFiles \/ InstallFile \/ WritePending \/ InstallCommit
    \/ BeginUninstallFiles \/ UninstallCommit \/ DiscardBackup
    \/ WriteFailsAndRollsBack \/ Rollback
    \/ \E kind \in {"setup", "patcher", "cpl"} : LaunchTool(kind)
    \/ AcquireToolGuard \/ Rescan \/ ToolExits \/ UserEdits \/ LauncherKilled

(* ------------------------------ properties ------------------------------ *)

ServerToolsTypeOK ==
    /\ \A p \in Paths : disk[p] \in {"none", "original", "wrapper", "edited"}
    /\ manifest \in [Names -> {NoRecord, "bare", "kept"}]
    /\ job \in {"none", "install", "uninstall", "rollback", "discard"}
    /\ toolGuard \in {"free", "job", "shared", "exclusive"}

(* The user's files survive: at every point of an installation, a repair, a removal, a
   rollback or a kill the user's own file is in its place or in the backup directory, and
   a configuration the user edited is in its place, preserved, or in the snapshots of a
   rollback that runs.  Three cases are outside: a rollback that failed and was reported,
   an installation repeated over one that was cut off before its manifest, and, for the
   edit alone, a kill in that rollback before it put dgVoodoo.conf back, when the
   preserved copy may be gone already (dgvoodoo.rs:231, 570). *)
OriginalsSurvive ==
    /\ lost \in {"no", "killed", "cut"} =>
          \A n \in had : "original" \in {disk[Game(n)], disk[Backup(n)]}
    /\ edited /\ lost \in {"no", "killed"} =>
          \/ "edited" \in {disk[Game("conf")], disk[Preserved]}
          \/ job = "rollback" /\ <<Game("conf"), "edited">> \in Range(snapshots)

(* A tool that is started with the dgVoodoo overrides finds the verified wrapper whole
   for as long as it runs: the scan before the lock, an installation in between and a
   removal meanwhile cannot mix (launch_tool, OperationGuard "dgvoodoo"). *)
ToolSeesWrapper ==
    (tool.at = "running" /\ tool.overrides /\ ~tool.touched) => Configured /\ toolGuard # "job"

(* dgVoodoo is installed and removed safely beside running tools: the user's files
   survive it and a tool never runs over half a wrapper (install_files, launch_tool). *)
WrapperIsSound == OriginalsSurvive /\ ToolSeesWrapper

ServerToolsSpec == ServerToolsInit /\ [][ServerToolsNext]_toolVars
=============================================================================
