--------------------------- MODULE EnvironmentCheck ---------------------------
(***************************************************************************)
(* What the launcher says of an environment and what it then does with it: *)
(* check_dependencies of tools/deps/check.rs with environment/host.rs and  *)
(* assessment.rs, the decisions of setup and reset in commands/prefix.rs   *)
(* and prefix/setup.rs, and the validations of launch_game. The window     *)
(* asks, prepares when it may, asks again and launches (useLaunchGame.ts); *)
(* no lock covers the answer. Which directory is meant is PrefixBinding's  *)
(* subject and what a transaction leaves on disk PrefixRecovery's: here a  *)
(* prefix is what the checks can tell of it.                               *)
(***************************************************************************)
EXTENDS Naturals, FiniteSets

CONSTANTS
    Askers,         \* the buttons at work on this environment: "play" prepares it when it must
                    \* and launches, "rebuild" rebuilds or repairs it
    Runners,        \* what may be selected, see RunnerRecord
    Scopes,         \* of the prefix: "shared", "isolated", "custom"
    MaxEvents       \* bound: questions asked, changes made by the user and kills together

(* family; source: found on the machine, downloaded or imported by hand; whether a Proton has the
   VKD3D companions and DXVK; the verbs of the effective winetricks, none when there is no script. *)
RunnerRecord == [name : STRING, family : {"Proton", "Wine", "Wine716"}, source : {"external", "download", "import"},
                 vkd3d : BOOLEAN, dxvk : BOOLEAN, verbs : SUBSET {"basic", "dxvk", "webview2"}]

ASSUME AskersAssumption == Askers \subseteq {"play", "rebuild"}
(* A pinned Proton brings its VKD3D companions; "unknown" is no runner's name. *)
ASSUME RunnersAssumption ==
    /\ Runners \subseteq RunnerRecord
    /\ \A r \in Runners : r.name # "unknown" /\ (r.source = "download" /\ r.family = "Proton" => r.vkd3d)
ASSUME ScopesAssumption == Scopes \subseteq {"shared", "isolated", "custom"}

NoRecord == [form |-> "none", here |-> FALSE, runner |-> "unknown", parts |-> {}]
NoPrefix == [data |-> "none", record |-> NoRecord, has |-> {}]
NoBackup == [data |-> "absent"]

VARIABLES
    setting,    \* of the server: scope, webview2, place (the path is a plain directory)
    selected,   \* the effective runner
    installed,  \* its artifact is complete, if it is a managed one
    hostState,  \* "ok", "tools" (a tool of the preparation is missing) or "broken"
    disk,       \* the prefix: data, record (form, here, runner, parts), what it has
    pendingMark,       \* its transaction marker
    resetBackup,     \* what its reset backup holds
    game,       \* it holds an installed game
    workedBy,   \* who holds it exclusively
    request,    \* per asker: pc, what it has seen and decided
    events

prefixState == <<disk, pendingMark, resetBackup>>
surroundings == <<setting, selected, installed, hostState, game>>
checkVars == <<surroundings, prefixState, workedBy, request, events>>

NoStatus == [ready |-> FALSE, setup |-> FALSE, reset |-> FALSE, pending |-> FALSE]
NoRequest == [pc |-> "idle", host |-> "ok", seen |-> NoStatus, again |-> FALSE,
              way |-> "none", eligible |-> TRUE, fresh |-> TRUE, touched |-> FALSE]
Free == "free"

IsWine(r) == r.family # "Proton"
managed == setting.scope # "custom"

(* ------------------------------ the prefix ------------------------------- *)

(* inspect_prefix: a manifest of an unknown schema or one that does not parse counts as none, and
   its file hides the legacy marker. *)
structure_ok == disk.data = "whole"
HasManifest == disk.record.form \in {"v2", "v3"}
legacy_marker == disk.record.form = "legacy"
provisioning == ~HasManifest /\ pendingMark # "none"
configured == structure_ok /\ (HasManifest \/ (legacy_marker /\ ~provisioning))

stored_manifest_matches_runner == disk.record.runner = selected.name
manifest_matches_stored_location == managed => disk.record.here
runner_unknown == HasManifest /\ disk.record.runner = "unknown"
(* The v3 path of the selected runner: anything but its own record is foreign, unless a transaction
   is to be recovered first. *)
Eligible ==
    setting.scope = "isolated" /\ disk.data # "none" /\ pendingMark = "none" /\ resetBackup = NoBackup =>
        disk.record.form = "v3" /\ disk.record.here /\ stored_manifest_matches_runner

ensure_managed_path_safe == managed => setting.place
ensure_custom_setup_allowed == ~managed => setting.place /\ disk.data # "bare"
ensure_managed_reset_allowed ==
    /\ managed /\ setting.place
    /\ \/ disk.data = "none"
       \/ legacy_marker /\ structure_ok
       \/ HasManifest /\ disk.record.here

(* proton_vkd3d_companions_available, for the prefix and for the runner alone *)
vkd3d_ok == IsWine(selected) \/ selected.vkd3d \/ "vkd3d" \in disk.has
runner_vkd3d_ok == IsWine(selected) \/ selected.vkd3d
GraphicsComponent(r) == IF r.family = "Wine716" THEN "dxvk-2.6.2" ELSE "dxvk"
missing_runtime_components == setting.webview2 /\ "webview2" \notin disk.has

(* runtime_prefix_blockers, for an identity that was resolved before *)
NoBlockers(eligible) ==
    /\ eligible /\ ensure_managed_path_safe /\ ensure_custom_setup_allowed
    /\ IF managed THEN configured ELSE structure_ok
    /\ ~legacy_marker
    /\ HasManifest => /\ manifest_matches_stored_location /\ ~runner_unknown
                      /\ disk.record.form = "v2" => stored_manifest_matches_runner
    /\ vkd3d_ok

(* ------------------------------ the answer ------------------------------- *)

manifest_compatible ==
    IF HasManifest
    THEN /\ ~runner_unknown /\ manifest_matches_stored_location
         /\ disk.record.form = "v3" \/ stored_manifest_matches_runner
    ELSE ~managed
incompatible_manifest ==
    /\ HasManifest
    /\ \/ ~manifest_matches_stored_location
       \/ disk.record.form = "v2" /\ ~runner_unknown /\ ~stored_manifest_matches_runner
(* Mutant: the files of DXVK are believed, whoever put them there. *)
DxvkFilesAreEnough == selected.family = "Proton" \/ "dxvk" \in disk.has
dxvk_available ==
    CASE selected.family = "Proton" -> selected.dxvk
      [] selected.family = "Wine716" -> HasManifest /\ "dxvk-2.6.2" \in disk.record.parts
      [] OTHER -> (HasManifest /\ "dxvk" \in disk.record.parts) \/ (~managed /\ "dxvk" \in disk.has)
required_verbs == {"basic"} \union (IF selected.family = "Wine" THEN {"dxvk"} ELSE {})
                            \union (IF setting.webview2 THEN {"webview2"} ELSE {})
missing_verbs == required_verbs \ selected.verbs
managed_unclaimed == managed /\ disk.data # "none" /\ ~HasManifest /\ ~legacy_marker /\ ~provisioning
requires_rebuild == incompatible_manifest \/ (managed /\ (legacy_marker \/ runner_unknown))
rebuild_allowed == requires_rebuild /\ ensure_managed_reset_allowed

(* check_runtime_dependencies, for a runner that is there *)
RuntimeStatus ==
    LET prepares == missing_verbs = {} /\ runner_vkd3d_ok
    IN  [ready |-> /\ NoBlockers(Eligible) /\ ~missing_runtime_components
                   /\ IF managed THEN configured ELSE structure_ok
                   /\ manifest_compatible /\ vkd3d_ok /\ dxvk_available,
         setup |-> /\ prepares /\ ensure_managed_path_safe /\ ensure_custom_setup_allowed
                   /\ requires_rebuild => rebuild_allowed
                   /\ ~managed_unclaimed,
         reset |-> prepares /\ ensure_managed_reset_allowed,
         pending |-> FALSE]
(* managed_runtime_pending: only the location is judged *)
managed_runtime_pending ==
    LET rebuild == legacy_marker \/ (HasManifest /\ ~manifest_compatible)
        importable == selected.source # "import"
    IN  [ready |-> FALSE,
         setup |-> /\ ensure_managed_path_safe /\ ~managed_unclaimed /\ importable
                   /\ rebuild => ensure_managed_reset_allowed,
         reset |-> configured /\ ensure_managed_reset_allowed /\ importable,
         pending |-> TRUE]
Pending == selected.source # "external" /\ ~installed

(* host_checks and selected_wine716_loader_check: the tools of the preparation matter to a Wine *)
host_errors(r, h, preparation) ==
    CASE h = "broken" -> {"host"}
      [] h = "tools" /\ IsWine(r) /\ preparation -> {"tool"}
      [] OTHER -> {}
preparation_only == {"tool"}
(* Mutant: a broken host forbids the preparation only. *)
HostChecksForPreparation(status, errors) ==
    [status EXCEPT !.setup = @ /\ errors = {}, !.reset = @ /\ errors = {}]
(* apply_host_checks *)
apply_host_checks(status, errors) ==
    [status EXCEPT !.setup = @ /\ errors = {}, !.reset = @ /\ errors = {},
                   !.ready = @ /\ errors \subseteq preparation_only]
Status(h) ==
    apply_host_checks(IF Pending THEN managed_runtime_pending ELSE RuntimeStatus,
                      host_errors(selected, h, TRUE))


(* --------------------------- asking and deciding ------------------------- *)

AskerAt(a, pc) == request[a].pc = pc
(* A step of one asker; what it changes on disk the others have not seen. *)
Steps(a, r) ==
    request' = [k \in Askers |->
        IF k = a THEN r
        ELSE IF prefixState' = prefixState /\ installed' = installed THEN request[k]
        ELSE [request[k] EXCEPT !.fresh = FALSE]]
GoesOn(a, pc) == Steps(a, [request[a] EXCEPT !.pc = pc])
GivesUp(a) == Steps(a, NoRequest)
Unmoved == UNCHANGED <<surroundings, prefixState, workedBy, events>>

(* check_dependencies looks at the host first and awaits its probes. *)
Ask(a) ==
    /\ AskerAt(a, "idle") /\ events < MaxEvents /\ events' = events + 1
    /\ UNCHANGED <<surroundings, prefixState, workedBy>>
    /\ Steps(a, [NoRequest EXCEPT !.pc = "asked", !.host = hostState])
AskAgain(a) ==
    /\ AskerAt(a, "prepared") /\ Unmoved
    /\ Steps(a, [request[a] EXCEPT !.pc = "asked", !.host = hostState, !.again = TRUE])
Answer(a) ==
    /\ AskerAt(a, "asked") /\ Unmoved
    /\ Steps(a, [request[a] EXCEPT !.pc = "answered", !.seen = Status(request[a].host)])

(* prepareEnvironment of useLaunchGame.ts, and the rebuild button *)
Proceed(a) ==
    LET r == request[a] IN
    /\ AskerAt(a, "answered") /\ Unmoved
    /\ IF a = "play"
       THEN CASE r.seen.ready /\ ~r.again -> Steps(a, [r EXCEPT !.pc = "launch", !.way = "launch"])
              [] r.seen.ready /\ r.again -> GivesUp(a)
              [] ~r.seen.ready /\ r.again -> GoesOn(a, "unready")
              [] ~r.seen.ready /\ ~r.again /\ r.seen.setup -> Steps(a, [r EXCEPT !.pc = "prepare", !.way = "setup"])
              [] OTHER -> GivesUp(a)
       ELSE CASE r.seen.reset -> Steps(a, [r EXCEPT !.pc = "prepare", !.way = "reset"])
              [] ~r.seen.reset /\ r.seen.setup -> Steps(a, [r EXCEPT !.pc = "prepare", !.way = "setup"])
              [] OTHER -> GivesUp(a)
Dismiss(a) == request[a].pc \in {"refused", "unready"} /\ Unmoved /\ GivesUp(a)

(* ensure_selected_runtime and ensure_selected_runtime_for_preparation: the host again, then the
   artifact, which is downloaded or refused. *)
EnsureRuntime(a) ==
    /\ request[a].pc \in {"launch", "prepare"}
    /\ UNCHANGED <<setting, selected, hostState, game, prefixState, workedBy, events>>
    /\ IF \/ host_errors(selected, hostState, AskerAt(a, "prepare")) # {}
          \/ Pending /\ selected.source = "import"
       THEN UNCHANGED installed /\ GoesOn(a, "refused")
       ELSE \/ installed' = TRUE
               /\ GoesOn(a, IF AskerAt(a, "launch") THEN "validate" ELSE "resolve")
            \/ Pending /\ UNCHANGED installed /\ GivesUp(a)       \* the download fails

(* -------------------------------- a launch ------------------------------- *)

(* resolve_server_wine_context_with_runner fixes the identity that the later steps trust. *)
Playing == {k \in Askers : AskerAt(k, "playing")}
ValidateRuntime(a) ==
    /\ AskerAt(a, "validate") /\ Unmoved
    /\ Steps(a, [request[a] EXCEPT !.eligible = Eligible,
                    !.pc = IF NoBlockers(Eligible) /\ ~missing_runtime_components THEN "begin" ELSE "refused"])
(* RunnerOperation::begin, the shared guard and the second validation, with the DXVK of a Wine 7.16 *)
BeginLaunch(a) ==
    /\ AskerAt(a, "begin") /\ Unmoved
    /\ IF workedBy # Free THEN GivesUp(a)
       ELSE GoesOn(a, IF /\ NoBlockers(request[a].eligible)
                         /\ selected.family = "Wine716" => HasManifest /\ "dxvk-2.6.2" \in disk.record.parts
                      THEN "playing" ELSE "refused")
Plays(a) == AskerAt(a, "playing") /\ Unmoved /\ GivesUp(a)

(* ----------------------------- a preparation ----------------------------- *)

Committed == HasManifest /\ manifest_matches_stored_location
RecoveryRefuses ==
    /\ pendingMark # "none" \/ resetBackup # NoBackup
    /\ ~Committed
    /\ pendingMark = "C" \/ (pendingMark = "none" /\ disk.data # "none")
RecoveryReplaces == (pendingMark # "none" \/ resetBackup # NoBackup) /\ ~Committed /\ ~RecoveryRefuses
Restored == IF resetBackup = NoBackup THEN NoPrefix ELSE resetBackup
RecoverDisk ==
    /\ disk' = IF RecoveryReplaces THEN Restored ELSE disk
    /\ pendingMark' = "none" /\ resetBackup' = NoBackup
Busy == workedBy # Free \/ Playing # {}

(* resolve_recovered_context *)
ResolveRecoveredContext(a) ==
    /\ AskerAt(a, "resolve") /\ UNCHANGED <<surroundings, workedBy, events>>
    /\ CASE Busy -> UNCHANGED prefixState /\ GivesUp(a)
         [] ~Busy /\ RecoveryRefuses -> UNCHANGED prefixState /\ GoesOn(a, "refused")
         [] OTHER -> RecoverDisk /\ Steps(a, [request[a] EXCEPT !.pc = "decide", !.eligible = Eligible'])

(* setup_prefix_owned and reset_prefix_owned *)
validate_requirement_support == runner_vkd3d_ok /\ missing_verbs = {}
rebuild_managed ==
    /\ managed
    /\ \/ legacy_marker \/ runner_unknown
       \/ /\ HasManifest /\ disk.record.form = "v2"
          /\ \/ ~manifest_matches_stored_location
             \/ ~stored_manifest_matches_runner
             \/ GraphicsComponent(selected) \notin disk.record.parts
foreign_custom == ~managed /\ HasManifest /\ disk.record.form = "v2" /\ ~runner_unknown
                           /\ ~stored_manifest_matches_runner
RefusesSetup ==
    \/ ~ensure_managed_path_safe \/ ~ensure_custom_setup_allowed
    \/ managed /\ disk.data # "none" /\ ~HasManifest /\ ~legacy_marker
    \/ foreign_custom
Way(way) ==
    IF ~validate_requirement_support \/ (way = "setup" /\ RefusesSetup) THEN "refused"
    ELSE IF way = "setup" /\ ~rebuild_managed THEN "setup"
    ELSE IF ensure_managed_reset_allowed /\ ~game THEN "reset" ELSE "refused"
DecideWay(a) ==
    LET way == Way(request[a].way) IN
    /\ AskerAt(a, "decide") /\ Unmoved
    /\ IF way = "refused" THEN GoesOn(a, "refused")
       ELSE Steps(a, [request[a] EXCEPT !.pc = "recover", !.way = way])

(* setup_runtime_prefix and reset_runtime_prefix recover again: a setup was not decided for what
   that brings back. *)
RecoverBefore(a) ==
    /\ AskerAt(a, "recover") /\ UNCHANGED <<surroundings, workedBy, events>>
    /\ CASE Busy -> UNCHANGED prefixState /\ GivesUp(a)
         [] ~Busy /\ RecoveryRefuses -> UNCHANGED prefixState /\ GoesOn(a, "refused")
         [] OTHER -> RecoverDisk /\ GoesOn(a, IF RecoveryReplaces /\ request[a].way = "setup" THEN "refused" ELSE "work")

(* Up to the first command: the identity, the guard, and the permissions again under it. *)
MayWork(way) ==
    /\ ensure_custom_setup_allowed
    /\ managed => ensure_managed_reset_allowed /\ ~RecoveryRefuses
    /\ way = "reset" => ~game
BeginWork(a) ==
    LET r == request[a]
        transaction == r.way = "reset" \/ (managed /\ disk.data = "none")
    IN
    /\ AskerAt(a, "work") /\ UNCHANGED <<surroundings, events>>
    /\ CASE r.eligible /\ Busy -> UNCHANGED <<prefixState, workedBy>> /\ GivesUp(a)
         [] ~r.eligible \/ (~Busy /\ ~MayWork(r.way)) -> UNCHANGED <<prefixState, workedBy>> /\ GoesOn(a, "refused")
         [] r.eligible /\ ~Busy /\ MayWork(r.way) /\ RecoveryReplaces ->
               RecoverDisk /\ UNCHANGED workedBy /\ GoesOn(a, "refused")
         [] OTHER ->
            /\ workedBy' = a
            /\ IF transaction
               THEN /\ resetBackup' = IF disk.data = "none" THEN NoBackup ELSE disk
                    /\ disk' = [NoPrefix EXCEPT !.data = "bare"] /\ pendingMark' = "P"
               ELSE RecoverDisk
            /\ Steps(a, [r EXCEPT !.pc = "initialize", !.way = IF transaction THEN "transaction" ELSE "repair"])

WorkStep(a, pc, nextPc, d) ==
    /\ AskerAt(a, pc) /\ disk' = d
    /\ UNCHANGED <<surroundings, pendingMark, resetBackup, workedBy, events>>
    /\ GoesOn(a, nextPc)
(* initialize_prefix and validate_prefix_initialization *)
InitializePrefix(a) == WorkStep(a, "initialize", "graphics", [disk EXCEPT !.data = "whole"])
(* DXVK by winetricks or install_managed_dxvk; a Proton has its own *)
InstallGraphics(a) ==
    /\ selected.family = "Wine" => "dxvk" \in selected.verbs
    /\ WorkStep(a, "graphics", "components",
                IF IsWine(selected) THEN [disk EXCEPT !.has = @ \union {"dxvk"}] ELSE disk)
(* run_winetricks, install_webview2: an installer that reports success may have installed nothing *)
InstallComponents(a) ==
    /\ missing_verbs = {}
    /\ LET next == IF AskerAt(a, "components") /\ request[a].way = "transaction" THEN "revoke" ELSE "commit" IN
       \/ WorkStep(a, "components", next,
                   IF setting.webview2 THEN [disk EXCEPT !.has = @ \union {"webview2"}] ELSE disk)
       \/ setting.webview2 /\ WorkStep(a, "components", next, disk)
RevokeRollback(a) ==
    /\ AskerAt(a, "revoke") /\ pendingMark' = "C"
    /\ UNCHANGED <<surroundings, disk, resetBackup, workedBy, events>> /\ GoesOn(a, "commit")
(* write_runtime_manifest *)
WriteRuntimeManifest(a) ==
    WorkStep(a, "commit", "clean",
        [disk EXCEPT !.record = [form |-> IF setting.scope = "isolated" THEN "v3" ELSE "v2", here |-> TRUE,
            runner |-> selected.name,
            parts |-> {GraphicsComponent(selected)} \union (IF setting.webview2 THEN {"webview2"} ELSE {})]])
(* A rebuild is over; a preparation for playing is followed by another question. *)
EndWork(a) ==
    /\ AskerAt(a, "clean") /\ workedBy' = Free /\ UNCHANGED <<surroundings, disk, events>>
    /\ \/ pendingMark' = "none" /\ resetBackup' = NoBackup
       \/ UNCHANGED <<pendingMark, resetBackup>>
    /\ IF a = "play" THEN GoesOn(a, "prepared") ELSE GivesUp(a)
(* A stage fails: a transaction is rolled back, a repair leaves what it did. *)
WorkFails(a) ==
    /\ request[a].pc \in {"initialize", "graphics", "components", "revoke", "commit"}
    /\ IF request[a].way = "transaction"
       THEN disk' = Restored /\ pendingMark' = "none" /\ resetBackup' = NoBackup
       ELSE UNCHANGED prefixState
    /\ workedBy' = Free /\ UNCHANGED <<surroundings, events>> /\ GivesUp(a)

(* ------------------------ the user and the launcher ---------------------- *)

Damage(d) == {NoPrefix, [d EXCEPT !.data = "bare"], [d EXCEPT !.record = [NoRecord EXCEPT !.form = "damaged"]],
              [d EXCEPT !.has = {}]}
(* External: the user changes the host, the runner's files or the prefix, at any moment. *)
Changes(a) == [request[a] EXCEPT !.fresh = FALSE, !.touched = TRUE]
UserActs ==
    /\ events < MaxEvents /\ events' = events + 1
    /\ UNCHANGED <<setting, game, resetBackup, workedBy>>
    /\ request' = [a \in Askers |-> IF AskerAt(a, "idle") THEN request[a] ELSE Changes(a)]
    /\ \/ hostState' \in {"ok", "tools", "broken"} \ {hostState} /\ UNCHANGED <<installed, selected, disk, pendingMark>>
       \/ /\ selected.source # "external" /\ installed' = ~installed
          /\ UNCHANGED <<hostState, selected, disk, pendingMark>>
       \/ /\ selected' \in {r \in Runners \ {selected} : r.name = selected.name}
          /\ UNCHANGED <<hostState, installed, disk, pendingMark>>
       \/ /\ disk.data = "whole" /\ disk' \in Damage(disk) \ {disk}
          /\ pendingMark' = IF disk' = NoPrefix THEN "none" ELSE pendingMark
          /\ UNCHANGED <<hostState, installed, selected>>
(* The launcher is killed; what it wrote stays. *)
Killed ==
    /\ events < MaxEvents /\ events' = events + 1
    /\ workedBy # Free /\ workedBy' = Free
    /\ request' = [a \in Askers |-> NoRequest]
    /\ UNCHANGED <<surroundings, prefixState>>

(* What earlier sessions, other servers and the user may have left at the path. *)
V2Record(here, runner, parts) == [form |-> "v2", here |-> here, runner |-> runner, parts |-> parts]
Records == {NoRecord, [NoRecord EXCEPT !.form = "damaged"], [NoRecord EXCEPT !.form = "legacy"],
            V2Record(FALSE, selected.name, {"dxvk"}), V2Record(TRUE, "unknown", {"dxvk"}),
            V2Record(TRUE, "another", {"dxvk"}), V2Record(TRUE, selected.name, {}),
            V2Record(TRUE, selected.name, {GraphicsComponent(selected)}),
            [form |-> "v3", here |-> TRUE, runner |-> selected.name, parts |-> {GraphicsComponent(selected)}]}
WholePrefix(record) == [data |-> "whole", record |-> record, has |-> {"dxvk", "webview2"}]
Left == {NoPrefix, [NoPrefix EXCEPT !.data = "bare"]}
        \union {WholePrefix(r) : r \in {x \in Records : setting.scope = "isolated" <=> x.form = "v3"}}
Kept == {d \in Left : d.record.form \in {"v2", "v3"} /\ d.record.here /\ d.record.runner = selected.name
                      /\ d.record.parts # {}}
CheckInit ==
    /\ setting \in [scope : Scopes, webview2 : BOOLEAN, place : {TRUE}]
    /\ selected \in Runners /\ hostState = "ok"
    /\ installed \in IF selected.source = "external" THEN {TRUE} ELSE BOOLEAN
    /\ \/ disk \in Left /\ pendingMark = "none" /\ resetBackup = NoBackup
       \/ /\ managed /\ disk = [NoPrefix EXCEPT !.data = "bare"] /\ pendingMark \in {"P", "C"}
          /\ resetBackup \in {NoBackup} \union Kept
       \/ managed /\ disk \in Kept /\ pendingMark = "C" /\ resetBackup = disk     \* committed, not cleaned up
    /\ game \in IF disk \in Kept /\ pendingMark = "none" THEN BOOLEAN ELSE {FALSE}
    /\ workedBy = Free /\ request = [a \in Askers |-> NoRequest] /\ events = 0
CheckNext ==
    \/ \E a \in Askers :
         \/ Ask(a) \/ AskAgain(a) \/ Answer(a) \/ Proceed(a) \/ Dismiss(a) \/ EnsureRuntime(a)
         \/ ValidateRuntime(a) \/ BeginLaunch(a) \/ Plays(a)
         \/ ResolveRecoveredContext(a) \/ DecideWay(a) \/ RecoverBefore(a) \/ BeginWork(a)
         \/ InitializePrefix(a) \/ InstallGraphics(a) \/ InstallComponents(a) \/ RevokeRollback(a)
         \/ WriteRuntimeManifest(a) \/ EndWork(a) \/ WorkFails(a)
    \/ UserActs \/ Killed
CheckSpec == CheckInit /\ [][CheckNext]_checkVars

(* ------------------------------- properties ------------------------------ *)

(* An environment that was called ready launches, unless something changed since: what
   check_dependencies looks at covers every refusal of launch_game. *)
ReadyIsLaunchable == \A a \in Askers : ~(AskerAt(a, "refused") /\ request[a].way = "launch" /\ request[a].fresh)

(* A preparation that was offered is not refused, unless something changed since.  The check does
   not look for an interrupted commit or an installed game, and of a runner that is still to be
   downloaded it cannot know the verbs. *)
OfferedIsPossible ==
    \A a \in Askers : AskerAt(a, "refused") /\ request[a].way # "launch" /\ request[a].fresh =>
        \/ pendingMark = "C" \/ game
        \/ request[a].seen.pending /\ (missing_verbs # {} \/ ~ensure_custom_setup_allowed)

(* What was prepared is ready, unless something changed since, an installer reported success and
   installed nothing, or the Proton has no DXVK: no preparation repeats itself. *)
PreparedIsReady ==
    \A a \in Askers : AskerAt(a, "unready") /\ request[a].fresh =>
        missing_runtime_components \/ (selected.family = "Proton" /\ ~selected.dxvk)

(* What plays was prepared for its runner, whatever the other buttons did after it was checked. *)
PlayedIsPrepared == \A a \in Playing : ~request[a].touched => NoBlockers(Eligible)

(* check_dependencies tells the truth about what setup_prefix, reset_prefix and launch_game do. *)
ChecksAreTrue == ReadyIsLaunchable /\ OfferedIsPossible /\ PreparedIsReady /\ PlayedIsPrepared
==============================================================================
