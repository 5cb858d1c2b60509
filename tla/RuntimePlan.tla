----------------------------- MODULE RuntimePlan -----------------------------
(***************************************************************************)
(* How a launch of the game or of one of its tools decides the environment *)
(* it runs in: utils/runner.rs, tools/runtime (probe.rs, resolver.rs,      *)
(* apply.rs, environment.rs, shadow.rs, compatibility.rs), launch_game of  *)
(* launcher/session.rs and launch_tool of server_tools/session.rs. The     *)
(* world may change between the reads: the user replaces a runner, dgVoodoo*)
(* is installed or removed, the prefix is prepared again. A runner is what *)
(* its files say of it, an environment the DLLs it overrides and the       *)
(* variables it sets; every runner path has its prefix.                    *)
(***************************************************************************)
EXTENDS Integers, FiniteSets

CONSTANTS
    Invocations,    \* launches of the game or of a tool
    Builds,         \* what may be found at the custom runner path
    MaxSwaps,       \* times the user replaces it
    MaxSetups,      \* times a prefix is prepared
    MaxToggles,     \* times dgVoodoo is installed or removed
    RunnerPaths,    \* the runners that may be selected: the current managed one, older managed
                    \* ones and "custom"
    LaunchTargets   \* what is launched

(* What the files of a runner say of it; of its versions only Wine 7.16 is told apart. *)
BuildRecord == [kind : {"Proton", "Wine"}, version : {"7.16", "other"}, oldWow64 : BOOLEAN,
                esync : BOOLEAN, fsync : BOOLEAN, linked : BOOLEAN]

Managed == {"current", "previous", "local", "legacy"}      \* managed_proton_id_for_path
NoRunner == "none"
AllTargets == {"Game", "LaunchPatcher", "MaintenancePatcher", "OpenSetup", "GraphicsControlPanel", "Installer"}

ASSUME BuildsAssumption == Builds \subseteq BuildRecord
ASSUME RunnerPathsAssumption == {"current", "custom"} \subseteq RunnerPaths
ASSUME LaunchTargetsAssumption == LaunchTargets \subseteq AllTargets

receives_overlay(target) == target \notin {"MaintenancePatcher", "Installer"}
DxvkDlls == {"d3d8", "d3d9", "d3d10core", "d3d11", "dxgi"}
OverlayDlls == {"d3dimm", "ddraw"}
DxvkVariables == {"DXVK_CONFIG_FILE", "DXVK_LOG_PATH", "DXVK_STATE_CACHE_PATH"}
BaseVariables == {"WINE_LARGE_ADDRESS_AWARE"}
ManagedDxvk == "dxvk-2.6.2"
NoManifest == "none"
ManagedProton == [kind |-> "Proton", version |-> "other", oldWow64 |-> FALSE,
                  esync |-> FALSE, fsync |-> FALSE, linked |-> FALSE]
NoBuild == [kind |-> "none"]
NoPlan == [provider |-> "none"]
NoEnvironment == [overrides |-> {}, variables |-> {}, sync |-> "none"]

VARIABLES
    customBuild,    \* the runner at the custom path
    spent,          \* the swaps, setups and toggles so far
    wrapperOn,      \* dgVoodoo is configured in the game directory
    component,      \* the DXVK component the manifest of each prefix records, or NoManifest
    preparedWith,   \* history: the runner the custom prefix was last prepared with
    preparing,      \* setup or rebuild of a prefix under way
    toggling,       \* dgVoodoo is being installed or removed
    invocation,     \* per launch: pc, what it has read and decided
    graphicsPlan    \* RO_LAUNCHER_RUNTIME_GRAPHICS_PLAN

worldVars == <<customBuild, spent, wrapperOn, component, preparedWith, preparing, toggling>>
planVars == <<worldVars, invocation, graphicsPlan>>

NoInvocation == [pc |-> "idle", path |-> NoRunner, build |-> NoBuild, target |-> "Game", overlay |-> FALSE,
                 scans |-> {}, plan |-> NoPlan, manifest |-> NoManifest,
                 env |-> NoEnvironment, mismatches |-> {}, swapped |-> FALSE]
NotPreparing == [pc |-> "idle", path |-> NoRunner, build |-> NoBuild, provision |-> "none"]

PlanInit ==
    /\ customBuild \in Builds /\ spent = [swaps |-> 0, setups |-> 0, toggles |-> 0] /\ wrapperOn \in BOOLEAN
    /\ component \in {c \in [RunnerPaths -> {NoManifest, "dxvk", ManagedDxvk}] :
                        \A p \in RunnerPaths \ {"custom"} : c[p] = "dxvk"}
    /\ preparedWith = NoBuild /\ preparing = NotPreparing /\ toggling = FALSE
    /\ invocation = [i \in Invocations |-> NoInvocation]
    /\ graphicsPlan \in BOOLEAN

(* --------------------------- runner and probe --------------------------- *)

BuildAt(path) == IF path = "custom" THEN customBuild ELSE ManagedProton
(* select_effective_runner, resolve_effective_runner *)
Selected(server, default) ==
    CASE server # NoRunner -> server [] server = NoRunner /\ default # NoRunner -> default [] OTHER -> "current"
is_wine_7_16(build) == build.kind = "Wine" /\ build.version = "7.16"
SyncOf(esync, fsync) == IF fsync THEN "Fsync" ELSE IF esync THEN "Esync" ELSE "WineServer"
(* The configuration beside the path as given: behind a link it is not found. *)
wine_sync_mode(build) ==
    IF build.kind = "Proton" \/ build.linked THEN "WineServer" ELSE SyncOf(build.esync, build.fsync)
(* The probe follows the link: wine_root. *)
wine_sync_declarations(build) == {d \in {"esync", "fsync"} : build[d]}
probe_layout(build) == build.kind = "Wine" /\ build.oldWow64
probe_runner(path, build) ==
    [kind |-> build.kind, version |-> build.version, old |-> probe_layout(build),
     support |-> IF build.kind = "Proton" THEN {"runner"} ELSE wine_sync_declarations(build),
     sync |-> IF build.kind = "Proton" THEN "RunnerManaged" ELSE SyncOf(build.esync, build.fsync),
     artifact |-> IF path \in Managed /\ build.kind = "Proton" THEN path ELSE "external"]

(* ------------------------------- the plan ------------------------------- *)

profile_from_legacy(path, build, overlay) ==
    [artifact |-> IF path \in Managed /\ build.kind = "Proton" THEN path ELSE "external",
     graphics |-> IF overlay THEN "DgVoodooDxvk" ELSE "Dxvk"]
validate_runner_request(profile, build, probe) ==
    probe.kind = build.kind /\ probe.artifact = profile.artifact
validate_capabilities(kind, probe) ==
    probe.sync = CASE kind = "Proton" -> "RunnerManaged"
                   [] kind = "Wine" /\ "fsync" \in probe.support -> "Fsync"
                   [] kind = "Wine" /\ "fsync" \notin probe.support /\ "esync" \in probe.support -> "Esync"
                   [] OTHER -> "WineServer"
resolve_dxvk_provider(probe) ==
    CASE probe.kind = "Proton" -> "runner-owned"
      [] probe.kind = "Wine" /\ probe.version = "7.16" -> "managed-prefix"
      [] OTHER -> "winetricks-prefix"
resolve_runtime(path, build, overlay) ==
    LET probe == probe_runner(path, build)
        profile == profile_from_legacy(path, build, overlay)
    IN  IF validate_runner_request(profile, build, probe) /\ validate_capabilities(build.kind, probe)
        THEN [provider |-> resolve_dxvk_provider(probe),
              overlay |-> profile.graphics = "DgVoodooDxvk", sync |-> probe.sync]
        ELSE NoPlan
(* DxvkProvision::for_runner, and provision_kind of a provider *)
for_runner(build) ==
    CASE build.kind = "Proton" -> "runner-owned" [] is_wine_7_16(build) -> "managed-prefix"
      [] OTHER -> "winetricks-prefix"
manifest_component(provider) == IF provider = "managed-prefix" THEN ManagedDxvk ELSE "dxvk"

(* ----------------------------- environments ----------------------------- *)

(* A DLL or a variable may be claimed by one owner only. *)
Clash(a, b) == a.overrides \intersect b.overrides # {} \/ a.variables \intersect b.variables # {}
merge(a, b) == [overrides |-> a.overrides \union b.overrides, variables |-> a.variables \union b.variables]
NoContribution == [overrides |-> {}, variables |-> {}]
runtime_base_environment == [overrides |-> {}, variables |-> BaseVariables]
dxvk_environment(provider) ==
    IF provider = "managed-prefix" THEN [overrides |-> DxvkDlls, variables |-> DxvkVariables] ELSE NoContribution
dgvoodoo_environment(plan, target) ==
    IF plan.overlay /\ receives_overlay(target) THEN [overrides |-> OverlayDlls, variables |-> {}] ELSE NoContribution
environment_for(plan, target) ==
    merge(merge(runtime_base_environment, dxvk_environment(plan.provider)), dgvoodoo_environment(plan, target))
(* apply_game_env and apply_tool_env, used when the plan is switched off *)
apply_game_env(overlay, managed) ==
    [overrides |-> CASE managed /\ overlay -> DxvkDlls \union OverlayDlls
                     [] managed /\ ~overlay -> DxvkDlls
                     [] ~managed /\ overlay -> OverlayDlls
                     [] OTHER -> {},
     variables |-> IF managed THEN BaseVariables \union DxvkVariables ELSE BaseVariables]
(* The command before the graphics: apply_wine_env *)
game_invocation(build) == [overrides |-> {}, variables |-> {}, sync |-> wine_sync_mode(build)]
(* apply_graphics_environment_to_invocation refuses a command that already sets a guarded key
   to something else. *)
Applies(command, graphics) ==
    /\ command.overrides \in {{}, graphics.overrides}
    /\ command.variables \subseteq graphics.variables
apply_graphics_environment(command, graphics) ==
    [command EXCEPT !.overrides = graphics.overrides, !.variables = @ \union graphics.variables]

(* The old path reads the version and the configuration of the runner again. *)
capture_legacy_runtime(now, overlay) ==
    [provider |-> for_runner(now), overlay |-> overlay,
     sync |-> IF now.kind = "Proton" THEN "RunnerManaged" ELSE wine_sync_mode(now),
     environments |-> [target \in AllTargets |->
        apply_game_env(overlay /\ receives_overlay(target), for_runner(now) = "managed-prefix")]]
(* The categories in which the plan and the old path differ. *)
compare_shadow(legacy, plan) ==
    {c \in {"sync-plan", "dxvk-provider", "dgvoodoo-state", "environment"} :
        CASE c = "sync-plan" -> plan.sync # legacy.sync
          [] c = "dxvk-provider" -> plan.provider # legacy.provider
          [] c = "dgvoodoo-state" -> plan.overlay # legacy.overlay
          [] OTHER -> \E target \in AllTargets :
                         environment_for(plan, target) # legacy.environments[target]}
(* Without a scan there is nothing to compare. *)
observe_legacy_runtime(r, now) ==
    IF "first" \in r.scans
    THEN compare_shadow(capture_legacy_runtime(now, r.overlay), resolve_runtime(r.path, r.build, r.overlay))
    ELSE {}

(* ---------------------------- compatibility ----------------------------- *)

(* shipped_compatibility_records: the game's protection build and the runtime it was validated on *)
CompatibilityRecords == {[hash |-> "honey", runtime |-> "ManagedProtonCachyos11"],
             [hash |-> "sakura", runtime |-> "Wine716OldWow64ManagedDxvk"],
             [hash |-> "honey", runtime |-> "ManagedNndskRoProton"]}
observed_runtime_spec(path, plan, probe) ==
    CASE path \in Managed /\ probe.artifact # path -> "none"
      [] path \in {"previous", "local"} /\ probe.artifact = path -> "ManagedNndskRoProton"
      [] path = "legacy" /\ probe.artifact = path -> "ManagedProtonCachyos11"
      [] path = "custom" /\ probe.version = "7.16" /\ probe.old /\ plan.provider = "managed-prefix"
            -> "Wine716OldWow64ManagedDxvk"
      [] OTHER -> "none"
(* assess_compatibility: Validated by the evidence for the runtime that was observed *)
Validated(hash, path, build, overlay) ==
    LET plan == resolve_runtime(path, build, overlay)
    IN  /\ plan # NoPlan
        /\ [hash |-> hash, runtime |-> observed_runtime_spec(path, plan, probe_runner(path, build))] \in CompatibilityRecords

(* ------------------------------ the guards ------------------------------ *)

Holding(stages) == {i \in Invocations : invocation[i].pc \in stages}
HaveWrapper == Holding({"locked", "rechecked", "running"})
HavePrefix == Holding({"prefix", "locked", "rechecked", "running"})
Games == {"Game", "LaunchPatcher"}
(* A game shares its prefix, a tool has it to itself. *)
PrefixMode(target) == IF target \in Games THEN "shared" ELSE "exclusive"
(* dgvoodoo_lock_mode *)
WrapperMode(target) ==
    CASE target \in Games \union {"OpenSetup"} -> "shared"
      [] target = "GraphicsControlPanel" -> "exclusive"
      [] OTHER -> "none"
Admits(mode, held) ==
    CASE mode = "shared" -> "exclusive" \notin held
      [] mode = "exclusive" -> held \intersect {"shared", "exclusive"} = {}
      [] OTHER -> TRUE
HeldOnPrefix(path) ==
    {PrefixMode(invocation[i].target) : i \in {j \in HavePrefix : invocation[j].path = path}}
    \union IF preparing.pc = "locked" /\ preparing.path = path THEN {"exclusive"} ELSE {}
HeldOnWrapper ==
    {WrapperMode(invocation[i].target) : i \in HaveWrapper}
    \union IF toggling THEN {"exclusive"} ELSE {}

(* ------------------------------- a launch ------------------------------- *)

Moves(i, stage, changed) ==
    /\ invocation' = [invocation EXCEPT ![i] = [changed EXCEPT !.pc = stage]]
    /\ UNCHANGED <<worldVars, graphicsPlan>>
(* The context: the runner is probed once; a game validates its prefix. *)
ResolveContext(i) ==
    /\ invocation[i].pc = "idle"
    /\ \E server, default \in RunnerPaths \union {NoRunner}, target \in LaunchTargets :
          LET path == Selected(server, default)
          IN  /\ target \in Games => component[path] # NoManifest
              /\ Moves(i, "resolved", [invocation[i] EXCEPT !.path = path, !.build = BuildAt(path),
                                                           !.target = target])
(* scan_status; a game whose scan fails goes on as if nothing were configured *)
Scanned(i, which) ==
    {[invocation[i] EXCEPT !.overlay = seen, !.scans = @ \union {which}] :
        seen \in IF toggling THEN BOOLEAN ELSE {wrapperOn}}
    \union {r \in {[invocation[i] EXCEPT !.overlay = FALSE]} : r.target \in Games}
ScanAndPlan(i) ==
    /\ invocation[i].pc = "resolved"
    /\ \E r \in Scanned(i, "first") :
          Moves(i, "planned", [r EXCEPT !.plan = resolve_runtime(r.path, r.build, r.overlay)])
(* RunnerOperation::begin was awaited in between. *)
LockPrefix(i) ==
    /\ invocation[i].pc = "planned"
    /\ Admits(PrefixMode(invocation[i].target), HeldOnPrefix(invocation[i].path))
    /\ Moves(i, "prefix", invocation[i])
LockWrapper(i) ==
    /\ invocation[i].pc = "prefix"
    /\ Admits(WrapperMode(invocation[i].target), HeldOnWrapper)
    /\ Moves(i, "locked", invocation[i])
(* Mutant: what was scanned before the guards is taken as it was. *)
RecheckTrustsTheFirst(i) ==
    /\ invocation[i].pc = "locked"
    /\ component[invocation[i].path] # NoManifest
    /\ Moves(i, "rechecked", [invocation[i] EXCEPT !.manifest = component[invocation[i].path],
                                                   !.scans = @ \union {"locked"}])
(* Under both guards: the scan again, which must agree, and validate_runtime_prefix. *)
Recheck(i) ==
    /\ invocation[i].pc = "locked"
    /\ component[invocation[i].path] # NoManifest
    /\ \E r \in Scanned(i, "locked") :
          /\ r.overlay = invocation[i].overlay
          /\ Moves(i, "rechecked", [r EXCEPT !.manifest = component[r.path]])
(* Mutant: the plan is used without looking at the manifest. *)
LacksDxvkUnchecked(i, managed) == FALSE
(* "no registra DXVK 2.6.2" *)
LacksDxvk(i, managed) == managed /\ invocation[i].manifest # ManagedDxvk
(* What the launch adds to its command: the plan, or the old path when it is switched off *)
GraphicsOf(r, managed) ==
    IF graphicsPlan THEN environment_for(r.plan, r.target)
    ELSE apply_game_env(r.overlay /\ receives_overlay(r.target), managed)
(* The version is read again, the two paths are compared, the process is spawned. *)
Spawn(i) ==
    /\ invocation[i].pc = "rechecked"
    /\ LET r == invocation[i]
           now == BuildAt(r.path)
           managed == IF graphicsPlan THEN r.plan.provider = "managed-prefix" ELSE is_wine_7_16(now)
           command == game_invocation(now)
           graphics == GraphicsOf(r, managed)
       IN  /\ graphicsPlan => r.plan # NoPlan /\ Applies(command, graphics)
           /\ \/ LacksDxvk(i, managed) /\ Moves(i, "refused", r)
              \/ /\ ~LacksDxvk(i, managed)
                 /\ Moves(i, "running", [r EXCEPT !.env = apply_graphics_environment(command, graphics),
                                                 !.mismatches = observe_legacy_runtime(r, now)])
Ends(i) ==
    /\ invocation[i].pc = "running"
    /\ Moves(i, "over", NoInvocation)
(* A guard is taken, a scan differs, the prefix is not valid, an await fails, the user stops it. *)
Fails(i) ==
    /\ invocation[i].pc \in {"resolved", "planned", "prefix", "locked", "rechecked"}
    /\ Moves(i, "over", NoInvocation)

(* ------------------------------- the world ------------------------------ *)

ReplaceRunner ==
    /\ spent.swaps < MaxSwaps /\ spent' = [spent EXCEPT !.swaps = @ + 1]
    /\ customBuild' \in Builds \ {customBuild}
    /\ invocation' = [i \in Invocations |-> IF invocation[i].path = "custom"
                                            THEN [invocation[i] EXCEPT !.swapped = TRUE] ELSE invocation[i]]
    /\ UNCHANGED <<wrapperOn, component, preparedWith, preparing, toggling, graphicsPlan>>
(* install_files and uninstall_files, under the exclusive guard of the game directory *)
ToggleBegins ==
    /\ spent.toggles < MaxToggles /\ spent' = [spent EXCEPT !.toggles = @ + 1]
    /\ Admits("exclusive", HeldOnWrapper) /\ toggling' = TRUE
    /\ UNCHANGED <<customBuild, wrapperOn, component, preparedWith, preparing, invocation, graphicsPlan>>
ToggleEnds ==
    /\ toggling /\ toggling' = FALSE /\ wrapperOn' \in BOOLEAN
    /\ UNCHANGED <<customBuild, spent, component, preparedWith, preparing, invocation, graphicsPlan>>
(* from the plan, or from the runner when it is switched off *)
runtime_requirements(path) ==
    IF graphicsPlan THEN resolve_runtime(path, BuildAt(path), FALSE).provider ELSE for_runner(BuildAt(path))
SetupReads(path) ==
    /\ spent.setups < MaxSetups /\ spent' = [spent EXCEPT !.setups = @ + 1]
    /\ preparing.pc = "idle"
    /\ preparing' = [pc |-> "read", path |-> path, build |-> BuildAt(path),
                     provision |-> runtime_requirements(path)]
    /\ preparedWith' = IF path = "custom" THEN NoBuild ELSE preparedWith
    /\ UNCHANGED <<customBuild, wrapperOn, component, toggling, invocation, graphicsPlan>>
SetupLocks ==
    /\ preparing.pc = "read"
    /\ Admits("exclusive", HeldOnPrefix(preparing.path))
    /\ preparing' = [preparing EXCEPT !.pc = "locked"]
    /\ UNCHANGED <<customBuild, spent, wrapperOn, component, preparedWith, toggling, invocation, graphicsPlan>>
(* write_runtime_manifest *)
SetupCommits ==
    /\ preparing.pc = "locked" /\ preparing' = NotPreparing
    /\ component' = [component EXCEPT ![preparing.path] = manifest_component(preparing.provision)]
    /\ preparedWith' = IF preparing.path = "custom" THEN preparing.build ELSE preparedWith
    /\ UNCHANGED <<customBuild, spent, wrapperOn, toggling, invocation, graphicsPlan>>
SetupFails ==
    /\ preparing.pc # "idle" /\ preparing' = NotPreparing
    /\ UNCHANGED <<customBuild, spent, wrapperOn, component, preparedWith, toggling, invocation, graphicsPlan>>

PlanNext ==
    \/ \E i \in Invocations : \/ ResolveContext(i) \/ ScanAndPlan(i) \/ LockPrefix(i) \/ LockWrapper(i)
                              \/ Recheck(i) \/ Spawn(i) \/ Ends(i) \/ Fails(i)
    \/ \E path \in RunnerPaths : SetupReads(path)
    \/ ReplaceRunner \/ ToggleBegins \/ ToggleEnds \/ SetupLocks \/ SetupCommits \/ SetupFails

(* ------------------------------- properties ----------------------------- *)

(* Every launch and the prefixes hold values the code can write. *)
PlanTypeOK ==
    /\ customBuild \in Builds /\ wrapperOn \in BOOLEAN /\ toggling \in BOOLEAN
    /\ \A p \in RunnerPaths : component[p] \in {NoManifest, "dxvk", ManagedDxvk}
    /\ \A i \in Invocations : invocation[i].pc \in {"idle", "resolved", "planned", "prefix", "locked",
                                                   "rechecked", "running", "refused", "over"}

Running == Holding({"running"})
(* While a process runs, the DLLs its environment takes from the game directory or from the prefix
   are there: the wrapper is claimed only while it is installed, and always if the last scan could
   be read; the managed DXVK only in a prefix that records it. *)
ClaimsAreBacked ==
    \A i \in Running :
        LET r == invocation[i]
            claims(dlls) == dlls \subseteq r.env.overrides
        IN  /\ claims(OverlayDlls) => wrapperOn
            /\ (wrapperOn /\ receives_overlay(r.target) /\ "locked" \in r.scans) => claims(OverlayDlls)
            /\ claims(DxvkDlls) => component[r.path] = ManagedDxvk
(* For a runner that was not replaced meanwhile, the plan and the path it replaces agree, whichever
   is switched on; only behind a link does the sync mode differ. What a dependency check of this
   runner calls validated is what then runs. *)
PlanAgreesWithLegacy ==
    \A i \in Running :
        LET r == invocation[i]
        IN  ~r.swapped =>
               /\ ~Clash(dxvk_environment(r.plan.provider), dgvoodoo_environment(r.plan, r.target))
               /\ r.mismatches \subseteq (IF r.build.linked THEN {"sync-plan"} ELSE {})
               /\ DxvkDlls \subseteq r.env.overrides <=> is_wine_7_16(r.build)
               /\ Validated("sakura", r.path, r.build, r.overlay)
                     => DxvkDlls \subseteq r.env.overrides /\ DxvkVariables \subseteq r.env.variables
               /\ Validated("honey", r.path, r.build, r.overlay)
                     => r.path \in Managed /\ DxvkDlls \intersect r.env.overrides = {}
(* A launch is not refused for lack of DXVK in a prefix that was prepared with the same runner: the
   rebuild its message asks for provides what the launch looks for. *)
PreparedIsEnough ==
    \A i \in Holding({"rechecked"}) :
        LET r == invocation[i]
        IN  (r.path = "custom" /\ ~r.swapped /\ preparedWith = r.build /\ is_wine_7_16(r.build))
               => r.manifest = ManagedDxvk
(* The environment of every launch is what the disk and the plan say. *)
LaunchIsTrue == ClaimsAreBacked /\ PlanAgreesWithLegacy /\ PreparedIsEnough
=============================================================================
