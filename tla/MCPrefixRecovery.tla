-------------------------- MODULE MCPrefixRecovery --------------------------
(* Two parts of a Wine structure, so that a directory can be half deleted,   *)
(* and two backups of an older build, so that there can be one or several.   *)
(* Beside it, the commands that choose a prefix and the launches that use    *)
(* one: PrefixBinding sees of a prefix its transactions, RuntimePlan only    *)
(* its committed manifest and EnvironmentCheck what an inspection tells, so  *)
(* the four share no state and `part` says which one moves.                  *)
EXTENDS PrefixRecovery, RuntimePlan, PrefixBinding, EnvironmentCheck

MCPayload == {"reg", "drive"}
MCLegacy == {"l1", "l2"}

Wine(version, oldWow64, esync, fsync, linked) ==
    [kind |-> "Wine", version |-> version, oldWow64 |-> oldWow64,
     esync |-> esync, fsync |-> fsync, linked |-> linked]
\* the validated Wine, one that has its version but not its layout, a linked one and a Proton
MCBuilds == {Wine("7.16", TRUE, TRUE, TRUE, FALSE), Wine("7.16", FALSE, FALSE, FALSE, FALSE),
             Wine("other", TRUE, TRUE, FALSE, TRUE), ManagedProton}

RunnerOf(name, family, source, vkd3d, dxvk, verbs) ==
    [name |-> name, family |-> family, source |-> source, vkd3d |-> vkd3d, dxvk |-> dxvk, verbs |-> verbs]
AllVerbs == {"basic", "dxvk", "webview2"}
\* the managed runners, and external ones that another build may replace
MCRunners == {RunnerOf("proton", "Proton", "download", TRUE, TRUE, AllVerbs),
              RunnerOf("local", "Proton", "import", TRUE, TRUE, AllVerbs),
              RunnerOf("wine716", "Wine716", "download", FALSE, FALSE, AllVerbs),
              RunnerOf("wine716", "Wine716", "download", FALSE, FALSE, {"basic"}),
              RunnerOf("ge", "Proton", "external", TRUE, FALSE, AllVerbs),
              RunnerOf("ge", "Proton", "external", FALSE, TRUE, {"basic"}),
              RunnerOf("wine", "Wine", "external", FALSE, FALSE, AllVerbs)}

VARIABLE part
PrefixesInit ==
    /\ part \in {"recovery", "plan", "binding", "check"}
    /\ CheckInit
    /\ part # "check" => /\ setting.scope = "shared" /\ ~setting.webview2 /\ disk = NoPrefix /\ resetBackup = NoBackup
                         /\ selected.name = "wine"
    /\ BindingInit /\ material = "old"              \* the two digests are interchangeable
    /\ part # "binding" => v3Write /\ \A l \in Locations : contents[l] = "none"
    /\ PlanInit
    /\ part # "plan" => /\ customBuild = ManagedProton /\ ~wrapperOn /\ ~graphicsPlan
                        /\ component["custom"] = NoManifest
    /\ Init
    /\ part # "recovery" => v3 /\ exists = {}
PrefixesNext ==
    \/ part = "recovery" /\ Next /\ UNCHANGED <<part, planVars, bindingVars, checkVars>>
    \/ part = "plan" /\ PlanNext /\ UNCHANGED <<part, vars, bindingVars, checkVars>>
    \/ part = "binding" /\ BindingNext /\ UNCHANGED <<part, vars, planVars, checkVars>>
    \/ part = "check" /\ CheckNext /\ UNCHANGED <<part, vars, planVars, bindingVars>>
PrefixesSpec == PrefixesInit /\ [][PrefixesNext]_<<part, vars, planVars, bindingVars, checkVars>>

(* The run of DecisionsAreCurrent looks at the choice of the directory alone. *)
BindingRunSpec == part = "binding" /\ PrefixesSpec

(* A launch runs where and as it was decided: in the directory that belongs to its runner
   (PrefixBinding, which excepts the directories where a command raced with the end of the
   transaction it had found: see DecisionsAreCurrent), in the environment its plan says
   (RuntimePlan) and when the check that was shown before said so (EnvironmentCheck). *)
LaunchesAreTrue == LaunchIsTrue /\ BindingIsSound /\ ChecksAreTrue
=============================================================================
