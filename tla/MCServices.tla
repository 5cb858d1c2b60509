----------------------------- MODULE MCServices -----------------------------
(* The services around the game share no state with each other in these models, so one
   run checks them side by side: `part` says which one moves. *)
EXTENDS Installations, Updater, ToolLoop, SessionLink, AddressScanner, Presence, Window

LayoutsDef == [a |-> {"hash", "derived"}, b |-> {"none"}]
RulesDef == <<"blessing", "agi">>
NeedlesDef == {<<1, 0>>, <<1, 0, 1>>}
(* one range, two that touch, one that reaches beyond 32 bits, one wholly beyond *)
MappingsDef == {<<<<0, 6>>>>, <<<<0, 2>>, <<2, 6>>>>, <<<<2, 9>>>>, <<<<8, 10>>>>}
AnchorSetsDef == {{}, {0}, {2}, {0, 4}}

VARIABLE part
Parts == {"installations", "updater", "tool loop", "link", "scanner", "presence",
          "launcher store", "settings store", "search"}
loopVars == <<combatTool, toolLoopVars>>
desktopVars == <<installVars, updaterVars, loopVars>>
processVars == <<linkVars, scannerVars, presenceVars, searchVars>>
vars == <<part, desktopVars, processVars, windowVars>>

Init ==
    /\ part \in Parts
    /\ InstallInit /\ UpdaterInit /\ ToolLoopInit /\ LinkInit /\ ScannerInit /\ PresenceInit
    /\ LauncherInit /\ SettingsInit /\ SearchInit
    /\ part # "tool loop" => combatTool = "autobuff"
    /\ part # "settings store" => settingsFile = [runner |-> NoRunner, presence |-> FALSE]

Only(p, Step) == part = p /\ Step /\ UNCHANGED part
Next ==
    \/ Only("installations", InstallNext) /\ UNCHANGED <<updaterVars, loopVars, processVars, windowVars>>
    \/ Only("updater", UpdaterNext) /\ UNCHANGED <<installVars, loopVars, processVars, windowVars>>
    \/ Only("tool loop", ToolLoopNext) /\ UNCHANGED <<installVars, updaterVars, processVars, windowVars>>
    \/ Only("link", LinkNext) /\ UNCHANGED <<desktopVars, scannerVars, presenceVars, searchVars, windowVars>>
    \/ Only("scanner", ScannerNext) /\ UNCHANGED <<desktopVars, linkVars, presenceVars, searchVars, windowVars>>
    \/ Only("presence", PresenceNext) /\ UNCHANGED <<desktopVars, linkVars, scannerVars, searchVars, windowVars>>
    \/ Only("search", SearchNext) /\ UNCHANGED <<desktopVars, linkVars, scannerVars, presenceVars, windowVars>>
    \/ Only("launcher store", LauncherNext) /\ UNCHANGED <<desktopVars, processVars, settingsVars>>
    \/ Only("settings store", SettingsNext) /\ UNCHANGED <<desktopVars, processVars, launcherVars>>

(* The task of a draft and the loop of a tool run on their own; a timer fires. *)
Fairness ==
    /\ WF_installVars(part = "installations" /\ TaskRuns)
    /\ WF_toolLoopVars(part = "tool loop" /\ LoopReacts)
    /\ WF_toolLoopVars(part = "tool loop" /\ CommandStep)
Spec == Init /\ [][Next]_vars /\ Fairness

(* Every variable of the first eight modules holds a value its code can hold. *)
ServicesTypeOK ==
    /\ InstallTypeOK /\ UpdaterTypeOK /\ LinkTypeOK /\ ScannerTypeOK /\ PresenceTypeOK
    /\ LauncherTypeOK /\ SettingsTypeOK
=============================================================================
