-------------------------------- MODULE Window --------------------------------
(* The stores of the window that mirror what the backend holds: the running clients and the
   settings.  They share no state; each of their steps is one turn of the event loop. *)
EXTENDS LauncherStore, SettingsStore

windowVars == <<launcherVars, settingsVars>>
WindowInit == LauncherInit /\ SettingsInit
WindowNext == \/ LauncherNext /\ UNCHANGED settingsVars
              \/ SettingsNext /\ UNCHANGED launcherVars
WindowSpec == WindowInit /\ [][WindowNext]_windowVars

(* What the window shows is what the backend has: the list of clients once the refreshes have
   answered (launcher.store.ts), the settings once the saves have (settings.store.ts). *)
WindowsAreTrue == ListIsTrue /\ SettingsAgree
=============================================================================
