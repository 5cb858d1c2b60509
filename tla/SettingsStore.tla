---------------------------- MODULE SettingsStore ----------------------------
(* Settings in the window (features/settings/settings.store.ts). settings.json holds
   the default runner and the presence switch, and every write replaces both. Writes
   run one after another on settingsSaveTail; each reads the other field from the
   store when its turn comes. What happens between two awaits is one step.         *)
EXTENDS Naturals, Sequences

CONSTANTS
    Runners,        \* paths of the runtimes
    MaxSettingEdits \* bound: choices of the user, loads, and loads or writes that fail

NoRunner == ""

VARIABLES
    settingsFile,   \* settings.json
    chosen,         \* selectedRunner and richPresenceEnabled of the store
    saving,         \* savingRunner and savingPresence
    persisted,      \* lastPersistedRunner and lastPersistedPresence
    requestIds,     \* runnerSaveRequestId and presenceSaveRequestId
    tail,           \* settingsSaveTail: writes that wait, the first one may run
    writing,        \* the document of the write that runs
    loading,        \* loadSettings, then loadRunners
    outOfStep,      \* since the last load or write that succeeded a write was on disk
                    \* before it failed, or no load has succeeded yet
    settingEdits

settingsVars == <<settingsFile, chosen, saving, persisted, requestIds, tail, writing, loading,
                  outOfStep, settingEdits>>

NoWrite == [runner |-> NoRunner, presence |-> FALSE, runs |-> FALSE]
NotLoading == [step |-> "none"]

SettingsInit ==
    /\ settingsFile \in [runner: Runners \cup {NoRunner}, presence: BOOLEAN]
    /\ chosen = [runner |-> NoRunner, presence |-> FALSE]
    /\ saving = [runner |-> FALSE, presence |-> FALSE] /\ persisted = chosen
    /\ requestIds = [runner |-> 0, presence |-> 0] /\ tail = <<>> /\ writing = NoWrite
    /\ loading = [step |-> "asked", ids |-> requestIds, pending |-> FALSE]
    /\ outOfStep = TRUE /\ settingEdits = 0

Edits == settingEdits < MaxSettingEdits /\ settingEdits' = settingEdits + 1
Queued(kind, value, id) == tail' = Append(tail, [kind |-> kind, value |-> value, id |-> id])

(* init(): the window is shown once the first load is over *)
Shown == loading = NotLoading \/ settingEdits > 0

SetRunner(r) ==
    /\ Shown /\ Edits
    /\ persisted' = IF saving.runner THEN persisted ELSE [persisted EXCEPT !.runner = chosen.runner]
    /\ requestIds' = [requestIds EXCEPT !.runner = @ + 1]
    /\ saving' = [saving EXCEPT !.runner = TRUE]
    /\ Queued("runner", r, requestIds'.runner)
    /\ UNCHANGED <<settingsFile, chosen, writing, loading, outOfStep>>

(* the switch moves at once *)
SetRichPresenceEnabled(on) ==
    /\ Shown /\ Edits
    /\ persisted' = IF saving.presence THEN persisted
                    ELSE [persisted EXCEPT !.presence = chosen.presence]
    /\ requestIds' = [requestIds EXCEPT !.presence = @ + 1]
    /\ saving' = [saving EXCEPT !.presence = TRUE] /\ chosen' = [chosen EXCEPT !.presence = on]
    /\ Queued("presence", on, requestIds'.presence)
    /\ UNCHANGED <<settingsFile, writing, loading, outOfStep>>

(* the document of a write, built when its turn comes *)
DocumentOf(job) ==
    CASE job.kind \in {"runner", "migrate"} ->
           [runner |-> job.value, presence |-> chosen.presence, runs |-> TRUE]
      [] job.kind = "presence" ->
           [runner |-> IF saving.runner THEN persisted.runner ELSE chosen.runner,
            presence |-> job.value, runs |-> TRUE]

(* A migration whose load was overtaken by a choice of the user writes nothing. *)
StartWrite ==
    /\ tail # <<>> /\ ~writing.runs
    /\ IF Head(tail).kind = "migrate" /\ Head(tail).id # requestIds.runner
       THEN /\ tail' = Tail(tail) /\ loading' = NotLoading /\ UNCHANGED writing
       ELSE writing' = DocumentOf(Head(tail)) /\ UNCHANGED <<tail, loading>>
    /\ UNCHANGED <<settingsFile, chosen, saving, persisted, requestIds, outOfStep, settingEdits>>

(* Mutant: a write remembers only the field it was asked for. *)
PersistedField(job, doc) ==
    IF job.kind = "presence" THEN [persisted EXCEPT !.presence = doc.presence]
    ELSE [persisted EXCEPT !.runner = doc.runner]
(* "Every write replaces the whole settings document, not just the initiating field." *)
PersistSettings(job, doc) == [runner |-> doc.runner, presence |-> doc.presence]

(* The write ends; if no newer choice of its field was made the store shows the outcome.
   One that failed may be on disk all the same: write_json_internal renames the document
   and then syncs the directory. *)
WriteEnds(ok) ==
    /\ writing.runs
    /\ LET job == Head(tail)
           known == IF ok THEN PersistSettings(job, writing) ELSE persisted IN
       /\ persisted' = known
       /\ CASE job.kind = "runner" /\ job.id = requestIds.runner ->
                 /\ chosen' = [chosen EXCEPT !.runner = IF ok THEN job.value ELSE known.runner]
                 /\ saving' = [saving EXCEPT !.runner = FALSE] /\ UNCHANGED loading
            [] job.kind = "presence" /\ job.id = requestIds.presence ->
                 /\ chosen' = [chosen EXCEPT !.presence = IF ok THEN job.value ELSE known.presence]
                 /\ saving' = [saving EXCEPT !.presence = FALSE] /\ UNCHANGED loading
            [] job.kind = "migrate" ->
                 /\ chosen' = IF ok /\ job.id = requestIds.runner
                              THEN [chosen EXCEPT !.runner = job.value] ELSE chosen
                 /\ loading' = NotLoading /\ UNCHANGED saving
            [] OTHER -> UNCHANGED <<chosen, saving, loading>>
    /\ LET written == [runner |-> writing.runner, presence |-> writing.presence] IN
       settingsFile' \in IF ok THEN {written} ELSE {settingsFile, written}
    /\ outOfStep' = (~ok /\ (outOfStep \/ settingsFile' # settingsFile))
    /\ IF ok THEN UNCHANGED settingEdits ELSE Edits
    /\ tail' = Tail(tail) /\ writing' = NoWrite
    /\ UNCHANGED requestIds

(* a retry of init(); an import of a runtime loads the list alone *)
LoadAgain ==
    /\ loading = NotLoading /\ Edits
    /\ \/ loading' = [step |-> "asked", ids |-> requestIds,
                      pending |-> saving.runner \/ saving.presence]
       \/ loading' = [step |-> "runners", ids |-> requestIds]
    /\ UNCHANGED <<settingsFile, chosen, saving, persisted, requestIds, tail, writing, outOfStep>>

LoadReadsFile ==
    /\ loading.step = "asked"
    /\ loading' = [step |-> "read", ids |-> loading.ids, pending |-> loading.pending,
                   file |-> settingsFile]
    /\ UNCHANGED <<settingsFile, chosen, saving, persisted, requestIds, tail, writing, outOfStep,
                   settingEdits>>

(* a load that fails ends init(), unless what it would have read does not count *)
LoadFails ==
    /\ loading.step = "asked" /\ Edits
    /\ loading' = IF loading.pending \/ loading.ids # requestIds
                  THEN [step |-> "runners", ids |-> requestIds] ELSE NotLoading
    /\ UNCHANGED <<settingsFile, chosen, saving, persisted, requestIds, tail, writing, outOfStep>>

(* loadSettings: what was read is dropped if a write was pending or began since *)
LoadSettings ==
    /\ loading.step = "read"
    /\ IF loading.pending \/ loading.ids # requestIds
       THEN UNCHANGED <<chosen, persisted, outOfStep>>
       ELSE chosen' = loading.file /\ persisted' = loading.file /\ outOfStep' = FALSE
    /\ loading' = [step |-> "runners", ids |-> requestIds]
    /\ UNCHANGED <<settingsFile, saving, requestIds, tail, writing, settingEdits>>

(* loadRunners with resolveRunnerAfterLoad: without a runner the preferred one is written,
   unless the list is empty or could not be read *)
LoadRunners ==
    /\ loading.step = "runners"
    /\ \/ loading' = NotLoading /\ UNCHANGED tail
       \/ /\ chosen.runner = NoRunner /\ loading.ids.runner = requestIds.runner
          /\ \E r \in Runners : Queued("migrate", r, loading.ids.runner)
          /\ loading' = [step |-> "migrating"]
    /\ UNCHANGED <<settingsFile, chosen, saving, persisted, requestIds, writing, outOfStep,
                   settingEdits>>

SettingsNext ==
    \/ \E r \in Runners : SetRunner(r)
    \/ \E on \in BOOLEAN : SetRichPresenceEnabled(on) \/ WriteEnds(on)
    \/ StartWrite \/ LoadAgain \/ LoadFails \/ LoadReadsFile \/ LoadSettings \/ LoadRunners

-----------------------------------------------------------------------------
SettingsTypeOK ==
    /\ settingsFile \in [runner: Runners \cup {NoRunner}, presence: BOOLEAN]
    /\ chosen \in [runner: Runners \cup {NoRunner}, presence: BOOLEAN]
    /\ saving \in [runner: BOOLEAN, presence: BOOLEAN]

(* Whenever no write waits, the window shows what settings.json holds, whichever loads and
   writes failed and in whatever order the two fields were changed (settings.store.ts:50).
   Excepted is what the code cannot know: a write that failed once its document was on disk
   (utils/json.rs:143) leaves the old choice in the window, until a load or a write of either
   field succeeds; and nothing is known before the first load. *)
SettingsAgree == (tail = <<>> /\ ~outOfStep) => chosen = settingsFile
=============================================================================
