------------------------------ MODULE JsonStore ------------------------------
(***************************************************************************)
(* utils/json.rs: a document with its backup on a file system that loses   *)
(* power.  A process loads the document when it starts and then saves it;  *)
(* it may die between any two system calls.  Damage to the file happens    *)
(* while no process runs.                                                  *)
(***************************************************************************)
EXTENDS Naturals, FiniteSets

CONSTANTS
    Documents,     \* what is saved
    MaxCrashes, MaxDamage, MaxSaves, MaxIoErrors

NoFile == "no file"
Torn == "torn"             \* not JSON, or rejected by validate
Empty == "default"
LostDocument == "lost"
Stored == Documents \union {Empty}
FileContents == Stored \union {NoFile, Torn}

(* What is saved is JSON that validate accepts: never one of the other contents. *)
ASSUME DocumentsAssumption == Documents \intersect {NoFile, Torn, LostDocument} = {}

VARIABLES
    primary, backup,   \* the file and the .bak beside it
    entries,           \* what the directory may still say after a loss of power
    legacy,            \* the file is valid but not in its canonical form
    process,           \* "down", "loading", "failed", "idle", "copying", "copied" or "renamed"
    saving,            \* the value being written
    rotates,           \* rotate_backup
    budget

jsonVars == <<primary, backup, entries, legacy, process, saving, rotates, budget>>

JsonInit ==
    /\ primary = NoFile /\ backup = NoFile /\ entries = {<<NoFile, NoFile>>} /\ legacy = FALSE
    /\ process = "down" /\ saving = LostDocument /\ rotates = FALSE
    /\ budget = [crashes |-> MaxCrashes, damage |-> MaxDamage, saves |-> MaxSaves,
                 errors |-> MaxIoErrors]

Spends(what) == budget[what] > 0 /\ budget' = [budget EXCEPT ![what] = @ - 1]
Valid(content) == content \in Stored

(* load_json_recovering: the value a load answers with *)
Loaded ==
    IF primary = NoFile THEN Empty
    ELSE IF Valid(primary) THEN primary
    ELSE IF Valid(backup) THEN backup
    ELSE LostDocument
(* write_json_internal: the temporary file is written and synced; a mutation of
   the document begins *)
BeginWrite(v, rotate) ==
    /\ saving' = v /\ rotates' = rotate
    /\ process' = IF rotate /\ primary # NoFile THEN "copying" ELSE "copied"
(* a valid document is rewritten when it is not canonical; a damaged one is
   replaced by its backup, without a rotation, after a copy was preserved *)
Load ==
    /\ process = "down"
    /\ \/ /\ Loaded = LostDocument /\ process' = "failed" /\ UNCHANGED <<saving, rotates>>
       \/ /\ primary = NoFile \/ (Valid(primary) /\ ~legacy)
          /\ process' = "idle" /\ UNCHANGED <<saving, rotates>>
       \/ Valid(primary) /\ legacy /\ BeginWrite(primary, TRUE)
       \/ primary = Torn /\ Valid(backup) /\ BeginWrite(backup, FALSE)
    /\ UNCHANGED <<primary, backup, entries, legacy, budget>>
(* write_json *)
Save(v) ==
    /\ process \in {"idle", "failed"} /\ Spends("saves")
    /\ BeginWrite(v, TRUE)
    /\ UNCHANGED <<primary, backup, entries, legacy>>

(* copy_and_sync onto the backup: in place, so a crash leaves it torn.  Content
   that is synced stays; the entry of a new file needs the directory's sync. *)
CopyTears ==
    /\ process = "copying" /\ backup # Torn /\ backup' = Torn
    /\ entries' = {<<e[1], IF e[2] = NoFile THEN NoFile ELSE Torn>> : e \in entries}
                  \union {<<primary, Torn>>}
    /\ UNCHANGED <<primary, legacy, process, saving, rotates, budget>>
CopyDone ==
    /\ process = "copying" /\ backup = Torn
    /\ backup' = primary /\ process' = "copied"
    /\ entries' = {<<e[1], IF e[2] = NoFile THEN NoFile ELSE primary>> : e \in entries}
                  \union {<<primary, primary>>}
    /\ UNCHANGED <<primary, legacy, saving, rotates, budget>>
(* Mutant: the document is written in place, without the temporary file. *)
WriteInPlace ==
    /\ process = "copied" /\ process' = "renamed"
    /\ primary' = saving /\ legacy' = FALSE
    /\ entries' = entries \union {<<saving, backup>>, <<Torn, backup>>}
    /\ UNCHANGED <<backup, saving, rotates, budget>>
RenameTemp ==
    /\ process = "copied" /\ process' = "renamed"
    /\ primary' = saving /\ legacy' = FALSE
    /\ entries' = entries \union {<<saving, backup>>}
    /\ UNCHANGED <<backup, saving, rotates, budget>>
SyncDirectory ==
    /\ process = "renamed" /\ process' = "idle"
    /\ entries' = {<<primary, backup>>} /\ saving' = LostDocument
    /\ UNCHANGED <<primary, backup, legacy, rotates, budget>>
(* any call fails: the temporary file is removed and the error is returned *)
WriteFails ==
    /\ process \in {"copying", "copied", "renamed"} /\ Spends("errors")
    /\ process' = "idle" /\ saving' = LostDocument
    /\ UNCHANGED <<primary, backup, entries, legacy, rotates>>

(* the process ends, or power is lost and the directory shows one of the states
   that were not yet synced *)
Crash ==
    /\ process # "down" /\ Spends("crashes")
    /\ process' = "down" /\ saving' = LostDocument
    /\ \E e \in entries \union {<<primary, backup>>} :
          /\ primary' = e[1] /\ backup' = e[2] /\ entries' = {e}
    /\ legacy' \in BOOLEAN                 \* the next start is of a newer version
    /\ UNCHANGED rotates
(* while no process runs the file is damaged *)
DamageFile ==
    /\ process = "down" /\ Valid(primary) /\ Spends("damage")
    /\ primary' = Torn /\ entries' = {<<Torn, backup>>}
    /\ UNCHANGED <<backup, legacy, process, saving, rotates>>

JsonNext ==
    \/ Load \/ \E v \in Documents : Save(v)
    \/ CopyTears \/ CopyDone \/ RenameTemp \/ SyncDirectory \/ WriteFails \/ Crash \/ DamageFile

(* ----------------------------- properties ----------------------------- *)

JsonTypeOK ==
    /\ primary \in FileContents /\ backup \in FileContents
    /\ entries \subseteq FileContents \X FileContents /\ saving \in Stored \union {LostDocument}
    /\ process \in {"down", "loading", "failed", "idle", "copying", "copied", "renamed"}

PossibleAfterCrash ==
    LET value(e) == IF e[1] = NoFile THEN Empty
                    ELSE IF Valid(e[1]) THEN e[1]
                    ELSE IF Valid(e[2]) THEN e[2] ELSE LostDocument
    IN {value(e) : e \in entries}
Document == INSTANCE AtomicDocument WITH
    Values <- Stored, Default <- Empty, Lost <- LostDocument,
    doc <- Loaded, possible <- PossibleAfterCrash,
    older <- IF Valid(backup) THEN backup ELSE LostDocument,
    offered <- saving, damaged <- \E e \in entries : e[1] = Torn

(* Every step of the files is a step of the document that only holds whole values
   (write_json, load_json_recovering): a crash between any two calls, a failed
   call and a damaged file lose no acknowledged write but the damaged one. *)
DocumentImplemented == Document!Spec

JsonSpec == JsonInit /\ [][JsonNext]_jsonVars
=============================================================================
