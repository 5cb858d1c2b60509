--------------------------- MODULE PrefixRecovery ---------------------------
(***************************************************************************)
(* Preparation, reset and crash recovery of one managed Wine prefix        *)
(* (tools/prefix/recovery.rs, setup.rs and the manifest writer of          *)
(* utils/prefix.rs).  There is no journal: an interrupted transaction is   *)
(* reconciled from which entries the directories hold, so the model's      *)
(* state is the directories.  Every create, rename and unlink is a step of *)
(* its own, the process may be killed between any two of them, and every   *)
(* step may return an I/O error.                                           *)
(*                                                                         *)
(* All writers hold the exclusive OperationGuard("prefix", R); one         *)
(* operation executes at a time and op, pc, ret, todo and authority are    *)
(* its local state.  An operation that is between its two guarded sections *)
(* is in waiting.                                                          *)
(***************************************************************************)
EXTENDS Naturals, FiniteSets

CONSTANTS
    Payload,   \* the parts of a complete Wine structure (inspect_prefix)
    Legacy     \* paths of timestamped reset backups of older builds

Root   == "R"
Backup == "B"
NoPath == "none"
Paths  == {Root, Backup} \cup Legacy

(* P, its temporary, C, the manifest M (BadM: the name is there and the     *)
(* contents are damaged), the two tombstones, the legacy configured marker  *)
(* and the receipt of an installed game.                                    *)
Markers == {"P", "tmp", "C", "M", "BadM", "TM", "TL", "L", "I"}
Names   == Markers \cup Payload

ASSUME RecoveryAssumption ==
    /\ Payload # {}
    /\ Payload \cap Markers = {}
    /\ Legacy \cap {Root, Backup, NoPath} = {}

VARIABLES
    v3,        \* the path is addressed by a v3 fingerprint; fixed
    exists,    \* the directories that exist
    entries,   \* what each of them holds
    owned,     \* history: directories that once were a configured prefix
    lost,      \* history: the manifest of the root was damaged from outside
    busy,      \* some process uses the prefix
    waiting,   \* setup / reset past their first recovery, without the guard
    op,        \* the operation that holds the guard
    pc,        \* its position
    ret,       \* where it is once recover() returns
    todo,      \* the RecoveryAction being executed
    authority  \* Authority of run_managed_transaction

fs      == <<exists, entries, owned>>
control == <<op, pc, ret, todo, authority>>
vars    == <<v3, exists, entries, owned, lost, busy, waiting, control>>

-----------------------------------------------------------------------------
(* Classification: what each directory proves. *)

Whole(p) == Payload \subseteq entries[p]

Evidence == entries[Root] \cap {"P", "tmp", "C"}

RootState ==
    LET e == entries[Root] IN
    IF Root \notin exists THEN "Absent"
    ELSE IF e = {} THEN "Empty"
    ELSE IF e = {"tmp"} THEN "PendingMarker"
    ELSE IF {"P", "C"} \subseteq e \/ "BadM" \in e THEN "Foreign"
    ELSE IF "M" \in e THEN IF Evidence = {} THEN "Committed" ELSE "Stale"
    ELSE IF "C" \in e THEN "CommitPending"
    ELSE IF "P" \in e THEN IF e \cap {"I", "L"} = {} THEN "Provisioning" ELSE "Foreign"
    ELSE IF "L" \in e /\ Whole(Root) /\ ~v3 /\ "tmp" \notin e THEN "LegacyValid"
    ELSE "Foreign"

(* A removal tombstone outranks every other entry. *)
BackupState(p) ==
    LET e == entries[p] IN
    IF p \notin exists THEN "Absent"
    ELSE IF e = {} THEN "Empty"
    ELSE IF "I" \in e \/ {"TM", "TL"} \subseteq e THEN "Foreign"
    ELSE IF "TM" \in e \/ ("TL" \in e /\ ~v3) THEN "Removing"
    ELSE IF "TL" \in e \/ "BadM" \in e THEN "Foreign"
    ELSE IF "M" \in e \/ ("L" \in e /\ Whole(p) /\ ~v3) THEN "Restorable"
    ELSE "Foreign"

(* recover() removes an empty backup before it plans. *)
EffectiveBackup ==
    IF BackupState(Backup) = "Empty" THEN "Absent" ELSE BackupState(Backup)

LegacyRestorable ==
    IF RootState \in {"Absent", "Empty"} /\ EffectiveBackup = "Absent"
    THEN {p \in Legacy : BackupState(p) = "Restorable"}
    ELSE {}

(* The recovery table.  "clear" removes a root that holds no data, "discard"
   one that P authorises to delete; then the directory named by from, if any,
   is renamed to the root.  "complete" is CompleteCommit. *)
Do(act, from) == [act |-> act, from |-> from]
Refuse  == Do("refuse", NoPath)
Nothing == Do("none", NoPath)

PlanFor(r) ==
    LET b == EffectiveBackup
        Previous == IF b = "Restorable" THEN Backup ELSE NoPath
    IN
    IF b = "Foreign" \/ r = "CommitPending" THEN Refuse
    ELSE IF r \in {"Absent", "Empty", "PendingMarker", "Provisioning"} THEN
        IF b = "Removing" THEN Refuse
        ELSE IF r = "Provisioning" THEN Do("discard", Previous)
        ELSE IF r = "PendingMarker" \/ b = "Restorable" THEN Do("clear", Previous)
        ELSE IF \E p \in Legacy : LegacyRestorable = {p}
             THEN Do("clear", CHOOSE p \in Legacy : LegacyRestorable = {p})
             ELSE Nothing
    ELSE IF b = "Absent" THEN IF r = "Stale" THEN Do("complete", NoPath) ELSE Nothing
    ELSE IF r \in {"Committed", "Stale"} THEN Do("complete", NoPath)
    ELSE Refuse

(* Mutant: a pending commit is treated as one that never happened. *)
planRollsBackPending ==
    PlanFor(IF RootState = "CommitPending" THEN "Provisioning" ELSE RootState)

plan == PlanFor(RootState)

(* recover() never reports a transaction it cannot act on as reconciled. *)
Decision == IF plan = Nothing /\ Evidence # {} THEN Refuse ELSE plan

Residue ==
    \/ Backup \in exists
    \/ Evidence # {}
    \/ entries[Root] = {} /\ Legacy \cap exists # {}

(* transaction_gate, which binding resolution reads without the guard *)
InTransaction == entries[Backup] # {} \/ Evidence # {}

TransactionGate ==
    CASE ~InTransaction -> "NoTransactionEvidence"
      [] InTransaction /\ RootState \in {"Committed", "Stale"} /\ BackupState(Backup) # "Foreign" ->
           "CommittedValid"
      [] InTransaction /\ RootState \in {"Absent", "Empty", "PendingMarker", "Provisioning", "CommitPending"} ->
           "PendingTransaction"
      [] OTHER -> "AmbiguousTransaction"

-----------------------------------------------------------------------------
(* File system calls. *)

Add(p, x) ==
    /\ entries' = [entries EXCEPT ![p] = @ \cup {x}]
    /\ UNCHANGED <<exists, owned>>

Remove(p, x) ==
    /\ entries' = [entries EXCEPT ![p] = @ \ {x}]
    /\ UNCHANGED <<exists, owned>>

RenameEntry(p, x, y) ==
    /\ entries' = [entries EXCEPT ![p] = (@ \ {x}) \cup {y}]
    /\ UNCHANGED <<exists, owned>>

RemoveDir(p) ==
    /\ exists' = exists \ {p}
    /\ owned' = owned \ {p}
    /\ UNCHANGED entries

(* rename_noreplace of a whole directory; the target is missing *)
Move(p, q) ==
    /\ q \notin exists
    /\ exists' = (exists \ {p}) \cup {q}
    /\ entries' = [entries EXCEPT ![q] = entries[p], ![p] = {}]
    /\ owned' = IF p \in owned THEN (owned \ {p}) \cup {q} ELSE owned

-----------------------------------------------------------------------------
(* The operation that holds the guard. *)

Goto(l) == pc' = l /\ UNCHANGED <<op, ret, todo, authority>>

(* The guard is dropped and the operation's result returned. *)
Release ==
    /\ op' = "none"
    /\ pc' = "idle"
    /\ ret' = "end"
    /\ todo' = Nothing
    /\ authority' = "Held"

CallRecover(r) == pc' = "recover" /\ ret' = r /\ UNCHANGED <<op, todo, authority>>

(* What the five callers of recover() do with its result: the first call of
   setup and reset (pre), the one under the second guard (under), and the
   ones whose result is only reported (end). *)
Return(ok, replaced) ==
    IF ret = "under" /\ ok /\ ~replaced
    THEN /\ pc' = "decide"
         /\ todo' = Nothing
         /\ UNCHANGED <<waiting, op, ret, authority>>
    ELSE /\ Release
         /\ waiting' = IF ret = "pre" /\ ok /\ (op = "reset" \/ ~replaced)
                       THEN waiting \cup {op}
                       ELSE waiting

FirstStep(act) == IF act = "complete" THEN "unmark" ELSE act

(* recover(): classify, plan, refuse while a process uses the prefix. *)
Recover ==
    /\ pc = "recover"
    /\ \/ /\ \/ Decision = Refuse
             \/ busy /\ (Decision # Nothing \/ BackupState(Backup) = "Empty")
          /\ Return(FALSE, FALSE)
       \/ /\ Decision = Nothing
          /\ BackupState(Backup) # "Empty"
          /\ Return(TRUE, FALSE)
       \/ /\ ~busy
          /\ Decision # Refuse
          /\ Decision # Nothing \/ BackupState(Backup) = "Empty"
          /\ todo' = Decision
          /\ pc' = IF BackupState(Backup) = "Empty" THEN "empty"
                   ELSE FirstStep(Decision.act)
          /\ UNCHANGED <<waiting, op, ret, authority>>
    /\ UNCHANGED <<v3, fs, lost, busy>>

RemoveEmptyBackup ==
    /\ pc = "empty"
    /\ RemoveDir(Backup)
    /\ IF todo = Nothing THEN Return(TRUE, FALSE)
       ELSE Goto(FirstStep(todo.act)) /\ UNCHANGED waiting
    /\ UNCHANGED <<v3, lost, busy>>

(* clear_non_data_root *)
ClearRoot ==
    /\ pc = "clear"
    /\ \/ /\ "tmp" \in entries[Root]
          /\ Remove(Root, "tmp")
          /\ Goto("clear") /\ UNCHANGED waiting
       \/ /\ "tmp" \notin entries[Root]
          /\ IF Root \in exists THEN RemoveDir(Root) ELSE UNCHANGED fs
          /\ IF todo.from = NoPath THEN Return(TRUE, TRUE)
             ELSE Goto("restore") /\ UNCHANGED waiting
    /\ UNCHANGED <<v3, lost, busy>>

(* Mutant: entries are deleted in directory order, the authorising one too. *)
DeleteTreeAnyOrder(p, last) ==
    \/ \E x \in entries[p] : Remove(p, x)
    \/ entries[p] = {} /\ RemoveDir(p)

(* delete_tree_last: every entry but last in any order, then last, then the
   directory. *)
DeleteTreeLast(p, last) ==
    \/ \E x \in entries[p] : (x # last \/ entries[p] = {last}) /\ Remove(p, x)
    \/ entries[p] = {} /\ RemoveDir(p)

(* discard_partial_root *)
DiscardRoot ==
    /\ pc = "discard"
    /\ DeleteTreeLast(Root, "P")
    /\ IF Root \in exists' THEN Goto("discard") /\ UNCHANGED waiting
       ELSE IF todo.from = NoPath THEN Return(TRUE, TRUE)
       ELSE Goto("restore") /\ UNCHANGED waiting
    /\ UNCHANGED <<v3, lost, busy>>

(* restore_from *)
Restore ==
    /\ pc = "restore"
    /\ Move(todo.from, Root)
    /\ Return(TRUE, TRUE)
    /\ UNCHANGED <<v3, lost, busy>>

(* Mutant: only the rollback marker is dropped, not C. *)
UnmarkRollbackOnly ==
    /\ pc = "unmark"
    /\ \/ /\ "P" \in entries[Root]
          /\ Remove(Root, "P")
          /\ Goto("unmark") /\ UNCHANGED waiting
       \/ /\ "P" \notin entries[Root]
          /\ UNCHANGED fs
          /\ IF Backup \in exists THEN Goto("invalidate") /\ UNCHANGED waiting
             ELSE Return(TRUE, FALSE)
    /\ UNCHANGED <<v3, lost, busy>>

(* CompleteCommit drops P, C and the temporary, then removes the backup. *)
Unmark ==
    /\ pc = "unmark"
    /\ \/ \E x \in Evidence : Remove(Root, x) /\ Goto("unmark") /\ UNCHANGED waiting
       \/ /\ Evidence = {}
          /\ UNCHANGED fs
          /\ IF Backup \in exists THEN Goto("invalidate") /\ UNCHANGED waiting
             ELSE Return(TRUE, FALSE)
    /\ UNCHANGED <<v3, lost, busy>>

(* Mutant: the payload is deleted with the manifest still in place. *)
InvalidateNothing ==
    /\ pc = "invalidate"
    /\ BackupState(Backup) \in {"Restorable", "Removing"}
    /\ Goto("purge")
    /\ UNCHANGED <<v3, fs, lost, busy, waiting>>

(* remove_backup, first half: invalidate_restoration_authority *)
Invalidate ==
    /\ pc = "invalidate"
    /\ \/ BackupState(Backup) = "Restorable" /\
          (IF "M" \in entries[Backup] THEN RenameEntry(Backup, "M", "TM")
                                      ELSE RenameEntry(Backup, "L", "TL"))
       \/ BackupState(Backup) = "Removing" /\ UNCHANGED fs
    /\ Goto("purge")
    /\ UNCHANGED <<v3, lost, busy, waiting>>

Tombstone == IF "TM" \in entries[Backup] THEN "TM" ELSE "TL"

PurgeBackup ==
    /\ pc = "purge"
    /\ DeleteTreeLast(Backup, Tombstone)
    /\ IF Backup \in exists' THEN Goto("purge") /\ UNCHANGED waiting
       ELSE Return(TRUE, FALSE)
    /\ UNCHANGED <<v3, lost, busy>>

RecoverySteps == {"recover", "empty", "clear", "discard", "restore", "unmark",
                  "invalidate", "purge"}

(* Any system call of recovery may fail; recover() returns the error. *)
RecoveryFails ==
    /\ pc \in RecoverySteps
    /\ Return(FALSE, FALSE)
    /\ UNCHANGED <<v3, fs, lost, busy>>

-----------------------------------------------------------------------------
(* setup_runtime_prefix and reset_runtime_prefix. *)

(* Mutant: the receipt of an installation is not looked for. *)
RebuildAlwaysAllowed == TRUE

(* ensure_installation_rebuild_allowed *)
RebuildAllowed == "I" \notin entries[Root]

(* ensure_managed_reset_allowed *)
ManagedResetAllowed ==
    \/ entries[Root] = {}
    \/ "M" \in entries[Root]
    \/ {"L"} \cup Payload \subseteq entries[Root] /\ "BadM" \notin entries[Root]

Start(k) ==
    /\ pc = "idle"
    /\ k \notin waiting
    /\ k = "reset" => RebuildAllowed
    /\ op' = k
    /\ pc' = "recover"
    /\ ret' = "pre"
    /\ UNCHANGED <<v3, fs, lost, busy, waiting, todo, authority>>

(* The runner operation began; the guard is taken again and everything that
   was decided before is re-evaluated. *)
Resume(k) ==
    /\ pc = "idle"
    /\ k \in waiting
    /\ waiting' = waiting \ {k}
    /\ IF ManagedResetAllowed /\ (k = "reset" => RebuildAllowed)
       THEN op' = k /\ pc' = "recover" /\ ret' = "under" /\ UNCHANGED <<todo, authority>>
       ELSE UNCHANGED control
    /\ UNCHANGED <<v3, fs, lost, busy>>

(* The runner operation could not begin, or the guard was busy. *)
GiveUp(k) ==
    /\ k \in waiting
    /\ waiting' = waiting \ {k}
    /\ UNCHANGED <<v3, fs, lost, busy, control>>

(* prefix_has_state decides between a clean start and a repair in place. *)
Decide ==
    /\ pc = "decide"
    /\ Goto(IF op = "reset" THEN "shutdown"
            ELSE IF entries[Root] = {} THEN "begin" ELSE "repair")
    /\ UNCHANGED <<v3, fs, lost, busy, waiting>>

(* Repair in place is not a transaction: it is never deleted on failure. *)
Repair ==
    /\ pc = "repair"
    /\ busy' = TRUE
    /\ entries' = [entries EXCEPT ![Root] = @ \cup Payload]
    /\ Goto("rewrite")
    /\ UNCHANGED <<v3, exists, owned, lost, waiting>>

RewriteManifest ==
    /\ pc = "rewrite"
    /\ busy' = FALSE
    /\ "P" \notin entries[Root]
    /\ entries' = [entries EXCEPT ![Root] = (@ \ {"BadM"}) \cup {"M"}]
    /\ owned' = owned \cup {Root}
    /\ Release
    /\ UNCHANGED <<v3, exists, lost, waiting>>

(* shutdown_existing_prefix_for_reset *)
Shutdown ==
    /\ pc = "shutdown"
    /\ busy' = FALSE
    /\ Goto("preserve")
    /\ UNCHANGED <<v3, fs, lost, waiting>>

(* Mutant: whatever is at the root is preserved, verified or not. *)
PreserveAnything ==
    /\ pc = "preserve"
    /\ \/ Root \notin exists /\ UNCHANGED fs
       \/ Root \in exists /\ Backup \notin exists /\ Move(Root, Backup)
    /\ Goto("begin")
    /\ UNCHANGED <<v3, lost, busy, waiting>>

(* preserve_for_reset; when the rename was done and its sync failed the same
   recovery as after a crash moves the prefix back. *)
PreserveForReset ==
    /\ pc = "preserve"
    /\ \/ RootState = "Absent" /\ UNCHANGED fs /\ Goto("begin")
       \/ RootState = "Empty" /\ RemoveDir(Root) /\ Goto("begin")
       \/ /\ RootState \in {"Committed", "LegacyValid"}
          /\ Backup \notin exists
          /\ RebuildAllowed
          /\ Move(Root, Backup)
          /\ Goto("begin") \/ CallRecover("end")
    /\ UNCHANGED <<v3, lost, busy, waiting>>

(* begin_provisioning: the root, the temporary, P. *)
CreateRoot ==
    /\ pc = "begin"
    /\ RootState \in {"Absent", "Empty"}
    /\ exists' = exists \cup {Root}
    /\ Goto("tmp")
    /\ UNCHANGED <<v3, entries, owned, lost, busy, waiting>>

WriteMarker ==
    /\ pc = "tmp"
    /\ Add(Root, "tmp")
    /\ Goto("mark")
    /\ UNCHANGED <<v3, lost, busy, waiting>>

ActivateMarker ==
    /\ pc = "mark"
    /\ RenameEntry(Root, "tmp", "P")
    /\ Goto("provision")
    /\ UNCHANGED <<v3, lost, busy, waiting>>

(* ProvisioningWork::provision writes the structure with Wine processes. *)
Provision ==
    /\ pc = "provision"
    /\ \/ \E x \in Payload \ entries[Root] :
            Add(Root, x) /\ busy' = TRUE /\ Goto("provision")
       \/ Whole(Root) /\ UNCHANGED <<fs, busy>> /\ Goto("quiesce")
    /\ UNCHANGED <<v3, lost, waiting>>

Quiesce ==
    /\ pc = "quiesce"
    /\ busy' = FALSE
    /\ Goto("revoke")
    /\ UNCHANGED <<v3, fs, lost, waiting>>

(* revoke_rollback_authority: P becomes C. *)
Revoke ==
    /\ pc = "revoke"
    /\ RenameEntry(Root, "P", "C")
    /\ pc' = "commit"
    /\ authority' = "Reinstatable"
    /\ UNCHANGED <<v3, lost, busy, waiting, op, ret, todo>>

(* Mutant: every error of the writer counts as one before the rename. *)
CommitErrorsAreBefore ==
    /\ pc = "commit"
    /\ "P" \notin entries[Root]
    /\ entries' = [entries EXCEPT ![Root] = @ \cup {"M"}]
    /\ owned' = owned \cup {Root}
    /\ CallRecover("end") \/ Goto("failed")
    /\ UNCHANGED <<v3, exists, lost, busy, waiting>>

(* commit_prefix_manifest: the rename is the commit point.  An error after it
   (AfterRename) takes the proof away that would reinstate P. *)
CommitManifest ==
    /\ pc = "commit"
    /\ "P" \notin entries[Root]
    /\ entries' = [entries EXCEPT ![Root] = @ \cup {"M"}]
    /\ owned' = owned \cup {Root}
    /\ \/ CallRecover("end")
       \/ pc' = "failed" /\ authority' = "Revoked" /\ UNCHANGED <<op, ret, todo>>
    /\ UNCHANGED <<v3, exists, lost, busy, waiting>>

TransactionSteps == {"begin", "tmp", "mark", "provision", "quiesce", "revoke", "commit"}

(* A step of the transaction returns an error before it changed anything. *)
TransactionFails ==
    /\ pc \in TransactionSteps
    /\ pc' = "failed"
    /\ authority' = IF pc = "revoke" THEN "Reinstatable" ELSE authority
    /\ UNCHANGED <<v3, fs, lost, busy, waiting, op, ret, todo>>

(* The failure path: quiesce, then C -> P if the writer still has its proof,
   then the recovery a crash would have run. *)
RollBack ==
    /\ pc = "failed"
    /\ busy' = FALSE
    /\ IF authority = "Reinstatable" /\ "C" \in entries[Root] /\ "P" \notin entries[Root]
       THEN RenameEntry(Root, "C", "P")
       ELSE UNCHANGED fs
    /\ CallRecover("end")
    /\ UNCHANGED <<v3, lost, waiting>>

(* An error that is returned as it is: nothing is reconciled now. *)
OperationFails ==
    /\ pc \in {"repair", "rewrite", "shutdown", "preserve", "failed"}
    /\ Release
    /\ UNCHANGED <<v3, fs, lost, busy, waiting>>

-----------------------------------------------------------------------------
(* bootstrap_prefix_for_supervisor: no program runs on an unrecovered
   transaction.  Leftover processes are ended first. *)
StartSession ==
    /\ pc = "idle"
    /\ Residue
    /\ busy' = FALSE
    /\ op' = "session"
    /\ pc' = "recover"
    /\ ret' = "end"
    /\ UNCHANGED <<v3, fs, lost, waiting, todo, authority>>

(* A supervised program starts, and ends, in a prefix without residue. *)
UsePrefix ==
    /\ pc = "idle"
    /\ ~busy
    /\ RootState \in {"Committed", "LegacyValid"}
    /\ ~Residue
    /\ busy' = TRUE
    /\ UNCHANGED <<v3, fs, lost, waiting, control>>

ProcessesEnd ==
    /\ busy
    /\ busy' = FALSE
    /\ UNCHANGED <<v3, fs, lost, waiting, control>>

(* write_protection, before an installer runs in a validated prefix. *)
WriteProtection ==
    /\ pc = "idle"
    /\ RootState = "Committed"
    /\ ~Residue
    /\ "I" \notin entries[Root]
    /\ Add(Root, "I")
    /\ UNCHANGED <<v3, lost, busy, waiting, control>>

(* SIGKILL of the launcher that holds the guard; another one may be waiting.
   Processes of the prefix may survive. *)
Crash ==
    /\ pc # "idle" \/ waiting # {}
    /\ Release
    /\ waiting' \in {{}, waiting}
    /\ UNCHANGED <<v3, fs, lost, busy>>

(* External: the manifest is deleted or overwritten while no launcher runs. *)
LoseManifest ==
    /\ pc = "idle"
    /\ "M" \in entries[Root]
    /\ lost' = TRUE
    /\ Remove(Root, "M") \/ RenameEntry(Root, "M", "BadM")
    /\ UNCHANGED <<v3, busy, waiting, control>>

-----------------------------------------------------------------------------
Configured == {Payload \cup {"M"}, Payload \cup {"L"}}

(* A root of any age, and whatever older builds left beside it. *)
Init ==
    /\ v3 \in BOOLEAN
    /\ entries \in [Paths -> {{}, Payload, {"L"}} \cup Configured]
    /\ entries[Root] # {"L"}
    /\ entries[Backup] = {}
    /\ \A p \in Legacy : entries[p] # Payload
    /\ \E empty \in {{}, {Root}} : exists = {p \in Paths : entries[p] # {}} \cup empty
    /\ owned = {p \in Paths : entries[p] \in Configured}
    /\ lost = FALSE
    /\ busy = FALSE
    /\ waiting = {}
    /\ op = "none"
    /\ pc = "idle"
    /\ ret = "end"
    /\ todo = Nothing
    /\ authority = "Held"

Operation ==
    \/ Recover \/ RemoveEmptyBackup \/ ClearRoot \/ DiscardRoot \/ Restore
    \/ Unmark \/ Invalidate \/ PurgeBackup \/ RecoveryFails
    \/ Decide \/ Repair \/ RewriteManifest \/ Shutdown \/ PreserveForReset
    \/ CreateRoot \/ WriteMarker \/ ActivateMarker \/ Provision \/ Quiesce
    \/ Revoke \/ CommitManifest \/ TransactionFails \/ RollBack \/ OperationFails

Next ==
    \/ Operation
    \/ \E k \in {"setup", "reset"} : Start(k) \/ Resume(k) \/ GiveUp(k)
    \/ StartSession \/ UsePrefix \/ ProcessesEnd \/ WriteProtection
    \/ Crash \/ LoseManifest

Spec == Init /\ [][Next]_vars

-----------------------------------------------------------------------------
(* The state variables keep their types; nothing is in a missing directory
   and whoever holds the guard is at one of its positions. *)
TypeOK ==
    /\ v3 \in BOOLEAN
    /\ exists \subseteq Paths
    /\ entries \in [Paths -> SUBSET Names]
    /\ \A p \in Paths \ exists : entries[p] = {}
    /\ owned \subseteq exists
    /\ lost \in BOOLEAN
    /\ busy \in BOOLEAN
    /\ waiting \subseteq {"setup", "reset"}
    /\ op \in {"none", "setup", "reset", "session"}
    /\ pc \in RecoverySteps \cup TransactionSteps \cup
              {"idle", "decide", "repair", "rewrite", "shutdown", "preserve", "failed"}
    /\ (pc = "idle") <=> (op = "none")
    /\ ret \in {"pre", "under", "end"}
    /\ todo.act \in {"none", "clear", "discard", "complete"}
    /\ todo.from \in Paths \cup {NoPath}
    /\ authority \in {"Held", "Reinstatable", "Revoked"}

(* recovery.rs, the purpose of the protocol: as long as one complete prefix
   that was configured exists, no step of a setup, a reset, a recovery or a
   crash between any two of them leaves the user without one. *)
HasData == \E p \in owned : Whole(p)
DataSurvives == [][HasData => HasData']_vars

(* recovery.rs invariant 1: P authorises deleting the root, so a directory
   that was ever committed never holds it, not even after its manifest was
   lost or its commit failed after the rename. *)
RollbackOnlyUncommitted ==
    \A p \in Paths : "P" \in entries[p] => p \notin owned /\ "M" \notin entries[p]

(* recovery.rs invariant 3: a backup that removal has begun to empty never
   classifies as restorable, whatever evidence it still holds. *)
RestorableIsWhole ==
    \A p \in Paths \ {Root} : BackupState(p) = "Restorable" => Whole(p)

(* The recovery table fails closed only where it must: between two operations
   recovery refuses only a root whose commit had begun and cannot be proved,
   or after the manifest was damaged from outside.  Every other crash or
   error leaves a state that the next recovery finishes. *)
ClosedOnlyWhenAmbiguous ==
    pc = "idle" /\ Decision = Refuse => lost \/ RootState = "CommitPending"

(* "Recovery is idempotent" (recovery.rs:86): after a recovery that reports
   success under the guard, a second one would have nothing to do. *)
RecoveredIsStable == pc = "decide" => Decision = Nothing

(* "Committed here means exactly what recovery would accept" (recovery.rs:869):
   the gate that steers binding resolution and the recovery table agree in
   every state a reader may find, also in the middle of an operation. *)
GateAgrees ==
    /\ TransactionGate = "NoTransactionEvidence" =>
         Decision = Nothing \/ Decision.from \in Legacy
    /\ TransactionGate = "CommittedValid" => Decision.act = "complete"
    /\ TransactionGate = "AmbiguousTransaction" => Decision = Refuse
    /\ TransactionGate = "PendingTransaction" => Decision.act # "complete"

(* Recovery converges: it refuses only what it must, what it finished under
   the guard needs no second recovery (plan, recover_under_guard), and the
   gate of binding resolution sends commands where recovery can decide. *)
RecoveryConverges == ClosedOnlyWhenAmbiguous /\ RecoveredIsStable /\ GateAgrees

(* What no operation may touch.  recovery.rs invariant 2: data without a
   verifiable commit record, and a root that may be committed, are never
   deleted or moved away; the one exception is the writer itself while it can
   prove that its own manifest was never renamed.  And a prefix into which a
   game was installed (is_protected) stays at its path with everything it
   holds but the transaction markers and a manifest damaged from outside. *)
ProtectedRootsKept ==
    [][/\ RootState = "Foreign" \/ (RootState = "CommitPending" /\ pc # "failed")
            => Root \in exists' /\ entries[Root] \ {"C"} \subseteq entries'[Root]
       /\ \A p \in Paths : "I" \in entries[p] =>
            p = Root /\ entries[Root] \ {"P", "tmp", "C", "M", "BadM"} \subseteq entries'[Root]]_vars
=============================================================================
