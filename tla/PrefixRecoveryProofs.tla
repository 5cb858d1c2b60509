------------------------ MODULE PrefixRecoveryProofs ------------------------
(***************************************************************************)
(* The prefixes, for every value of the constants.  Of PrefixRecovery:     *)
(* DataSurvives, RollbackOnlyUncommitted, RestorableIsWhole,               *)
(* RecoveryConverges and ProtectedRootsKept, by two inductive invariants:  *)
(* RInv says what is whole and owned, CInv which combinations of entries   *)
(* an interrupted transaction can leave.  Of the three modules beside it:  *)
(* LaunchesAreTrue, by an invariant each (PlanInv, BindingInv, CheckInv);  *)
(* the modules share no state, so the theorems are put together at the end.*)
(***************************************************************************)
EXTENDS MCPrefixRecovery, FiniteSetTheorems, TLAPS

Positions ==
    RecoverySteps \cup TransactionSteps \cup
    {"idle", "decide", "repair", "rewrite", "shutdown", "preserve", "failed"}

(* What the directories satisfy whoever runs. *)
DiskInv ==
    /\ exists \subseteq Paths
    /\ entries \in [Paths -> SUBSET Names]
    /\ owned \subseteq exists
    /\ \A p \in Paths \ exists : entries[p] = {}
    /\ \A p \in Paths : "M" \in entries[p] => p \in owned
    /\ \A p \in Paths : "P" \in entries[p] => p = Root /\ p \notin owned

(* Only the backup may be owned and incomplete: it then carries a tombstone
   that outlives its manifest, and the new root is owned. *)
WholeInv ==
    /\ \A p \in owned \ {Backup} : Whole(p)
    /\ Backup \in owned /\ ~Whole(Backup) => Root \in owned
    /\ "M" \in entries[Backup] /\ entries[Backup] \cap {"TM", "TL"} = {} => Whole(Backup)

(* What the position of the operation that holds the guard implies. *)
StepInv ==
    /\ pc \in Positions
    /\ todo.from \in Paths \cup {NoPath}
    /\ pc \in {"clear", "discard"} => Root \notin owned
    /\ pc = "clear" => entries[Root] \subseteq {"tmp"}
    /\ pc = "empty" => entries[Backup] = {}
    /\ pc \in {"clear", "discard", "restore", "empty"} /\ todo.from = Backup => Whole(Backup)
    /\ pc \in {"empty", "clear", "discard", "restore"} => todo.from # Root
    /\ pc = "restore" => todo.from # NoPath
    /\ pc = "empty" => /\ todo.act \in {"none", "clear", "discard", "complete"}
                       /\ todo.act = "none" => todo = Nothing
                       /\ todo.act \in {"clear", "discard"} => Root \notin owned
                       /\ todo.act = "clear" => entries[Root] \subseteq {"tmp"}
                       /\ todo.act = "complete" => Root \in owned
    /\ pc \in {"unmark", "invalidate", "purge"} => Root \in owned
    /\ pc = "purge" => entries[Backup] = {} \/ entries[Backup] \cap {"TM", "TL"} # {}
    /\ pc \in {"repair", "rewrite", "tmp", "mark", "provision", "quiesce", "revoke", "commit"}
         => Root \in exists
    /\ pc \in {"tmp", "mark", "provision", "quiesce", "revoke", "commit"} => Root \notin owned
    /\ pc \in {"quiesce", "revoke", "commit", "rewrite"} => Whole(Root)

(* C becomes P again only while the manifest was never renamed. *)
AuthorityInv ==
    /\ authority # "Held" => pc \in {"commit", "failed"} \cup RecoverySteps
    /\ authority # "Held" /\ pc \in RecoverySteps => ret = "end"
    /\ authority = "Reinstatable" /\ pc = "failed" => Root \notin owned

RInv == DiskInv /\ WholeInv /\ StepInv /\ AuthorityInv

RecoveryKept == RInv' /\ (owned # {} => owned' # {})

-----------------------------------------------------------------------------
(* A complete owned prefix exists as soon as any directory is owned. *)
LEMMA OwnedIsData == ASSUME WholeInv PROVE HasData <=> owned # {}
  BY DEF WholeInv, HasData, Root, Backup

(* What a classification of the root proves about its contents. *)
LEMMA RootFacts ==
    ASSUME DiskInv
    PROVE  /\ RootState = "Absent" => Root \notin exists
           /\ RootState \in {"Empty", "Absent"} => entries[Root] = {}
           /\ RootState = "PendingMarker" => entries[Root] = {"tmp"}
           /\ RootState = "Provisioning" => "P" \in entries[Root]
           /\ RootState \in {"Committed", "Stale"} => "M" \in entries[Root]
           /\ RootState \in {"Committed", "LegacyValid"} =>
                "P" \notin entries[Root] /\ entries[Root] # {}
  BY RecoveryAssumption DEF DiskInv, RootState, Evidence, Paths, Root, Backup

(* Only a whole directory classifies as restorable. *)
LEMMA RestorableFacts ==
    ASSUME DiskInv, WholeInv, NEW p \in Paths, p # Root, BackupState(p) = "Restorable"
    PROVE  Whole(p)
  BY RecoveryAssumption DEF DiskInv, WholeInv, BackupState, Paths, Root, Backup

(* What the recovery table decides. *)
LEMMA PlanFacts ==
    ASSUME DiskInv, WholeInv
    PROVE  /\ Decision.act \in {"none", "refuse", "clear", "discard", "complete"}
           /\ Decision.act = "refuse" => Decision = Refuse
           /\ Decision.act = "none" => Decision = Nothing
           /\ Decision.from \in (Paths \ {Root}) \cup {NoPath}
           /\ Decision.from = Backup => Whole(Backup)
           /\ Decision.act = "clear" => entries[Root] \subseteq {"tmp"}
           /\ Decision.act = "discard" => "P" \in entries[Root]
           /\ Decision.act = "complete" => "M" \in entries[Root]
  <1>1. BackupState(Backup) = "Restorable" => Whole(Backup)
    BY RestorableFacts, RecoveryAssumption DEF Paths, Root, Backup
  <1>2. EffectiveBackup = "Restorable" => Whole(Backup)
    BY <1>1 DEF EffectiveBackup
  <1>3. (\E p \in Legacy : LegacyRestorable = {p}) =>
          (CHOOSE p \in Legacy : LegacyRestorable = {p}) \in Legacy
    OBVIOUS
  <1> DEFINE l == CHOOSE p \in Legacy : LegacyRestorable = {p}
             Possible ==
               {Refuse, Nothing, Do("complete", NoPath), Do("clear", NoPath),
                Do("clear", Backup), Do("discard", NoPath), Do("discard", Backup), Do("clear", l)}
  <1> HIDE DEF l
  <1>4. /\ plan \in Possible
        /\ plan = Do("clear", l) => l \in Legacy \/ l \in {NoPath, Backup}
        /\ plan.from = Backup => EffectiveBackup = "Restorable"
        /\ plan.act = "clear" => RootState \in {"Absent", "Empty", "PendingMarker"}
        /\ plan.act = "discard" => RootState = "Provisioning"
        /\ plan.act = "complete" => RootState \in {"Committed", "Stale"}
    BY <1>3, RecoveryAssumption DEF plan, PlanFor, Do, Refuse, Nothing, l, Root, Backup, NoPath
  <1>5. Decision \in {plan, Refuse}
    BY DEF Decision
  <1> QED
    BY <1>2, <1>4, <1>5, RootFacts, RecoveryAssumption
    DEF Refuse, Nothing, Do, Paths, Root, Backup, NoPath

-----------------------------------------------------------------------------
(* A position left or entered with the same directories. *)
Safe == DiskInv' /\ WholeInv' /\ (owned # {} => owned' # {})

(* Leaving the guard, or returning from recover(), disturbs nothing as long as
   the directories keep their invariants. *)
LEMMA ReleaseStep == ASSUME RInv, DiskInv', WholeInv', Release PROVE RInv'
  BY RecoveryAssumption DEF RInv, StepInv, AuthorityInv, Release, Positions,
     RecoverySteps, TransactionSteps, Nothing, Do, Paths, NoPath

(* Returning from recover() keeps the invariant too. *)
LEMMA ReturnStep ==
    ASSUME RInv, DiskInv', WholeInv', NEW ok, NEW replaced, Return(ok, replaced),
           pc \in RecoverySteps
    PROVE  RInv'
  BY RecoveryAssumption DEF RInv, StepInv, AuthorityInv, Return, Release, Positions,
     RecoverySteps, TransactionSteps, Nothing, Do, Paths, NoPath

(* Steps that leave every directory as it is. *)
LEMMA SameDisk == ASSUME RInv, UNCHANGED fs PROVE Safe
  BY DEF Safe, RInv, DiskInv, WholeInv, Whole, fs

(* The entries of the root change: they may lose payload only if the root is
   not owned, and hold P only then. *)
LEMMA RootEdit ==
    ASSUME DiskInv, WholeInv, NEW e \in SUBSET Names,
           entries' = [entries EXCEPT ![Root] = e], UNCHANGED <<exists, owned>>,
           Root \in exists \/ e = {},
           "M" \in e => Root \in owned,
           "P" \in e => Root \notin owned,
           Root \in owned => Payload \subseteq e
    PROVE  Safe
  <1>0. Root \in Paths /\ Backup \in Paths /\ Root # Backup
    BY DEF Paths, Root, Backup
  <1>1. entries'[Root] = e /\ \A p \in Paths \ {Root} : entries'[p] = entries[p]
    BY <1>0 DEF DiskInv
  <1>2. DiskInv'
    BY <1>0, <1>1 DEF DiskInv
  <1>3. WholeInv'
    BY <1>0, <1>1 DEF DiskInv, WholeInv, Whole
  <1> QED  BY <1>2, <1>3 DEF Safe

(* The entries of the backup change. *)
LEMMA BackupEdit ==
    ASSUME DiskInv, WholeInv, NEW e \in SUBSET Names,
           entries' = [entries EXCEPT ![Backup] = e], UNCHANGED <<exists, owned>>,
           Backup \in exists \/ e = {},
           "M" \in e => "M" \in entries[Backup],
           "P" \in e => "P" \in entries[Backup],
           Root \in owned \/ Payload \subseteq e,
           "M" \in e => e \cap {"TM", "TL"} # {}
    PROVE  Safe
  <1>0. Root \in Paths /\ Backup \in Paths /\ Root # Backup
    BY DEF Paths, Root, Backup
  <1>1. entries'[Backup] = e /\ \A p \in Paths \ {Backup} : entries'[p] = entries[p]
    BY <1>0 DEF DiskInv
  <1>2. DiskInv'
    BY <1>0, <1>1 DEF DiskInv
  <1>3. WholeInv'
    BY <1>0, <1>1 DEF DiskInv, WholeInv, Whole
  <1> QED  BY <1>2, <1>3 DEF Safe

(* An empty directory is removed. *)
LEMMA DirRemoved ==
    ASSUME DiskInv, WholeInv, NEW p \in {Root, Backup}, entries[p] = {}, RemoveDir(p)
    PROVE  Safe
  <1>1. Root \notin owned \/ p = Backup
    BY RecoveryAssumption DEF WholeInv, Whole, Root, Backup
  <1>2. DiskInv'
    BY DEF DiskInv, RemoveDir, Paths
  <1>3. WholeInv' /\ (owned # {} => owned' # {})
    BY <1>1, RecoveryAssumption DEF DiskInv, WholeInv, Whole, RemoveDir, Root, Backup, Paths
  <1> QED  BY <1>2, <1>3 DEF Safe

(* A directory is renamed to or from the root. *)
LEMMA DirMoved ==
    ASSUME DiskInv, WholeInv, NEW p \in Paths, NEW q \in Paths, p # q, Root \in {p, q},
           q \in {Root, Backup}, Whole(p) \/ p \notin owned, "P" \notin entries[p], Move(p, q)
    PROVE  Safe
  <1>0. Root \in Paths /\ Backup \in Paths /\ Root # Backup
    BY DEF Paths, Root, Backup
  <1>1. /\ entries'[q] = entries[p]
        /\ entries'[p] = {}
        /\ \A r \in Paths \ {p, q} : entries'[r] = entries[r]
        /\ entries' \in [Paths -> SUBSET Names]
    BY DEF DiskInv, Move
  <1>2. DiskInv'
    BY <1>0, <1>1 DEF DiskInv, Move
  <1>3. WholeInv'
    BY <1>0, <1>1 DEF DiskInv, WholeInv, Whole, Move
  <1>4. owned # {} => owned' # {}
    BY DEF Move
  <1> QED  BY <1>2, <1>3, <1>4 DEF Safe

-----------------------------------------------------------------------------
(* The steps of recovery. *)
LEMMA ClearRootKeeps == ASSUME RInv, ClearRoot PROVE RecoveryKept
  <1>0. Root \notin owned /\ entries[Root] \subseteq {"tmp"}
    BY DEF RInv, StepInv, ClearRoot
  <1>1. Safe
    <2>1. CASE "tmp" \in entries[Root]
      <3>1. Remove(Root, "tmp")
        BY <2>1 DEF ClearRoot
      <3>2. entries[Root] \ {"tmp"} \in SUBSET Names /\ entries[Root] \ {"tmp"} = {}
        BY <1>0
      <3> QED  BY <1>0, <3>1, <3>2, RootEdit DEF RInv, Remove
    <2>2. CASE "tmp" \notin entries[Root]
      BY <1>0, <2>2, DirRemoved, SameDisk DEF RInv, ClearRoot
    <2> QED  BY <2>1, <2>2
  <1>2. CASE \E ok, replaced \in BOOLEAN : Return(ok, replaced)
    BY <1>1, <1>2, ReturnStep DEF RecoveryKept, Safe, ClearRoot, RecoverySteps
  <1>3. CASE Goto("clear")
    <2>0. UNCHANGED <<exists, owned>> /\ entries' = [entries EXCEPT ![Root] = {}]
      BY <1>0, <1>3 DEF ClearRoot, Goto, Remove, Return, Release
    <2>1. StepInv' /\ AuthorityInv'
      BY <1>0, <1>3, <2>0, RecoveryAssumption DEF RInv, DiskInv, StepInv, AuthorityInv, Whole,
         Paths, Root, Backup, Positions, RecoverySteps, TransactionSteps, ClearRoot, Goto
    <2> QED  BY <1>1, <2>1 DEF RecoveryKept, Safe, RInv
  <1>4. CASE Goto("restore")
    <2>0. todo.from # NoPath
      BY <1>4 DEF ClearRoot, Goto, Return, Release
    <2>1. StepInv' /\ AuthorityInv'
      BY <1>4, <2>0, RecoveryAssumption DEF RInv, DiskInv, WholeInv, StepInv, AuthorityInv,
         Whole, Paths, Root, Backup, NoPath, Positions, RecoverySteps, TransactionSteps,
         ClearRoot, Remove, RemoveDir, fs, Goto
    <2> QED  BY <1>1, <2>1 DEF RecoveryKept, Safe, RInv
  <1> QED
    BY <1>2, <1>3, <1>4 DEF ClearRoot

(* discard_partial_root deletes only a root that was never committed. *)
LEMMA DiscardRootKeeps == ASSUME RInv, DiscardRoot PROVE RecoveryKept
  <1>0. Root \notin owned /\ "M" \notin entries[Root] /\ entries[Root] \in SUBSET Names
    BY DEF RInv, StepInv, DiskInv, DiscardRoot, Paths
  <1>1. Safe
    <2>1. CASE \E x \in entries[Root] : Remove(Root, x)
      <3>1. PICK x \in entries[Root] : Remove(Root, x)
        BY <2>1
      <3>2. Root \in exists
        BY <3>1 DEF RInv, DiskInv, Paths
      <3> QED  BY <1>0, <3>1, <3>2, RootEdit DEF RInv, Remove
    <2>2. CASE entries[Root] = {} /\ RemoveDir(Root)
      BY <2>2, DirRemoved DEF RInv
    <2> QED  BY <2>1, <2>2 DEF DiscardRoot, DeleteTreeLast
  <1>2. CASE \E ok, replaced \in BOOLEAN : Return(ok, replaced)
    BY <1>1, <1>2, ReturnStep DEF RecoveryKept, Safe, DiscardRoot, RecoverySteps
  <1>3. CASE Goto("discard")
    <2>1. StepInv' /\ AuthorityInv'
      BY <1>3, RecoveryAssumption DEF RInv, DiskInv, WholeInv, StepInv, AuthorityInv,
         Whole, Paths, Root, Backup, NoPath, Positions, RecoverySteps, TransactionSteps,
         DiscardRoot, DeleteTreeLast, Remove, RemoveDir, Goto
    <2> QED  BY <1>1, <2>1 DEF RecoveryKept, Safe, RInv
  <1>4. CASE Goto("restore")
    <2>0. todo.from # NoPath
      BY <1>4 DEF DiscardRoot, Goto, Return, Release
    <2>1. StepInv' /\ AuthorityInv'
      BY <1>4, <2>0, RecoveryAssumption DEF RInv, DiskInv, WholeInv, StepInv, AuthorityInv,
         Whole, Paths, Root, Backup, NoPath, Positions, RecoverySteps, TransactionSteps,
         DiscardRoot, DeleteTreeLast, Remove, RemoveDir, Goto
    <2> QED  BY <1>1, <2>1 DEF RecoveryKept, Safe, RInv
  <1> QED
    BY <1>2, <1>3, <1>4 DEF DiscardRoot

(* restore_from renames a whole directory to the missing root. *)
LEMMA RestoreKeeps == ASSUME RInv, Restore PROVE RecoveryKept
  <1>0. /\ todo.from \in Paths \/ todo.from = NoPath
        /\ todo.from # Root
        /\ todo.from = Backup => Whole(Backup)
    BY DEF RInv, StepInv, Restore
  <1>1. Safe
    <2>1. CASE todo.from \in Paths
      <3>1. Whole(todo.from) \/ todo.from \notin owned
        BY <1>0 DEF RInv, WholeInv
      <3>2. "P" \notin entries[todo.from]
        BY <1>0, <2>1 DEF RInv, DiskInv
      <3> QED  BY <1>0, <2>1, <3>1, <3>2, DirMoved DEF RInv, Restore, Paths
    <2>2. CASE todo.from = NoPath
      BY <2>2 DEF RInv, StepInv, Restore
    <2> QED  BY <1>0, <2>1, <2>2
  <1>2. CASE \E ok, replaced \in BOOLEAN : Return(ok, replaced)
    BY <1>1, <1>2, ReturnStep DEF RecoveryKept, Safe, Restore, RecoverySteps
  <1> QED
    BY <1>2 DEF Restore

(* The markers leave a committed root. *)
LEMMA UnmarkKeeps == ASSUME RInv, Unmark PROVE RecoveryKept
  <1>0. Root \in owned /\ entries[Root] \in SUBSET Names /\ Root \in exists /\ Payload \subseteq entries[Root]
    BY DEF RInv, StepInv, DiskInv, WholeInv, Whole, Unmark, Paths, Root, Backup
  <1>1. Safe
    <2>1. ASSUME NEW x \in Evidence, Remove(Root, x) PROVE Safe
      <3>1. x \notin Payload
        BY RecoveryAssumption DEF Evidence, Markers
      <3>2. "P" \notin entries[Root] \ {x}
        BY <1>0 DEF RInv, DiskInv, Paths
      <3> QED  BY <1>0, <2>1, <3>1, <3>2, RootEdit DEF RInv, Remove
    <2> QED  BY <2>1, SameDisk DEF Unmark
  <1>2. CASE \E ok, replaced \in BOOLEAN : Return(ok, replaced)
    BY <1>1, <1>2, ReturnStep DEF RecoveryKept, Safe, Unmark, RecoverySteps
  <1>3. CASE Goto("unmark")
    <2>1. StepInv' /\ AuthorityInv'
      BY <1>3, RecoveryAssumption DEF RInv, DiskInv, WholeInv, StepInv, AuthorityInv,
         Whole, Paths, Root, Backup, NoPath, Positions, RecoverySteps, TransactionSteps,
         Unmark, Remove, Evidence, fs, Goto
    <2> QED  BY <1>1, <2>1 DEF RecoveryKept, Safe, RInv
  <1>4. CASE Goto("invalidate")
    <2>1. StepInv' /\ AuthorityInv'
      BY <1>4, RecoveryAssumption DEF RInv, DiskInv, WholeInv, StepInv, AuthorityInv,
         Whole, Paths, Root, Backup, NoPath, Positions, RecoverySteps, TransactionSteps,
         Unmark, Remove, Evidence, fs, Goto
    <2> QED  BY <1>1, <2>1 DEF RecoveryKept, Safe, RInv
  <1> QED
    BY <1>2, <1>3, <1>4 DEF Unmark

(* The backup loses its restoration authority after the root is committed. *)
LEMMA InvalidateKeeps == ASSUME RInv, Invalidate PROVE RecoveryKept
  <1>0. Root \in owned /\ entries[Backup] \in SUBSET Names /\ Backup \in Paths
    BY DEF RInv, StepInv, DiskInv, Invalidate, Paths
  <1>1. Safe
    <2>1. ASSUME NEW x, NEW y \in {"TM", "TL"}, x # y, x \in entries[Backup], RenameEntry(Backup, x, y)
          PROVE  Safe
      <3>1. (entries[Backup] \ {x}) \cup {y} \in SUBSET Names
        BY <1>0 DEF Names, Markers
      <3>2. Backup \in exists
        BY <1>0, <2>1 DEF RInv, DiskInv
      <3> QED  BY <1>0, <2>1, <3>1, <3>2, BackupEdit DEF RInv, RenameEntry
    <2>2. BackupState(Backup) = "Restorable" => "M" \in entries[Backup] \/ "L" \in entries[Backup]
      BY DEF BackupState
    <2> QED  BY <2>1, <2>2, SameDisk DEF Invalidate
  <1>2. entries'[Backup] \cap {"TM", "TL"} # {} /\ Root \in owned'
    BY <1>0 DEF RInv, DiskInv, Invalidate, RenameEntry, BackupState, fs
  <1>3. StepInv' /\ AuthorityInv'
    BY <1>2 DEF RInv, StepInv, AuthorityInv, Invalidate, Goto, Positions, RecoverySteps, TransactionSteps
  <1> QED  BY <1>1, <1>3 DEF RecoveryKept, Safe, RInv

(* The backup is emptied only beside a committed root. *)
LEMMA PurgeBackupKeeps == ASSUME RInv, PurgeBackup PROVE RecoveryKept
  <1>0. /\ Root \in owned /\ entries[Backup] \in SUBSET Names /\ Backup \in Paths
        /\ entries[Backup] = {} \/ Tombstone \in entries[Backup]
    BY DEF RInv, StepInv, DiskInv, PurgeBackup, Tombstone, Paths
  <1>1. Safe
    <2>1. ASSUME NEW x \in entries[Backup], x # Tombstone \/ entries[Backup] = {Tombstone},
                 Remove(Backup, x)
          PROVE  Safe
      <3>1. "M" \in entries[Backup] \ {x} => (entries[Backup] \ {x}) \cap {"TM", "TL"} # {}
        BY <1>0, <2>1 DEF Tombstone
      <3>2. Backup \in exists
        BY <1>0, <2>1 DEF RInv, DiskInv
      <3> QED  BY <1>0, <2>1, <3>1, <3>2, BackupEdit DEF RInv, Remove
    <2>2. CASE entries[Backup] = {} /\ RemoveDir(Backup)
      BY <2>2, DirRemoved DEF RInv
    <2> QED  BY <2>1, <2>2 DEF PurgeBackup, DeleteTreeLast
  <1>2. CASE \E ok, replaced \in BOOLEAN : Return(ok, replaced)
    BY <1>1, <1>2, ReturnStep DEF RecoveryKept, Safe, PurgeBackup, RecoverySteps
  <1>3. CASE Goto("purge")
    <2>1. StepInv' /\ AuthorityInv'
      BY <1>3, RecoveryAssumption DEF RInv, DiskInv, WholeInv, StepInv, AuthorityInv,
         Whole, Paths, Root, Backup, NoPath, Positions, RecoverySteps, TransactionSteps,
         PurgeBackup, DeleteTreeLast, Remove, RemoveDir, Tombstone, Goto
    <2> QED  BY <1>1, <2>1 DEF RecoveryKept, Safe, RInv
  <1> QED
    BY <1>2, <1>3 DEF PurgeBackup

(* An empty backup is removed and the decided action follows. *)
LEMMA RemoveEmptyBackupKeeps == ASSUME RInv, RemoveEmptyBackup PROVE RecoveryKept
  <1>1. Safe
    BY DirRemoved DEF RInv, StepInv, RemoveEmptyBackup
  <1>2. CASE Return(TRUE, FALSE)
    BY <1>1, <1>2, ReturnStep DEF RecoveryKept, Safe, RemoveEmptyBackup, RecoverySteps
  <1>3. CASE todo # Nothing /\ Goto(FirstStep(todo.act))
    <2>0. todo.act # "none"
      BY <1>3 DEF RInv, StepInv, RemoveEmptyBackup
    <2>1. StepInv' /\ AuthorityInv'
      BY <1>3, <2>0, RecoveryAssumption DEF RInv, DiskInv, WholeInv, StepInv, AuthorityInv,
         Whole, Paths, Root, Backup, NoPath, Positions, RecoverySteps, TransactionSteps,
         RemoveEmptyBackup, RemoveDir, Goto, FirstStep
    <2> QED  BY <1>1, <2>1 DEF RecoveryKept, Safe, RInv
  <1> QED
    BY <1>2, <1>3 DEF RemoveEmptyBackup

(* recover() decides from what the directories prove. *)
LEMMA RecoverKeeps == ASSUME RInv, Recover PROVE RecoveryKept
  <1>1. Safe /\ UNCHANGED fs
    BY SameDisk DEF Recover
  <1>2. CASE \E ok \in BOOLEAN : Return(ok, FALSE)
    BY <1>1, <1>2, ReturnStep DEF RecoveryKept, Safe, Recover, RecoverySteps
  <1>3. CASE /\ Decision # Refuse
             /\ Decision # Nothing \/ BackupState(Backup) = "Empty"
             /\ todo' = Decision
             /\ pc' = IF BackupState(Backup) = "Empty" THEN "empty" ELSE FirstStep(Decision.act)
             /\ UNCHANGED <<op, ret, authority>>
    <2>1. BackupState(Backup) = "Empty" => entries[Backup] = {}
      BY DEF BackupState
    <2>2. /\ "P" \in entries[Root] => Root \notin owned
          /\ "M" \in entries[Root] => Root \in owned
          /\ entries[Root] \subseteq {"tmp"} => Root \notin owned
      BY RecoveryAssumption DEF RInv, DiskInv, WholeInv, Whole, Paths, Root, Backup, Markers
    <2>3. Decision.act \in {"none", "clear", "discard", "complete"}
      BY <1>3, PlanFacts DEF RInv
    <2>a. /\ pc' \in {"empty", "clear", "discard", "unmark"}
          /\ pc' # "empty" => pc' = FirstStep(Decision.act)
          /\ pc' = "empty" => entries[Backup] = {}
      BY <1>3, <2>1, <2>3, PlanFacts DEF RInv, FirstStep
    <2>b. /\ Decision.from \in (Paths \ {Root}) \cup {NoPath}
          /\ Decision.from = Backup => Whole(Backup)
          /\ Decision.act = "clear" => entries[Root] \subseteq {"tmp"} /\ Root \notin owned
          /\ Decision.act = "discard" => Root \notin owned
          /\ Decision.act = "complete" => Root \in owned
          /\ Decision.act = "none" => Decision = Nothing
      BY <2>2, PlanFacts DEF RInv
    <2>c. NoPath # Root
      BY DEF NoPath, Root
    <2>d. PICK d : d = Decision
      OBVIOUS
    <2>e. /\ todo' = d
          /\ d.from \in Paths \cup {NoPath} /\ d.from # Root
          /\ d.from = Backup => Whole(Backup)
          /\ d.act \in {"none", "clear", "discard", "complete"}
          /\ d.act = "clear" => entries[Root] \subseteq {"tmp"}
          /\ d.act \in {"clear", "discard"} => Root \notin owned
          /\ d.act = "complete" => Root \in owned
          /\ d.act = "none" => d = Nothing
      BY <1>3, <2>3, <2>b, <2>c, <2>d
    <2>f. /\ pc' \in {"empty", "clear", "discard", "unmark"}
          /\ pc' = "empty" => entries[Backup] = {}
          /\ pc' \in {"clear", "discard"} => pc' = d.act
          /\ pc' = "unmark" => d.act = "complete"
      BY <2>a, <2>d, <2>e DEF FirstStep
    <2>4. StepInv'
      BY <1>1, <2>e, <2>f DEF StepInv, Positions, RecoverySteps, TransactionSteps, fs, Whole,
         Nothing, Do, Paths, Root, Backup, NoPath
    <2>5. AuthorityInv'
      <3>1. pc = "recover"
        BY DEF Recover
      <3>2. authority' = authority /\ ret' = ret
        BY <1>3
      <3> QED  BY <2>f, <3>1, <3>2 DEF RInv, AuthorityInv, RecoverySteps
    <2> QED  BY <1>1, <2>4, <2>5 DEF RecoveryKept, Safe, RInv
  <1> QED  BY <1>2, <1>3 DEF Recover

(* An error of recovery leaves the directories as they are. *)
LEMMA RecoveryFailsKeeps == ASSUME RInv, RecoveryFails PROVE RecoveryKept
  BY SameDisk, ReturnStep DEF RecoveryFails, RecoveryKept, Safe

-----------------------------------------------------------------------------
(* The steps of a setup or a reset. *)
LEMMA RepairKeeps == ASSUME RInv, Repair PROVE RecoveryKept
  <1>1. Root \in exists /\ entries[Root] \in SUBSET Names /\ Root \in Paths
    BY DEF RInv, StepInv, DiskInv, Repair, Paths
  <1>2. Safe
    <2>1. entries[Root] \cup Payload \in SUBSET Names
      BY <1>1 DEF Names
    <2>2. /\ "M" \in entries[Root] \cup Payload => Root \in owned
          /\ "P" \in entries[Root] \cup Payload => Root \notin owned
      BY <1>1, RecoveryAssumption DEF RInv, DiskInv, Markers
    <2> QED  BY <1>1, <2>1, <2>2, RootEdit DEF RInv, Repair
  <1>3. StepInv' /\ AuthorityInv'
    BY <1>1 DEF RInv, StepInv, AuthorityInv, DiskInv, Positions, RecoverySteps,
       TransactionSteps, Repair, Goto, Whole
  <1> QED  BY <1>2, <1>3 DEF RecoveryKept, Safe, RInv

(* The manifest is written: the root is whole and becomes owned. *)
LEMMA ManifestWritten ==
    ASSUME DiskInv, WholeInv, Root \in exists, Whole(Root), "P" \notin entries[Root],
           NEW e \in SUBSET Names, "P" \notin e, Payload \subseteq e,
           entries' = [entries EXCEPT ![Root] = e],
           owned' = owned \cup {Root}, exists' = exists
    PROVE  Safe
  <1>0. Root \in Paths /\ Backup \in Paths /\ Root # Backup
    BY DEF Paths, Root, Backup
  <1>1. entries'[Root] = e /\ \A p \in Paths \ {Root} : entries'[p] = entries[p]
    BY <1>0 DEF DiskInv
  <1>2. DiskInv'
    BY <1>0, <1>1 DEF DiskInv
  <1>3. WholeInv'
    BY <1>0, <1>1 DEF DiskInv, WholeInv, Whole
  <1> QED  BY <1>2, <1>3 DEF Safe

(* A repair rewrites the manifest of a whole root. *)
LEMMA RewriteManifestKeeps == ASSUME RInv, RewriteManifest PROVE RecoveryKept
  <1>1. Root \in exists /\ entries[Root] \in SUBSET Names /\ Whole(Root)
    BY DEF RInv, StepInv, DiskInv, RewriteManifest, Paths
  <1> DEFINE e == (entries[Root] \ {"BadM"}) \cup {"M"}
  <1>2. e \in SUBSET Names /\ Payload \subseteq e /\ "P" \notin e
    BY <1>1, RecoveryAssumption DEF Names, Markers, Whole, RewriteManifest
  <1>3. Safe
    BY <1>1, <1>2, ManifestWritten DEF RInv, RewriteManifest
  <1> QED  BY <1>3, ReleaseStep DEF RewriteManifest, RecoveryKept, Safe

(* The rename of the manifest makes a whole root a configured prefix. *)
LEMMA CommitManifestKeeps == ASSUME RInv, CommitManifest PROVE RecoveryKept
  <1>1. Root \in exists /\ entries[Root] \in SUBSET Names /\ Whole(Root) /\ Root \in Paths
    BY DEF RInv, StepInv, DiskInv, CommitManifest, Paths
  <1> DEFINE e == entries[Root] \cup {"M"}
  <1>2. e \in SUBSET Names /\ Payload \subseteq e /\ "P" \notin e
    BY <1>1 DEF Names, Markers, Whole, CommitManifest
  <1>3. Safe
    BY <1>1, <1>2, ManifestWritten DEF RInv, CommitManifest
  <1>4. StepInv' /\ AuthorityInv'
    BY DEF RInv, StepInv, AuthorityInv, Positions, RecoverySteps, TransactionSteps,
       CommitManifest, CallRecover
  <1> QED  BY <1>3, <1>4 DEF RecoveryKept, Safe, RInv

(* P is put into place only in a root that was never committed. *)
LEMMA MarkerKeeps == ASSUME RInv, WriteMarker \/ ActivateMarker PROVE RecoveryKept
  <1>1. /\ Root \in exists /\ Root \in Paths /\ entries[Root] \in SUBSET Names
        /\ Root \notin owned /\ "M" \notin entries[Root]
    BY DEF RInv, StepInv, DiskInv, WriteMarker, ActivateMarker, Paths
  <1>2. entries[Root] \cup {"tmp"} \in SUBSET Names
    BY <1>1 DEF Names, Markers
  <1>3. (entries[Root] \ {"tmp"}) \cup {"P"} \in SUBSET Names
    BY <1>1 DEF Names, Markers
  <1>4. Safe
    BY <1>1, <1>2, <1>3, RootEdit DEF RInv, WriteMarker, ActivateMarker, Add, RenameEntry
  <1>5. StepInv' /\ AuthorityInv'
    BY <1>1 DEF RInv, StepInv, AuthorityInv, Positions, RecoverySteps, TransactionSteps,
       WriteMarker, ActivateMarker, Add, RenameEntry, Goto
  <1> QED  BY <1>4, <1>5 DEF RecoveryKept, Safe, RInv

(* Provisioning adds payload to a root that was never committed. *)
LEMMA ProvisionKeeps == ASSUME RInv, Provision PROVE RecoveryKept
  <1>1. /\ Root \in exists /\ Root \in Paths /\ entries[Root] \in SUBSET Names
        /\ Root \notin owned /\ "M" \notin entries[Root]
    BY DEF RInv, StepInv, DiskInv, Provision, Paths
  <1>2. CASE Whole(Root) /\ UNCHANGED fs /\ Goto("quiesce")
    <2>1. StepInv' /\ AuthorityInv'
      BY <1>1, <1>2 DEF RInv, StepInv, AuthorityInv, Positions, RecoverySteps,
         TransactionSteps, Provision, Goto, Whole, fs
    <2> QED  BY <1>2, <2>1, SameDisk DEF RecoveryKept, Safe, RInv
  <1>3. ASSUME NEW x \in Payload, Add(Root, x), Goto("provision") PROVE RecoveryKept
    <2>1. entries[Root] \cup {x} \in SUBSET Names /\ "M" \notin entries[Root] \cup {x}
      BY <1>1, RecoveryAssumption DEF Names, Markers
    <2>2. Safe
      BY <1>1, <1>3, <2>1, RootEdit DEF RInv, Add
    <2>3. StepInv' /\ AuthorityInv'
      BY <1>1, <1>3 DEF RInv, StepInv, AuthorityInv, Positions, RecoverySteps,
         TransactionSteps, Provision, Add, Goto
    <2> QED  BY <2>2, <2>3 DEF RecoveryKept, Safe, RInv
  <1> QED  BY <1>2, <1>3 DEF Provision, fs

(* P becomes C before the manifest is written. *)
LEMMA RevokeKeeps == ASSUME RInv, Revoke PROVE RecoveryKept
  <1>1. /\ Root \in exists /\ Root \in Paths /\ entries[Root] \in SUBSET Names
        /\ Root \notin owned /\ "M" \notin entries[Root] /\ Whole(Root)
    BY DEF RInv, StepInv, DiskInv, Revoke, Paths
  <1>2. (entries[Root] \ {"P"}) \cup {"C"} \in SUBSET Names
    BY <1>1 DEF Names, Markers
  <1>3. Safe
    BY <1>1, <1>2, RootEdit DEF RInv, Revoke, RenameEntry
  <1>4. Whole(Root)'
    BY <1>1, RecoveryAssumption DEF RInv, DiskInv, Revoke, RenameEntry, Whole, Markers
  <1>5. StepInv' /\ AuthorityInv'
    BY <1>1, <1>4 DEF RInv, StepInv, AuthorityInv, Positions, RecoverySteps, TransactionSteps,
       Revoke, RenameEntry
  <1> QED  BY <1>3, <1>5 DEF RecoveryKept, Safe, RInv

(* C becomes P again only while the root was never committed. *)
LEMMA RollBackKeeps == ASSUME RInv, RollBack PROVE RecoveryKept
  <1>1. Safe
    <2>1. CASE /\ authority = "Reinstatable" /\ "C" \in entries[Root]
               /\ RenameEntry(Root, "C", "P")
      <3>1. /\ Root \in exists /\ entries[Root] \in SUBSET Names
            /\ Root \notin owned /\ "M" \notin entries[Root]
        BY <2>1 DEF RInv, AuthorityInv, DiskInv, RollBack, Paths
      <3>2. (entries[Root] \ {"C"}) \cup {"P"} \in SUBSET Names
        BY <3>1 DEF Names, Markers
      <3> QED  BY <2>1, <3>1, <3>2, RootEdit DEF RInv, RenameEntry
    <2> QED  BY <2>1, SameDisk DEF RollBack
  <1>2. StepInv'
    BY DEF RInv, StepInv, RollBack, CallRecover, Positions, RecoverySteps, TransactionSteps
  <1>3. AuthorityInv'
    BY DEF RInv, AuthorityInv, RollBack, CallRecover, RecoverySteps
  <1> QED  BY <1>1, <1>2, <1>3 DEF RecoveryKept, Safe, RInv

(* A reset renames a root that is whole and holds no P. *)
LEMMA PreserveForResetKeeps == ASSUME RInv, PreserveForReset PROVE RecoveryKept
  <1>0. Root \in Paths /\ Backup \in Paths /\ Root # Backup
    BY DEF Paths, Root, Backup
  <1>1. Safe
    <2>1. CASE UNCHANGED fs
      BY <2>1, SameDisk
    <2>2. CASE RootState = "Empty" /\ RemoveDir(Root)
      BY <2>2, RootFacts, DirRemoved DEF RInv
    <2>3. CASE RootState \in {"Committed", "LegacyValid"} /\ Move(Root, Backup)
      <3>1. "P" \notin entries[Root]
        BY <2>3, RootFacts DEF RInv
      <3>2. Whole(Root) \/ Root \notin owned
        BY <1>0 DEF RInv, WholeInv
      <3> QED  BY <1>0, <2>3, <3>1, <3>2, DirMoved DEF RInv
    <2> QED  BY <2>1, <2>2, <2>3 DEF PreserveForReset
  <1>2. pc = "preserve" /\ (Goto("begin") \/ CallRecover("end"))
    BY DEF PreserveForReset
  <1>3. StepInv'
    BY <1>2 DEF RInv, StepInv, Goto, CallRecover, Positions, RecoverySteps, TransactionSteps
  <1>4. AuthorityInv'
    BY <1>2 DEF RInv, AuthorityInv, Goto, CallRecover, RecoverySteps
  <1> QED  BY <1>1, <1>3, <1>4 DEF RecoveryKept, Safe, RInv

(* A new root is empty and was never a prefix. *)
LEMMA CreateRootKeeps == ASSUME RInv, CreateRoot PROVE RecoveryKept
  <1>0. Root \in Paths /\ Root # Backup
    BY DEF Paths, Root, Backup
  <1>1. entries[Root] = {} /\ Root \notin owned
    <2>1. entries[Root] = {}
      BY RootFacts DEF RInv, CreateRoot
    <2> QED  BY <1>0, <2>1, RecoveryAssumption DEF RInv, WholeInv, Whole
  <1>2. Safe
    BY <1>0, <1>1 DEF Safe, RInv, DiskInv, WholeInv, Whole, CreateRoot
  <1>3. StepInv' /\ AuthorityInv'
    BY <1>0, <1>1 DEF RInv, StepInv, AuthorityInv, CreateRoot, Goto, Positions,
       RecoverySteps, TransactionSteps
  <1> QED  BY <1>2, <1>3 DEF RecoveryKept, Safe, RInv

-----------------------------------------------------------------------------
(* Steps that touch no directory. *)
LEMMA QuietKeeps ==
    ASSUME RInv, UNCHANGED fs,
           Decide \/ Shutdown \/ Quiesce \/ TransactionFails \/ StartSession
    PROVE  RecoveryKept
  <1>1. StepInv'
    <2>1. entries[Root] # {} => Root \in exists
      BY DEF RInv, DiskInv, Paths
    <2> QED
      BY <2>1 DEF RInv, StepInv, fs, Whole, Positions, RecoverySteps, TransactionSteps, Goto,
         Decide, Shutdown, Quiesce, TransactionFails, StartSession
  <1>2. AuthorityInv'
    BY DEF RInv, StepInv, AuthorityInv, fs, RecoverySteps, TransactionSteps, Goto,
       Decide, Shutdown, Quiesce, TransactionFails, StartSession
  <1> QED  BY <1>1, <1>2, SameDisk DEF RecoveryKept, Safe, RInv

(* An error that is returned and a kill leave the directories as they are. *)
LEMMA ReleasedKeeps == ASSUME RInv, OperationFails \/ Crash PROVE RecoveryKept
  BY SameDisk, ReleaseStep DEF OperationFails, Crash, RecoveryKept, Safe

(* Steps of others. *)
LEMMA IdleKeeps == ASSUME RInv, UNCHANGED <<fs, control>> PROVE RecoveryKept
  <1>1. StepInv' /\ AuthorityInv'
    BY DEF RInv, StepInv, AuthorityInv, fs, control, Whole
  <1> QED  BY <1>1, SameDisk DEF RecoveryKept, Safe, RInv

(* Setup and reset begin, resume under the second guard, or give up. *)
LEMMA CallerKeeps ==
    ASSUME RInv, NEW k \in {"setup", "reset"}, Start(k) \/ Resume(k) \/ GiveUp(k)
    PROVE  RecoveryKept
  <1>1. CASE UNCHANGED <<fs, control>>
    BY <1>1, IdleKeeps
  <1>2. CASE /\ pc = "idle" /\ pc' = "recover"
             /\ UNCHANGED <<fs, todo, authority>>
    <2>1. StepInv' /\ AuthorityInv'
      BY <1>2 DEF RInv, StepInv, AuthorityInv, Positions, RecoverySteps, TransactionSteps
    <2> QED  BY <1>2, <2>1, SameDisk DEF RecoveryKept, Safe, RInv
  <1> QED  BY <1>1, <1>2 DEF Start, Resume, GiveUp

(* The receipt of an installation, and damage from outside. *)
LEMMA OutsideKeeps == ASSUME RInv, WriteProtection \/ LoseManifest PROVE RecoveryKept
  <1>0. Root \in Paths
    BY DEF Paths
  <1>1. entries[Root] \in SUBSET Names
    BY <1>0 DEF RInv, DiskInv
  <1>2. pc = "idle" /\ UNCHANGED <<control, exists, owned>>
    BY DEF WriteProtection, LoseManifest, Add, Remove, RenameEntry
  <1>3. "M" \in entries[Root] /\ Root \in owned /\ Root \in exists /\ Payload \subseteq entries[Root]
    <2>1. "M" \in entries[Root]
      BY RootFacts DEF RInv, WriteProtection, LoseManifest
    <2>2. Root \in owned
      BY <1>0, <2>1 DEF RInv, DiskInv
    <2> QED
      BY <2>1, <2>2 DEF RInv, DiskInv, WholeInv, Whole, Root, Backup
  <1>4. "P" \notin entries[Root]
    BY <1>0, <1>3 DEF RInv, DiskInv
  <1>5. Safe
    <2>1. PICK e \in {entries[Root] \cup {"I"}, entries[Root] \ {"M"},
                      (entries[Root] \ {"M"}) \cup {"BadM"}} :
            entries' = [entries EXCEPT ![Root] = e]
      BY DEF WriteProtection, LoseManifest, Add, Remove, RenameEntry
    <2>2. e \in SUBSET Names /\ "P" \notin e /\ Payload \subseteq e
      BY <1>1, <1>3, <1>4, RecoveryAssumption DEF Names, Markers
    <2> QED  BY <1>2, <1>3, <2>1, <2>2, RootEdit DEF RInv
  <1>6. StepInv' /\ AuthorityInv'
    BY <1>2 DEF RInv, StepInv, AuthorityInv, control, Positions, RecoverySteps, TransactionSteps
  <1> QED  BY <1>5, <1>6 DEF RecoveryKept, Safe, RInv

-----------------------------------------------------------------------------
(* Whatever older builds left satisfies the invariant. *)
LEMMA InitRInv == Init => RInv
  <1> SUFFICES ASSUME Init PROVE RInv
    OBVIOUS
  <1>0. Root \in Paths /\ Backup \in Paths /\ Root # Backup
    BY DEF Paths, Root, Backup
  <1>1. \A p \in Paths : entries[p] \in {{}, Payload, {"L"}} \cup Configured
    BY DEF Init
  <1>2. \A p \in Paths : /\ entries[p] \in SUBSET Names
                         /\ "P" \notin entries[p]
                         /\ "M" \in entries[p] => entries[p] \in Configured
    BY <1>1, RecoveryAssumption DEF Configured, Names, Markers
  <1>3. \A p \in owned : p \in Paths /\ entries[p] # {} /\ Whole(p)
    BY RecoveryAssumption DEF Init, Configured, Whole
  <1>4. entries \in [Paths -> SUBSET Names]
    BY <1>2 DEF Init
  <1>5. exists \subseteq Paths /\ \A p \in Paths : entries[p] # {} => p \in exists
    BY <1>0 DEF Init
  <1>6. DiskInv
    <2>1. owned \subseteq exists
      BY <1>3, <1>5
    <2>2. \A p \in Paths : "M" \in entries[p] => p \in owned
      BY <1>2 DEF Init
    <2> QED  BY <1>2, <1>4, <1>5, <2>1, <2>2 DEF DiskInv
  <1>7. WholeInv
    BY <1>3 DEF WholeInv, Init
  <1>8. StepInv /\ AuthorityInv
    BY DEF Init, StepInv, AuthorityInv, Positions, RecoverySteps, TransactionSteps,
       Nothing, Do, Paths, NoPath
  <1> QED  BY <1>6, <1>7, <1>8 DEF RInv

(* Every step keeps the invariant, and a configured prefix once there is one. *)
LEMMA NextKeeps == ASSUME RInv, Next PROVE RecoveryKept
  <1>1. CASE \/ Recover \/ RemoveEmptyBackup \/ ClearRoot \/ DiscardRoot \/ Restore
             \/ Unmark \/ Invalidate \/ PurgeBackup \/ RecoveryFails
    BY <1>1, RecoverKeeps, RemoveEmptyBackupKeeps, ClearRootKeeps, DiscardRootKeeps,
       RestoreKeeps, UnmarkKeeps, InvalidateKeeps, PurgeBackupKeeps, RecoveryFailsKeeps
  <1>2. CASE \/ Repair \/ RewriteManifest \/ PreserveForReset \/ CreateRoot \/ WriteMarker
             \/ ActivateMarker \/ Provision \/ Revoke \/ CommitManifest \/ RollBack
    BY <1>2, RepairKeeps, RewriteManifestKeeps, PreserveForResetKeeps, CreateRootKeeps,
       MarkerKeeps, ProvisionKeeps, RevokeKeeps, CommitManifestKeeps, RollBackKeeps
  <1>3. CASE Decide \/ Shutdown \/ Quiesce \/ TransactionFails \/ StartSession
    <2>1. UNCHANGED fs
      BY <1>3 DEF Decide, Shutdown, Quiesce, TransactionFails, StartSession
    <2> QED  BY <1>3, <2>1, QuietKeeps
  <1>4. CASE OperationFails \/ Crash
    BY <1>4, ReleasedKeeps
  <1>5. CASE UsePrefix \/ ProcessesEnd
    BY <1>5, IdleKeeps DEF UsePrefix, ProcessesEnd
  <1>6. CASE WriteProtection \/ LoseManifest
    BY <1>6, OutsideKeeps
  <1>7. CASE \E k \in {"setup", "reset"} : Start(k) \/ Resume(k) \/ GiveUp(k)
    BY <1>7, CallerKeeps
  <1> QED  BY <1>1, <1>2, <1>3, <1>4, <1>5, <1>6, <1>7 DEF Next, Operation

(* Stuttering included. *)
LEMMA StepKeeps == ASSUME RInv, [Next]_vars PROVE RecoveryKept
  <1>1. CASE UNCHANGED vars
    BY <1>1, IdleKeeps DEF vars, fs, control
  <1> QED  BY <1>1, NextKeeps

-----------------------------------------------------------------------------
(* The inductive invariant of the recovery protocol: it holds from every
   layout older builds left and through every system call, error and kill of
   setup, reset and recover(). *)
THEOREM RecoveryInvariant == Spec => []RInv
  <1>1. Init => RInv
    BY InitRInv
  <1>2. RInv /\ [Next]_vars => RInv'
    BY StepKeeps DEF RecoveryKept
  <1> QED  BY <1>1, <1>2, PTL DEF Spec

(* recovery.rs invariant 1: a directory that was ever committed never holds
   the marker that authorises deleting it. *)
THEOREM RollbackOnlyUncommittedHolds == Spec => []RollbackOnlyUncommitted
  <1>1. RInv => RollbackOnlyUncommitted
    BY DEF RInv, DiskInv, RollbackOnlyUncommitted
  <1> QED  BY <1>1, RecoveryInvariant, PTL

(* recovery.rs invariant 3: nothing incomplete classifies as restorable. *)
THEOREM RestorableIsWholeHolds == Spec => []RestorableIsWhole
  <1>1. RInv => RestorableIsWhole
    BY RestorableFacts DEF RInv, RestorableIsWhole
  <1> QED  BY <1>1, RecoveryInvariant, PTL

(* The purpose of recovery.rs: no step of a setup, a reset, a recovery or a
   crash between two of their system calls takes the last complete configured
   prefix away. *)
THEOREM DataSurvivesHolds == Spec => DataSurvives
  <1>1. RInv /\ RInv' /\ [Next]_vars => [HasData => HasData']_vars
    <2> SUFFICES ASSUME RInv, RInv', [Next]_vars, HasData PROVE HasData'
      OBVIOUS
    <2>1. owned # {} /\ owned' # {}
      BY OwnedIsData, StepKeeps DEF RInv, RecoveryKept
    <2>2. HasData' <=> (owned # {})'
      BY OwnedIsData, PTL DEF RInv
    <2> QED  BY <2>1, <2>2
  <1> QED  BY <1>1, RecoveryInvariant, PTL DEF Spec, DataSurvives
-----------------------------------------------------------------------------
(* Convergence.  What no directory ever holds, whoever damaged its manifest. *)
ShapeInv ==
    /\ \A p \in Paths \ {Backup} : entries[p] \cap {"TM", "TL"} = {}
    /\ \A p \in Paths \ {Root} : entries[p] \cap {"I", "BadM", "P", "tmp", "C"} = {}
    /\ BackupState(Backup) # "Foreign"
    /\ "P" \in entries[Root] => entries[Root] \subseteq {"P"} \cup Payload
    /\ "tmp" \in entries[Root] => entries[Root] = {"tmp"}
    /\ "BadM" \in entries[Root] => lost /\ "M" \notin entries[Root]

(* Beside a backup the root holds nothing, or a marker that says what it is;
   it is committed before the backup is removed. *)
CoverInv ==
    ~lost => /\ entries[Backup] # {} /\ entries[Root] # {} /\ Evidence = {} => "M" \in entries[Root]
             /\ BackupState(Backup) = "Removing" => "M" \in entries[Root]

(* What each position of the operation implies. *)
PlaceInv ==
    /\ pc = "tmp" => entries[Root] = {}
    /\ pc = "mark" => entries[Root] = {"tmp"}
    /\ pc \in {"provision", "quiesce", "revoke"} => "P" \in entries[Root]
    /\ pc = "commit" => "C" \in entries[Root] /\ entries[Root] \subseteq {"C"} \cup Payload
    /\ pc = "failed" /\ authority = "Reinstatable" => entries[Root] \subseteq {"P", "C"} \cup Payload
    /\ pc = "discard" => "P" \in entries[Root] \/ entries[Root] = {}
    /\ pc \in {"unmark", "invalidate", "purge"} => "M" \in entries[Root]
    /\ pc \in {"invalidate", "purge"} => Evidence = {}
    /\ pc = "purge" => BackupState(Backup) \in {"Removing", "Empty"}
    /\ pc = "empty" => todo = Decision
    /\ pc \in {"clear", "discard", "restore"} /\ todo.from \in Legacy => entries[Backup] = {}
    /\ pc \in {"clear", "discard", "restore"} => BackupState(Backup) # "Removing"
    /\ pc \in {"repair", "rewrite"} => Evidence = {} /\ entries[Backup] = {}
    /\ pc = "decide" => Decision = Nothing
    /\ pc \in {"decide", "repair", "rewrite"} \/ (pc \in RecoverySteps /\ ret = "under") =>
         "BadM" \notin entries[Root]

CInv == ShapeInv /\ CoverInv /\ PlaceInv

(* What a step must show: the invariant of convergence, and that the roots
   recovery may not touch are still there. *)
Protects ==
    /\ RootState = "Foreign" \/ (RootState = "CommitPending" /\ pc # "failed")
         => Root \in exists' /\ entries[Root] \ {"C"} \subseteq entries'[Root]
    /\ \A p \in Paths : "I" \in entries[p] =>
         p = Root /\ entries[Root] \ {"P", "tmp", "C", "M", "BadM"} \subseteq entries'[Root]
Closes == CInv' /\ Protects

(* The classes of a backup, by what it holds. *)
LEMMA BackupKinds ==
    ASSUME DiskInv
    PROVE  /\ BackupState(Backup) \in {"Absent", "Empty", "Foreign", "Removing", "Restorable"}
           /\ entries[Backup] = {} <=> BackupState(Backup) \in {"Absent", "Empty"}
           /\ EffectiveBackup = "Absent" <=> entries[Backup] = {}
           /\ EffectiveBackup # "Absent" => EffectiveBackup = BackupState(Backup)
  BY DEF DiskInv, BackupState, EffectiveBackup, Paths

(* The classes of a root. *)
LEMMA RootKinds ==
    ASSUME DiskInv
    PROVE  /\ RootState \in {"Absent", "Empty", "PendingMarker", "Foreign", "Committed", "Stale",
                             "CommitPending", "Provisioning", "LegacyValid"}
           /\ RootState \in {"Absent", "Empty"} <=> entries[Root] = {}
           /\ RootState = "Absent" <=> Root \notin exists
           /\ RootState = "PendingMarker" <=> entries[Root] = {"tmp"}
           /\ RootState \in {"Committed", "LegacyValid"} => Evidence = {}
           /\ RootState = "Stale" => Evidence # {}
           /\ RootState = "LegacyValid" => Whole(Root) /\ "L" \in entries[Root] /\ ~v3
           /\ RootState \in {"Committed", "LegacyValid", "Stale"} => "BadM" \notin entries[Root]
           /\ RootState = "CommitPending" => "C" \in entries[Root] /\ "P" \notin entries[Root]
  BY DEF DiskInv, RootState, Evidence, Paths

(* What single entries of the root say about its class. *)
LEMMA RootHolds ==
    ASSUME DiskInv, ShapeInv
    PROVE  /\ "M" \in entries[Root] => RootState \in {"Committed", "Stale"}
           /\ "P" \in entries[Root] => RootState = "Provisioning"
           /\ RootState \in {"Foreign", "CommitPending"} =>
                "P" \notin entries[Root] /\ "tmp" \notin entries[Root]
           /\ RootState \in {"Foreign", "LegacyValid"} /\ ~lost =>
                Evidence = {} /\ "M" \notin entries[Root] /\ entries[Root] # {}
  <1>1. "M" \notin Payload /\ "C" \notin Payload /\ "tmp" \notin Payload /\ "I" \notin Payload
        /\ "L" \notin Payload /\ "BadM" \notin Payload
    BY RecoveryAssumption DEF Markers
  <1>2. "P" \in entries[Root] =>
          /\ "M" \notin entries[Root] /\ "C" \notin entries[Root] /\ "tmp" \notin entries[Root]
          /\ "I" \notin entries[Root] /\ "L" \notin entries[Root] /\ "BadM" \notin entries[Root]
    BY <1>1 DEF ShapeInv
  <1>3. "tmp" \in entries[Root] => entries[Root] = {"tmp"}
    BY DEF ShapeInv
  <1>4. "BadM" \in entries[Root] => lost /\ "M" \notin entries[Root]
    BY DEF ShapeInv
  <1> QED BY <1>2, <1>3, <1>4 DEF DiskInv, RootState, Evidence, Paths

(* What the table decides beside a backup and beside none. *)
LEMMA DecisionHolds ==
    ASSUME DiskInv, ShapeInv
    PROVE  /\ Decision.from \in Legacy => entries[Backup] = {}
           /\ Decision.act = "discard" => Decision.from \in {NoPath, Backup}
           /\ "M" \in entries[Root] /\ Evidence = {} /\ entries[Backup] = {} => Decision = Nothing
           /\ Decision = Nothing => Evidence = {} /\ entries[Backup] = {}
           /\ Decision.act = "clear" => entries[Root] \subseteq {"tmp"}
           /\ Decision.act = "discard" => "P" \in entries[Root]
           /\ Decision.act = "complete" => "M" \in entries[Root]
           /\ Decision.act \in {"clear", "discard"} => BackupState(Backup) # "Removing"
           /\ Decision # Nothing /\ Decision # Refuse =>
                Decision.act \in {"clear", "discard", "complete"}
  <1> DEFINE l == CHOOSE p \in Legacy : LegacyRestorable = {p}
  <1> HIDE DEF l
  <1>1. (\E p \in Legacy : LegacyRestorable = {p}) => EffectiveBackup = "Absent" /\ l \in Legacy
    BY DEF LegacyRestorable, l
  <1>6. plan \in {Refuse, Nothing, Do("complete", NoPath), Do("clear", NoPath), Do("clear", Backup),
                  Do("discard", NoPath), Do("discard", Backup), Do("clear", l)}
    BY DEF plan, PlanFor, l, Nothing, Refuse
  <1>7. plan.act \in {"clear", "discard"} =>
          /\ EffectiveBackup # "Removing"
          /\ RootState \in {"Absent", "Empty", "PendingMarker", "Provisioning"}
    BY DEF plan, PlanFor, Do, Refuse, Nothing
  <1>8. /\ plan.act = "discard" => RootState = "Provisioning"
        /\ plan.act = "clear" => RootState # "Provisioning"
        /\ plan.act = "complete" => RootState \in {"Committed", "Stale"}
    BY DEF plan, PlanFor, Do, Refuse, Nothing
  <1>9. /\ RootState = "Committed" /\ EffectiveBackup = "Absent" => plan = Nothing
        /\ plan = Nothing => EffectiveBackup = "Absent"
    BY <1>1, RootKinds, BackupKinds DEF plan, PlanFor, Do, Refuse, Nothing
  <1>10. plan.from \in Legacy => EffectiveBackup = "Absent"
    BY <1>1, RecoveryAssumption DEF plan, PlanFor, Do, Refuse, Nothing, l, Root, Backup, NoPath
  <1>2. /\ plan.from \in Legacy => EffectiveBackup = "Absent"
        /\ plan.act = "discard" => plan.from \in {NoPath, Backup}
        /\ RootState = "Committed" /\ EffectiveBackup = "Absent" => plan = Nothing
        /\ plan = Nothing => EffectiveBackup = "Absent"
        /\ plan.act = "clear" => RootState \in {"Absent", "Empty", "PendingMarker"}
        /\ plan.act = "discard" => RootState = "Provisioning"
        /\ plan.act = "complete" => RootState \in {"Committed", "Stale"}
        /\ plan.act \in {"clear", "discard"} => EffectiveBackup # "Removing"
        /\ plan # Nothing /\ plan # Refuse => plan.act \in {"clear", "discard", "complete"}
    BY <1>6, <1>7, <1>8, <1>9, <1>10 DEF Do, Refuse, Nothing
  <1>3. Decision \in {plan, Refuse} /\ (plan = Nothing => Decision = Nothing <=> Evidence = {})
    BY DEF Decision, Refuse, Nothing, Do
  <1>4. Refuse.from = NoPath /\ Refuse.act = "refuse" /\ Refuse # Nothing /\ NoPath \notin Legacy
    BY RecoveryAssumption DEF Refuse, Nothing, Do
  <1>5. "M" \in entries[Root] /\ Evidence = {} => RootState = "Committed"
    BY RootHolds, RootKinds
  <1> QED BY <1>2, <1>3, <1>4, <1>5, BackupKinds, RootFacts

(* The gate of binding resolution and the recovery table read the same
   directories the same way. *)
LEMMA GateAndTable == ASSUME DiskInv PROVE GateAgrees
  <1> DEFINE l == CHOOSE p \in Legacy : LegacyRestorable = {p}
  <1> HIDE DEF l
  <1>1. (\E p \in Legacy : LegacyRestorable = {p}) => l \in Legacy
    BY DEF l
  <1>2. InTransaction <=> EffectiveBackup # "Absent" \/ Evidence # {}
    BY BackupKinds DEF InTransaction
  <1>3. EffectiveBackup = "Foreign" <=> BackupState(Backup) = "Foreign"
    BY BackupKinds DEF EffectiveBackup
  <1>4. EffectiveBackup \in {"Absent", "Foreign", "Removing", "Restorable"}
    BY BackupKinds
  <1>5. RootState \in {"PendingMarker", "Provisioning", "CommitPending", "Stale"} => Evidence # {}
    BY DEF RootState, Evidence
  <1>6. RootState \in {"Absent", "Empty"} => Evidence = {}
    BY RootFacts DEF Evidence
  <1>7. plan \in {Refuse, Nothing, Do("complete", NoPath), Do("clear", NoPath), Do("clear", Backup),
                  Do("discard", NoPath), Do("discard", Backup), Do("clear", l)}
    BY DEF plan, PlanFor, l, Nothing, Refuse
  <1>8. CASE ~InTransaction
    <2>1. TransactionGate = "NoTransactionEvidence"
      BY <1>8 DEF TransactionGate
    <2>2. plan = Nothing \/ plan.from \in Legacy
      BY <1>1, <1>2, <1>5, <1>8, RootKinds DEF plan, PlanFor, l, Do
    <2>3. Decision = plan
      BY <1>2, <1>8 DEF Decision
    <2> QED BY <2>1, <2>2, <2>3 DEF GateAgrees
  <1>9. CASE InTransaction /\ RootState \in {"Committed", "Stale"} /\ BackupState(Backup) # "Foreign"
    <2>1. TransactionGate = "CommittedValid"
      BY <1>9 DEF TransactionGate
    <2>2. plan = Do("complete", NoPath)
      BY <1>2, <1>3, <1>9, RootKinds DEF plan, PlanFor
    <2>3. Decision.act = "complete"
      BY <2>2 DEF Decision, Do, Nothing
    <2> QED BY <2>1, <2>3 DEF GateAgrees
  <1>10. CASE /\ InTransaction
              /\ RootState \in {"Absent", "Empty", "PendingMarker", "Provisioning", "CommitPending"}
    <2>1. TransactionGate = "PendingTransaction"
      BY <1>10 DEF TransactionGate
    <2>2. plan.act # "complete"
      BY <1>10 DEF plan, PlanFor, Do, Nothing, Refuse
    <2>3. Decision.act # "complete"
      BY <2>2 DEF Decision, Do, Refuse
    <2> QED BY <2>1, <2>3 DEF GateAgrees
  <1>11. CASE /\ InTransaction
              /\ \/ RootState \in {"Committed", "Stale"} /\ BackupState(Backup) = "Foreign"
                 \/ RootState \in {"Foreign", "LegacyValid"}
    <2>1. TransactionGate = "AmbiguousTransaction"
      BY <1>11 DEF TransactionGate
    <2>2. plan = Refuse \/ (plan = Nothing /\ EffectiveBackup = "Absent")
      BY <1>3, <1>4, <1>11 DEF plan, PlanFor
    <2>3. Decision = Refuse
      BY <1>2, <1>11, <2>2 DEF Decision
    <2> QED BY <2>1, <2>3 DEF GateAgrees
  <1> QED BY <1>8, <1>9, <1>10, <1>11, RootKinds

(* The invariant is what RecoveryConverges needs. *)
LEMMA ConvergesByInvariant == ASSUME DiskInv, CInv PROVE RecoveryConverges
  <1>1. ClosedOnlyWhenAmbiguous
    <2> SUFFICES ASSUME ~lost, RootState # "CommitPending" PROVE Decision # Refuse
      BY DEF ClosedOnlyWhenAmbiguous
    <2>1. EffectiveBackup # "Foreign"
      BY BackupKinds DEF CInv, ShapeInv
    <2>2. EffectiveBackup = "Removing" => RootState \in {"Committed", "Stale"}
      BY BackupKinds, RootHolds DEF CInv, CoverInv
    <2>3. RootState \in {"Foreign", "LegacyValid"} => EffectiveBackup = "Absent" /\ Evidence = {}
      BY BackupKinds, RootHolds DEF CInv, CoverInv
    <2>4. plan # Refuse
      BY <2>1, <2>2, <2>3, RootKinds, BackupKinds DEF plan, PlanFor, Do, Refuse, Nothing
    <2>5. plan = Nothing => Evidence = {}
      <3>1. RootState \in {"PendingMarker", "Provisioning", "Stale"} => plan # Nothing
        BY <2>1, <2>2 DEF plan, PlanFor, Do, Nothing, Refuse
      <3>2. entries[Root] = {} => Evidence = {}
        BY DEF Evidence
      <3> QED BY <2>3, <3>1, <3>2, RootKinds
    <2> QED BY <2>4, <2>5 DEF Decision
  <1>2. RecoveredIsStable
    BY DEF CInv, PlaceInv, RecoveredIsStable
  <1> QED BY <1>1, <1>2, GateAndTable DEF RecoveryConverges
-----------------------------------------------------------------------------
(* Where an operation may go. *)
LEMMA Elsewhere ==
    ASSUME \/ pc' \in {"idle", "begin", "shutdown", "preserve"}
           \/ pc' = "recover" /\ (ret' = "under" => "BadM" \notin entries'[Root])
           \/ pc' = "failed" /\ authority' # "Reinstatable"
    PROVE  PlaceInv'
  BY DEF PlaceInv, RecoverySteps

(* recover() returns under the second guard only when it has nothing to do. *)
LEMMA ReturnPlace ==
    ASSUME CInv, NEW ok, NEW replaced, Return(ok, replaced), pc \in RecoverySteps,
           ok /\ ~replaced => Decision' = Nothing,
           "BadM" \notin entries[Root] => "BadM" \notin entries'[Root]
    PROVE  PlaceInv'
  <1>1. CASE Release
    BY <1>1, Elsewhere DEF Release
  <1>2. CASE ret = "under" /\ ok /\ ~replaced /\ pc' = "decide"
    BY <1>2 DEF CInv, PlaceInv, RecoverySteps
  <1> QED BY <1>1, <1>2 DEF Return

(* A root that loses nothing but markers of the transaction, or one whose
   class allows it to be replaced. *)
LEMMA RootProtected ==
    ASSUME DiskInv, ShapeInv,
           \/ /\ Root \in exists => Root \in exists'
              /\ entries[Root] \ {"P", "tmp", "C"} \subseteq entries'[Root]
           \/ /\ RootState \notin {"Foreign", "CommitPending"}
              /\ "I" \in entries[Root] =>
                   entries[Root] \ {"P", "tmp", "C", "M", "BadM"} \subseteq entries'[Root]
    PROVE  Protects
  <1>1. \A p \in Paths : "I" \in entries[p] => p = Root
    BY DEF ShapeInv
  <1>2. RootState \in {"Foreign", "CommitPending"} => Root \in exists
    BY RootKinds
  <1> QED BY <1>1, <1>2, RootHolds DEF Protects

(* The same directories: only the position can disturb the invariant. *)
LEMMA SameClasses ==
    ASSUME DiskInv, CInv, UNCHANGED <<v3, exists, entries>>, lost \/ ~lost', lost' = lost
    PROVE  /\ ShapeInv' /\ CoverInv' /\ Protects
           /\ Decision' = Decision /\ Evidence' = Evidence
           /\ BackupState(Backup)' = BackupState(Backup)
  <1>1. \A p \in Paths : BackupState(p)' = BackupState(p)
    BY DEF BackupState, Whole
  <1>2. RootState' = RootState /\ Evidence' = Evidence
    BY DEF RootState, Evidence, Whole
  <1>3. Backup \in Paths /\ \A p \in Legacy : p \in Paths
    BY DEF Paths
  <1>4. EffectiveBackup' = EffectiveBackup /\ LegacyRestorable' = LegacyRestorable
    BY <1>1, <1>2, <1>3 DEF EffectiveBackup, LegacyRestorable
  <1>5. Decision' = Decision
    BY <1>2, <1>4 DEF Decision, plan, PlanFor
  <1>6. ShapeInv' /\ CoverInv'
    BY <1>1, <1>2, <1>3 DEF CInv, ShapeInv, CoverInv
  <1>7. Protects
    BY RootProtected DEF CInv
  <1> QED BY <1>1, <1>2, <1>3, <1>5, <1>6, <1>7

(* The entries of the root change. *)
LEMMA RootEntries ==
    ASSUME DiskInv, CInv, NEW e, entries' = [entries EXCEPT ![Root] = e], UNCHANGED <<v3, exists>>,
           lost => lost', e \cap {"TM", "TL"} = {},
           "P" \in e => e \subseteq {"P"} \cup Payload, "tmp" \in e => e = {"tmp"},
           "BadM" \in e => lost' /\ "M" \notin e,
           ~lost' => /\ entries[Backup] # {} /\ e # {} /\ e \cap {"P", "tmp", "C"} = {} => "M" \in e
                     /\ BackupState(Backup) = "Removing" => "M" \in e
    PROVE  /\ ShapeInv' /\ CoverInv'
           /\ entries'[Root] = e /\ entries'[Backup] = entries[Backup]
           /\ BackupState(Backup)' = BackupState(Backup)
  <1>0. Root \in Paths /\ Backup \in Paths /\ Root # Backup
    BY DEF Paths, Root, Backup
  <1>1. entries'[Root] = e /\ \A p \in Paths \ {Root} : entries'[p] = entries[p]
    BY <1>0 DEF DiskInv
  <1>2. BackupState(Backup)' = BackupState(Backup)
    BY <1>0, <1>1 DEF BackupState, Whole
  <1>3. ShapeInv'
    BY <1>0, <1>1, <1>2 DEF CInv, ShapeInv
  <1>4. CoverInv'
    BY <1>0, <1>1, <1>2 DEF CInv, CoverInv, Evidence
  <1> QED BY <1>0, <1>1, <1>2, <1>3, <1>4

(* The entries of the backup change. *)
LEMMA BackupEntries ==
    ASSUME DiskInv, CInv, NEW e, entries' = [entries EXCEPT ![Backup] = e],
           UNCHANGED <<v3, exists, lost>>, e \subseteq entries[Backup] \cup {"TM", "TL"},
           BackupState(Backup)' \in {"Removing", "Empty"}, "M" \in entries[Root]
    PROVE  /\ ShapeInv' /\ CoverInv' /\ Protects
           /\ entries'[Backup] = e /\ entries'[Root] = entries[Root]
  <1>0. Root \in Paths /\ Backup \in Paths /\ Root # Backup
    BY DEF Paths, Root, Backup
  <1>1. entries'[Backup] = e /\ \A p \in Paths \ {Backup} : entries'[p] = entries[p]
    BY <1>0 DEF DiskInv
  <1>2. ShapeInv'
    BY <1>0, <1>1 DEF CInv, ShapeInv
  <1>3. CoverInv'
    BY <1>0, <1>1 DEF CInv, CoverInv, Evidence
  <1>4. Protects
    BY <1>0, <1>1, RootProtected DEF CInv
  <1> QED BY <1>0, <1>1, <1>2, <1>3, <1>4

(* An empty directory is removed. *)
LEMMA EmptyRemoved ==
    ASSUME DiskInv, CInv, NEW p \in {Root, Backup}, entries[p] = {}, RemoveDir(p),
           UNCHANGED <<v3, lost>>
    PROVE  /\ ShapeInv' /\ CoverInv' /\ Protects /\ Evidence' = Evidence
           /\ p = Root => BackupState(Backup)' = BackupState(Backup)
  <1>0. Root \in Paths /\ Backup \in Paths /\ Root # Backup
    BY DEF Paths, Root, Backup
  <1>1. exists' = exists \ {p} /\ entries' = entries
    BY DEF RemoveDir
  <1>2. BackupState(Backup)' = IF p = Backup THEN "Absent" ELSE BackupState(Backup)
    BY <1>0, <1>1 DEF BackupState, Whole
  <1>3. ShapeInv' /\ CoverInv' /\ Evidence' = Evidence
    BY <1>1, <1>2 DEF CInv, ShapeInv, CoverInv, Evidence
  <1>4. Protects
    <2>1. CASE p = Backup
      BY <1>0, <1>1, <2>1, RootProtected DEF CInv
    <2>2. CASE p = Root
      BY <1>1, <2>2, RootProtected, RootKinds DEF CInv
    <2> QED BY <2>1, <2>2
  <1> QED BY <1>0, <1>2, <1>3, <1>4

(* A directory is renamed: a backup or an older one to the missing root, or a
   committed root to the missing backup. *)
LEMMA RootRestored ==
    ASSUME DiskInv, CInv, NEW p \in Paths \ {Root}, Move(p, Root), UNCHANGED <<v3, lost>>,
           p # Backup => entries[Backup] = {}, BackupState(Backup) # "Removing"
    PROVE  ShapeInv' /\ CoverInv' /\ Protects /\ "BadM" \notin entries'[Root]
  <1>0. Root \in Paths /\ Backup \in Paths /\ Root # Backup
    BY DEF Paths, Root, Backup
  <1>1. /\ entries'[Root] = entries[p] /\ entries'[p] = {}
        /\ \A q \in Paths \ {p, Root} : entries'[q] = entries[q]
        /\ Root \notin exists /\ entries[Root] = {}
    BY <1>0 DEF DiskInv, Move
  <1>2. entries[p] \cap {"I", "BadM", "P", "tmp", "C"} = {}
    BY DEF CInv, ShapeInv
  <1>3. entries[p] \cap {"TM", "TL"} = {}
    <2>1. CASE p = Backup
      <3>1. BackupState(Backup) \notin {"Removing", "Foreign"}
        BY DEF CInv, ShapeInv
      <3> QED BY <1>0, <2>1, <3>1 DEF DiskInv, BackupState
    <2> QED BY <2>1 DEF CInv, ShapeInv
  <1>4. entries'[Backup] = {}
    BY <1>0, <1>1
  <1>5. BackupState(Backup)' \in {"Absent", "Empty"}
    BY <1>4 DEF BackupState
  <1>6. ShapeInv'
    BY <1>0, <1>1, <1>2, <1>3, <1>5 DEF CInv, ShapeInv
  <1>7. CoverInv'
    BY <1>4, <1>5 DEF CoverInv
  <1>8. Protects
    BY <1>1, RootProtected, RootKinds DEF CInv
  <1> QED BY <1>1, <1>2, <1>6, <1>7, <1>8

(* preserve_for_reset: the committed root becomes the backup. *)
LEMMA RootPreserved ==
    ASSUME DiskInv, CInv, Move(Root, Backup), UNCHANGED <<v3, lost>>,
           RootState \in {"Committed", "LegacyValid"}, "I" \notin entries[Root]
    PROVE  ShapeInv' /\ CoverInv' /\ Protects /\ entries'[Root] = {}
  <1>0. Root \in Paths /\ Backup \in Paths /\ Root # Backup
    BY DEF Paths, Root, Backup
  <1>1. /\ entries'[Backup] = entries[Root] /\ entries'[Root] = {}
        /\ \A q \in Paths \ {Backup, Root} : entries'[q] = entries[q]
        /\ Backup \in exists'
    BY <1>0 DEF DiskInv, Move
  <1>2. /\ entries[Root] \cap {"I", "BadM", "P", "tmp", "C", "TM", "TL"} = {}
        /\ entries[Root] # {}
    BY <1>0, RootKinds, RootFacts DEF CInv, ShapeInv, Evidence
  <1>3. "M" \in entries[Root] \/ ("L" \in entries[Root] /\ Whole(Root) /\ ~v3)
    BY RootKinds, RootFacts
  <1>4. BackupState(Backup)' = "Restorable"
    BY <1>1, <1>2, <1>3 DEF BackupState, Whole
  <1>5. ShapeInv'
    BY <1>0, <1>1, <1>2, <1>4 DEF CInv, ShapeInv
  <1>6. CoverInv'
    BY <1>1, <1>4 DEF CoverInv
  <1>7. Protects
    BY RootProtected DEF CInv
  <1> QED BY <1>1, <1>5, <1>6, <1>7
-----------------------------------------------------------------------------
(* The steps of recovery. *)
LEMMA RecoverCloses == ASSUME RInv, CInv, Recover PROVE Closes
  <1>0. DiskInv /\ ShapeInv /\ UNCHANGED <<v3, exists, entries, lost>> /\ pc = "recover"
    BY DEF RInv, CInv, Recover, fs
  <1>1. ShapeInv' /\ CoverInv' /\ Protects /\ Decision' = Decision
    BY <1>0, SameClasses
  <1>2. CASE Return(FALSE, FALSE) \/ (Decision = Nothing /\ Return(TRUE, FALSE))
    BY <1>0, <1>1, <1>2, ReturnPlace DEF RecoverySteps, Closes, CInv
  <1>3. CASE /\ Decision # Refuse /\ todo' = Decision /\ ret' = ret
             /\ Decision # Nothing \/ BackupState(Backup) = "Empty"
             /\ pc' = IF BackupState(Backup) = "Empty" THEN "empty" ELSE FirstStep(Decision.act)
    <2>1. ret' = "under" => "BadM" \notin entries'[Root]
      BY <1>0, <1>3 DEF CInv, PlaceInv, RecoverySteps
    <2>2. ASSUME pc' = "empty" PROVE PlaceInv'
      <3>1. todo' = Decision'
        BY <1>1, <1>3
      <3> QED BY <2>1, <2>2, <3>1 DEF PlaceInv
    <2>3. ASSUME pc' = FirstStep(Decision.act), Decision.act \in {"clear", "discard", "complete"}
          PROVE  PlaceInv'
      <3>1. pc' \in {"clear", "discard", "unmark"} /\ todo' = Decision /\ entries' = entries
        BY <1>0, <1>3, <2>3 DEF FirstStep
      <3>2. /\ pc' = "clear" => Decision.act = "clear"
            /\ pc' = "discard" => Decision.act = "discard"
            /\ pc' = "unmark" => Decision.act = "complete"
        BY <2>3 DEF FirstStep
      <3>3. BackupState(Backup)' = BackupState(Backup)
        BY <1>0, SameClasses
      <3> QED BY <1>0, <2>1, <3>1, <3>2, <3>3, DecisionHolds DEF PlaceInv
    <2>4. Decision # Nothing => Decision.act \in {"clear", "discard", "complete"}
      BY <1>0, <1>3, DecisionHolds
    <2>5. PlaceInv'
      BY <1>3, <2>2, <2>3, <2>4
    <2> QED BY <1>1, <2>5 DEF Closes, CInv
  <1> QED BY <1>2, <1>3 DEF Recover

(* recover() removes an empty backup before it acts; the decision stays what it was. *)
LEMMA RemoveEmptyBackupCloses == ASSUME RInv, CInv, RemoveEmptyBackup PROVE Closes
  <1>0. /\ DiskInv /\ ShapeInv /\ entries[Backup] = {} /\ RemoveDir(Backup) /\ pc = "empty"
        /\ UNCHANGED <<v3, lost>> /\ todo = Decision /\ entries' = entries
    BY DEF RInv, StepInv, CInv, PlaceInv, RemoveEmptyBackup, RemoveDir
  <1>1. ShapeInv' /\ CoverInv' /\ Protects /\ Evidence' = Evidence
    BY <1>0, EmptyRemoved
  <1>2. Decision' = Decision
    <2>0. Backup \notin Legacy \cup {Root} /\ exists' = exists \ {Backup}
      BY <1>0, RecoveryAssumption DEF RemoveDir, Root, Backup
    <2>1. RootState' = RootState /\ \A p \in Legacy : BackupState(p)' = BackupState(p)
      BY <1>0, <1>1, <2>0 DEF RootState, BackupState, Whole, Evidence
    <2>2. EffectiveBackup = "Absent" /\ EffectiveBackup' = "Absent"
      BY <1>0, <2>0, BackupKinds DEF EffectiveBackup, BackupState
    <2>3. LegacyRestorable' = LegacyRestorable
      BY <2>1, <2>2 DEF LegacyRestorable
    <2> QED BY <1>1, <2>1, <2>2, <2>3 DEF Decision, plan, PlanFor
  <1>3. CASE todo = Nothing /\ Return(TRUE, FALSE)
    BY <1>0, <1>1, <1>2, <1>3, ReturnPlace DEF RecoverySteps, Closes, CInv
  <1>4. CASE todo # Nothing /\ Goto(FirstStep(todo.act))
    <2>1. ret' = "under" => "BadM" \notin entries'[Root]
      BY <1>0, <1>4 DEF CInv, PlaceInv, RecoverySteps, Goto
    <2>2. todo.act \in {"clear", "discard", "complete"}
      BY <1>0, <1>4, DecisionHolds DEF RInv, StepInv, Refuse, Do
    <2>3. /\ pc' = "clear" => todo.act = "clear"
          /\ pc' = "discard" => todo.act = "discard"
          /\ pc' = "unmark" => todo.act = "complete"
          /\ pc' \in {"clear", "discard", "unmark"} /\ todo' = todo
      BY <1>4, <2>2 DEF FirstStep, Goto
    <2>4. BackupState(Backup)' # "Removing"
      BY <1>0 DEF BackupState, RemoveDir
    <2>5. PlaceInv'
      BY <1>0, <2>1, <2>3, <2>4, DecisionHolds DEF PlaceInv
    <2> QED BY <1>1, <2>5 DEF Closes, CInv
  <1> QED BY <1>3, <1>4 DEF RemoveEmptyBackup

(* clear_non_data_root touches only a root that holds no data. *)
LEMMA ClearRootCloses == ASSUME RInv, CInv, ClearRoot PROVE Closes
  <1>0. DiskInv /\ pc = "clear" /\ UNCHANGED <<v3, lost>> /\ entries[Root] \subseteq {"tmp"}
    BY DEF RInv, StepInv, ClearRoot
  <1>1. CASE "tmp" \in entries[Root]
    <2>1. /\ entries[Root] = {"tmp"} /\ UNCHANGED <<exists, todo, ret>> /\ pc' = "clear"
          /\ entries' = [entries EXCEPT ![Root] = {}]
      BY <1>0, <1>1 DEF ClearRoot, Remove, Goto
    <2>2. BackupState(Backup) # "Removing" \/ lost
      BY <2>1 DEF CInv, CoverInv
    <2>3. /\ ShapeInv' /\ CoverInv' /\ entries'[Root] = {} /\ entries'[Backup] = entries[Backup]
          /\ BackupState(Backup)' = BackupState(Backup)
      BY <1>0, <2>1, <2>2, RootEntries
    <2>4. Protects
      BY <1>0, <2>1, <2>3, RootProtected DEF CInv
    <2>5. PlaceInv'
      BY <1>0, <2>1, <2>3 DEF CInv, PlaceInv
    <2> QED BY <2>3, <2>4, <2>5 DEF Closes, CInv
  <1>2. CASE "tmp" \notin entries[Root]
    <2>1. entries[Root] = {} /\ (RemoveDir(Root) \/ UNCHANGED fs)
      BY <1>0, <1>2 DEF ClearRoot
    <2>2. /\ ShapeInv' /\ CoverInv' /\ Protects /\ entries' = entries
          /\ BackupState(Backup)' = BackupState(Backup)
      <3>1. CASE RemoveDir(Root)
        BY <1>0, <2>1, <3>1, EmptyRemoved DEF RemoveDir, Root, Backup
      <3>2. CASE UNCHANGED fs
        BY <1>0, <3>2, SameClasses DEF fs
      <3> QED BY <2>1, <3>1, <3>2
    <2>3. CASE Return(TRUE, TRUE)
      BY <1>0, <2>2, <2>3, ReturnPlace DEF RecoverySteps, Closes, CInv
    <2>4. CASE Goto("restore")
      <3>1. PlaceInv'
        BY <1>0, <2>1, <2>2, <2>4 DEF CInv, PlaceInv, Goto, RecoverySteps
      <3> QED BY <2>2, <3>1 DEF Closes, CInv
    <2> QED BY <1>2, <2>3, <2>4 DEF ClearRoot
  <1> QED BY <1>1, <1>2

(* discard_partial_root: P, which authorises the deletion, goes last. *)
LEMMA DiscardRootCloses == ASSUME RInv, CInv, DiscardRoot PROVE Closes
  <1>0. /\ DiskInv /\ ShapeInv /\ pc = "discard" /\ UNCHANGED <<v3, lost>>
        /\ "P" \in entries[Root] \/ entries[Root] = {}
    BY DEF RInv, CInv, PlaceInv, DiscardRoot
  <1>1. Return(TRUE, TRUE) \/ Goto("discard") \/ Goto("restore")
    BY DEF DiscardRoot
  <1>2. ASSUME NEW x \in entries[Root], x # "P" \/ entries[Root] = {"P"}, Remove(Root, x)
        PROVE  /\ ShapeInv' /\ CoverInv' /\ Protects
               /\ "P" \in entries'[Root] \/ entries'[Root] = {}
               /\ entries'[Backup] = entries[Backup] /\ entries'[Root] \subseteq entries[Root]
               /\ BackupState(Backup)' = BackupState(Backup)
    <2> DEFINE e == entries[Root] \ {x}
    <2>1. "P" \in entries[Root] /\ entries[Root] \subseteq {"P"} \cup Payload
      BY <1>0, <1>2 DEF ShapeInv
    <2>2. e \cap {"TM", "TL", "tmp", "BadM"} = {} /\ "M" \notin entries[Root]
      BY <2>1, RecoveryAssumption DEF Markers
    <2>3. "P" \in e \/ e = {}
      BY <1>2, <2>1
    <2>4. BackupState(Backup) # "Removing" \/ lost
      BY <2>2 DEF CInv, CoverInv
    <2>5. entries' = [entries EXCEPT ![Root] = e] /\ UNCHANGED exists
      BY <1>2 DEF Remove
    <2>6. /\ ShapeInv' /\ CoverInv' /\ entries'[Root] = e /\ entries'[Backup] = entries[Backup]
          /\ BackupState(Backup)' = BackupState(Backup)
      BY <1>0, <2>1, <2>2, <2>3, <2>4, <2>5, RootEntries
    <2>7. RootState = "Provisioning" /\ "I" \notin entries[Root]
      BY <1>0, <2>1, RootHolds, RecoveryAssumption DEF Markers
    <2>8. Protects
      BY <1>0, <2>7, RootProtected
    <2> QED BY <2>3, <2>6, <2>8
  <1>3. CASE entries[Root] = {} /\ RemoveDir(Root)
    <2>1. /\ ShapeInv' /\ CoverInv' /\ Protects /\ entries' = entries
          /\ BackupState(Backup)' = BackupState(Backup)
      BY <1>0, <1>3, EmptyRemoved DEF RemoveDir, Root, Backup
    <2> QED BY <1>0, <1>1, <1>3, <2>1, ReturnPlace
            DEF RecoverySteps, Closes, CInv, PlaceInv, Goto
  <1>4. CASE \E x \in entries[Root] : (x # "P" \/ entries[Root] = {"P"}) /\ Remove(Root, x)
    <2>1. /\ ShapeInv' /\ CoverInv' /\ Protects
          /\ "P" \in entries'[Root] \/ entries'[Root] = {}
          /\ entries'[Backup] = entries[Backup] /\ entries'[Root] \subseteq entries[Root]
          /\ BackupState(Backup)' = BackupState(Backup)
      BY <1>2, <1>4
    <2> QED BY <1>0, <1>1, <2>1, ReturnPlace
            DEF RecoverySteps, Closes, CInv, PlaceInv, Goto
  <1> QED BY <1>3, <1>4 DEF DiscardRoot, DeleteTreeLast

(* restore_from: the directory that becomes the root carries no marker. *)
LEMMA RestoreCloses == ASSUME RInv, CInv, Restore PROVE Closes
  <1>0. /\ DiskInv /\ pc = "restore" /\ UNCHANGED <<v3, lost>> /\ Move(todo.from, Root)
        /\ Return(TRUE, TRUE)
        /\ todo.from \in Paths \ {Root} /\ (todo.from \in Legacy => entries[Backup] = {})
        /\ todo.from = Backup => Whole(Backup)
    BY DEF RInv, StepInv, CInv, PlaceInv, Restore
  <1>1. todo.from # Backup => todo.from \in Legacy
    BY <1>0 DEF Paths
  <1>2. ShapeInv' /\ CoverInv' /\ Protects /\ "BadM" \notin entries'[Root]
    BY <1>0, <1>1, RootRestored DEF CInv, PlaceInv
  <1> QED BY <1>0, <1>2, ReturnPlace DEF RecoverySteps, Closes, CInv

(* A committed root without markers and without a backup needs nothing. *)
Done == DiskInv /\ ShapeInv /\ "M" \in entries[Root] /\ Evidence = {} /\ entries[Backup] = {}

(* A second recovery of such a root has nothing to do. *)
LEMMA DoneIsStable == Done => Decision = Nothing
  BY DecisionHolds DEF Done

(* The same after a step. *)
LEMMA DoneStaysStable == ASSUME Done' PROVE (Decision = Nothing)'
  BY DoneIsStable, PTL

(* CompleteCommit: the markers are dropped, then the backup is removed or recover()
   returns. *)
LEMMA UnmarkCloses == ASSUME RInv, CInv, Unmark PROVE Closes
  <1>0. /\ DiskInv /\ ShapeInv /\ pc = "unmark" /\ UNCHANGED <<v3, lost>>
        /\ "M" \in entries[Root] /\ "BadM" \notin entries[Root]
    BY DEF RInv, CInv, PlaceInv, ShapeInv, Unmark
  <1>1. "P" \notin entries[Root] /\ "tmp" \notin entries[Root] /\ entries[Root] \cap {"TM", "TL"} = {}
    BY <1>0, RecoveryAssumption DEF ShapeInv, Markers, Paths, Root, Backup
  <1>2. ASSUME NEW x \in Evidence, Remove(Root, x), Goto("unmark") PROVE Closes
    <2> DEFINE e == entries[Root] \ {x}
    <2>1. x \in {"P", "tmp", "C"} /\ "M" \in e
      BY <1>0, <1>2 DEF Evidence
    <2>2. entries' = [entries EXCEPT ![Root] = e] /\ UNCHANGED exists
      BY <1>2 DEF Remove
    <2>3. ShapeInv' /\ CoverInv' /\ entries'[Root] = e
      BY <1>0, <1>1, <2>1, <2>2, RootEntries
    <2>4. Protects
      BY <1>0, <2>1, <2>2, <2>3, RootProtected
    <2>5. PlaceInv'
      BY <1>0, <1>2, <2>1, <2>3 DEF PlaceInv, Goto
    <2> QED BY <2>3, <2>4, <2>5 DEF Closes, CInv
  <1>3. CASE Evidence = {} /\ UNCHANGED fs
    <2>1. /\ ShapeInv' /\ CoverInv' /\ Protects /\ Decision' = Decision /\ Evidence' = {}
          /\ entries' = entries
      BY <1>0, <1>3, SameClasses DEF fs
    <2>2. CASE Backup \in exists /\ Goto("invalidate")
      <3>1. PlaceInv'
        BY <1>0, <2>1, <2>2 DEF PlaceInv, Goto
      <3> QED BY <2>1, <3>1 DEF Closes, CInv
    <2>3. CASE Backup \notin exists /\ Return(TRUE, FALSE)
      <3>1. Decision' = Nothing
        BY <1>0, <1>3, <2>1, <2>3, DecisionHolds DEF DiskInv, Paths
      <3> QED BY <1>0, <2>1, <2>3, <3>1, ReturnPlace DEF RecoverySteps, Closes, CInv
    <2> QED BY <1>3, <2>2, <2>3 DEF Unmark, Evidence
  <1> QED BY <1>2, <1>3 DEF Unmark

(* invalidate_restoration_authority leaves a backup that classifies as being removed. *)
LEMMA InvalidateCloses == ASSUME RInv, CInv, Invalidate PROVE Closes
  <1>0. /\ DiskInv /\ ShapeInv /\ pc = "invalidate" /\ UNCHANGED <<v3, lost>> /\ Goto("purge")
        /\ "M" \in entries[Root] /\ "BadM" \notin entries[Root] /\ Evidence = {}
    BY DEF RInv, CInv, PlaceInv, ShapeInv, Invalidate
  <1>1. CASE BackupState(Backup) = "Removing" /\ UNCHANGED fs
    <2>1. /\ ShapeInv' /\ CoverInv' /\ Protects /\ Evidence' = {} /\ entries' = entries
          /\ BackupState(Backup)' = "Removing"
      BY <1>0, <1>1, SameClasses DEF fs
    <2>2. PlaceInv'
      BY <1>0, <2>1 DEF PlaceInv, Goto
    <2> QED BY <2>1, <2>2 DEF Closes, CInv
  <1>2. CASE /\ BackupState(Backup) = "Restorable"
             /\ IF "M" \in entries[Backup] THEN RenameEntry(Backup, "M", "TM")
                                           ELSE RenameEntry(Backup, "L", "TL")
    <2>1. PICK e : /\ entries' = [entries EXCEPT ![Backup] = e] /\ UNCHANGED exists
                   /\ \/ "M" \in entries[Backup] /\ e = (entries[Backup] \ {"M"}) \cup {"TM"}
                      \/ "M" \notin entries[Backup] /\ e = (entries[Backup] \ {"L"}) \cup {"TL"}
      BY <1>2 DEF RenameEntry
    <2>2. /\ "I" \notin entries[Backup] /\ entries[Backup] \cap {"TM", "TL"} = {}
          /\ "M" \in entries[Backup] \/ ~v3
          /\ Backup \in exists
      BY <1>2 DEF BackupState
    <2>3. entries'[Backup] = e
      BY <1>0, <2>1 DEF DiskInv, Paths
    <2>4. BackupState(Backup)' = "Removing"
      BY <1>0, <2>1, <2>2, <2>3 DEF BackupState
    <2>5. /\ ShapeInv' /\ CoverInv' /\ Protects /\ entries'[Root] = entries[Root]
      BY <1>0, <2>1, <2>4, BackupEntries
    <2>6. PlaceInv'
      BY <1>0, <2>4, <2>5 DEF PlaceInv, Goto, Evidence
    <2> QED BY <2>5, <2>6 DEF Closes, CInv
  <1> QED BY <1>1, <1>2 DEF Invalidate

(* The backup stays classified as being removed until it is empty: the tombstone goes
   last. *)
LEMMA PurgeBackupCloses == ASSUME RInv, CInv, PurgeBackup PROVE Closes
  <1>0. /\ DiskInv /\ ShapeInv /\ pc = "purge" /\ UNCHANGED <<v3, lost>>
        /\ "M" \in entries[Root] /\ "BadM" \notin entries[Root] /\ Evidence = {}
        /\ BackupState(Backup) \in {"Removing", "Empty"} /\ DiskInv'
    BY PurgeBackupKeeps DEF RInv, CInv, PlaceInv, ShapeInv, PurgeBackup, RecoveryKept
  <1>1. Return(TRUE, FALSE) \/ (Backup \in exists' /\ Goto("purge"))
    BY DEF PurgeBackup
  <1>2. CASE entries[Backup] = {} /\ RemoveDir(Backup)
    <2>1. /\ ShapeInv' /\ CoverInv' /\ Protects /\ Evidence' = {} /\ entries' = entries
      BY <1>0, <1>2, EmptyRemoved DEF RemoveDir
    <2>2. Decision' = Nothing
      BY <1>0, <1>2, <2>1, DoneStaysStable DEF Done
    <2>3. Return(TRUE, FALSE)
      BY <1>1, <1>2 DEF RemoveDir
    <2> QED BY <1>0, <2>1, <2>2, <2>3, ReturnPlace DEF RecoverySteps, Closes, CInv
  <1>3. ASSUME NEW x \in entries[Backup], x # Tombstone \/ entries[Backup] = {Tombstone},
               Remove(Backup, x)
        PROVE  Closes
    <2> DEFINE e == entries[Backup] \ {x}
    <2>1. entries' = [entries EXCEPT ![Backup] = e] /\ UNCHANGED exists
      BY <1>3 DEF Remove
    <2>2. BackupState(Backup) = "Removing" /\ Backup \in exists
      BY <1>0, <1>3 DEF BackupState
    <2>3. Tombstone \in e \/ e = {}
      BY <1>3, <2>2 DEF BackupState, Tombstone
    <2>4. entries'[Backup] = e
      BY <1>0, <2>1 DEF DiskInv, Paths
    <2>5. BackupState(Backup)' \in {"Removing", "Empty"}
      BY <1>0, <2>1, <2>2, <2>3, <2>4 DEF BackupState, Tombstone
    <2>6. /\ ShapeInv' /\ CoverInv' /\ Protects /\ entries'[Root] = entries[Root]
      BY <1>0, <2>1, <2>5, BackupEntries
    <2>7. Goto("purge")
      BY <2>1, <2>2 DEF PurgeBackup
    <2>8. PlaceInv'
      BY <1>0, <2>5, <2>6, <2>7 DEF PlaceInv, Goto, Evidence
    <2> QED BY <2>6, <2>8 DEF Closes, CInv
  <1> QED BY <1>2, <1>3 DEF PurgeBackup, DeleteTreeLast

(* An error of recovery changes nothing and never returns under the guard. *)
LEMMA RecoveryFailsCloses == ASSUME RInv, CInv, RecoveryFails PROVE Closes
  <1>1. ShapeInv' /\ CoverInv' /\ Protects /\ entries' = entries
    BY SameClasses DEF RInv, RecoveryFails, fs
  <1> QED BY <1>1, ReturnPlace DEF RecoveryFails, Closes, CInv

(* The steps of a setup or a reset that change the root. *)
LEMMA RepairCloses == ASSUME RInv, CInv, Repair \/ RewriteManifest PROVE Closes
  <1>0. /\ DiskInv /\ ShapeInv /\ pc \in {"repair", "rewrite"} /\ UNCHANGED <<v3, lost, exists>>
        /\ Evidence = {} /\ entries[Backup] = {} /\ "BadM" \notin entries[Root]
        /\ entries[Root] \cap {"TM", "TL"} = {}
    BY DEF RInv, CInv, PlaceInv, ShapeInv, Repair, RewriteManifest, Paths, Root, Backup
  <1>1. PICK e \in {entries[Root] \cup Payload, entries[Root] \cup {"M"}} :
          entries' = [entries EXCEPT ![Root] = e]
    <2>1. CASE Repair
      BY <2>1 DEF Repair
    <2>2. CASE RewriteManifest
      <3>1. (entries[Root] \ {"BadM"}) \cup {"M"} = entries[Root] \cup {"M"}
        BY <1>0
      <3> QED BY <2>2, <3>1 DEF RewriteManifest
    <2> QED BY <2>1, <2>2
  <1>2. e \cap {"P", "tmp", "C", "BadM", "TM", "TL"} = {} /\ entries[Root] \subseteq e
    BY <1>0, RecoveryAssumption DEF Evidence, Markers
  <1>3. BackupState(Backup) # "Removing"
    BY <1>0, BackupKinds
  <1>4. ShapeInv' /\ CoverInv' /\ entries'[Root] = e /\ entries'[Backup] = {}
    BY <1>0, <1>1, <1>2, <1>3, RootEntries
  <1>5. Protects
    BY <1>0, <1>2, <1>4, RootProtected
  <1>6. pc' = "rewrite" \/ pc' = "idle"
    BY DEF Repair, RewriteManifest, Goto, Release
  <1>7. PlaceInv'
    BY <1>2, <1>4, <1>6 DEF PlaceInv, Evidence, RecoverySteps
  <1> QED BY <1>4, <1>5, <1>7 DEF Closes, CInv

(* A reset moves away only a root that is committed and not protected. *)
LEMMA PreserveForResetCloses == ASSUME RInv, CInv, PreserveForReset PROVE Closes
  <1>0. DiskInv /\ UNCHANGED <<v3, lost>>
    BY DEF RInv, PreserveForReset
  <1>1. ShapeInv' /\ CoverInv' /\ Protects
    <2>1. CASE UNCHANGED fs
      BY <1>0, <2>1, SameClasses DEF fs
    <2>2. CASE RootState = "Empty" /\ RemoveDir(Root)
      BY <1>0, <2>2, RootFacts, EmptyRemoved
    <2>3. CASE /\ RootState \in {"Committed", "LegacyValid"} /\ "I" \notin entries[Root]
               /\ Move(Root, Backup)
      BY <1>0, <2>3, RootPreserved
    <2> QED BY <2>1, <2>2, <2>3 DEF PreserveForReset, RebuildAllowed
  <1>2. PlaceInv'
    BY Elsewhere DEF PreserveForReset, Goto, CallRecover
  <1> QED BY <1>1, <1>2 DEF Closes, CInv

(* begin_provisioning creates the root only where nothing is. *)
LEMMA CreateRootCloses == ASSUME RInv, CInv, CreateRoot PROVE Closes
  <1>0. /\ DiskInv /\ ShapeInv /\ CoverInv /\ entries[Root] = {}
        /\ UNCHANGED <<v3, lost, entries>> /\ exists' = exists \cup {Root} /\ pc' = "tmp"
    BY RootFacts DEF RInv, CInv, CreateRoot, Goto
  <1>1. BackupState(Backup)' = BackupState(Backup) /\ Evidence' = Evidence
    BY <1>0 DEF BackupState, Whole, Evidence, Root, Backup
  <1>2. ShapeInv' /\ CoverInv'
    BY <1>0, <1>1 DEF ShapeInv, CoverInv
  <1>3. Protects
    BY <1>0, RootProtected
  <1>4. PlaceInv'
    BY <1>0 DEF PlaceInv, RecoverySteps
  <1> QED BY <1>2, <1>3, <1>4 DEF Closes, CInv

(* The root as the transaction writes it: never committed, so no backup is
   being removed beside it. *)
LEMMA Written ==
    ASSUME DiskInv, CInv, NEW e, entries' = [entries EXCEPT ![Root] = e],
           UNCHANGED <<v3, exists, lost>>, "M" \notin entries[Root] \/ "M" \in e,
           \/ e = {"tmp"}
           \/ e \subseteq {"P"} \cup Payload /\ "P" \in e
           \/ e \subseteq {"C"} \cup Payload /\ "C" \in e
           \/ e \subseteq {"C", "M"} \cup Payload /\ "M" \in e,
           entries[Root] \ {"P", "tmp", "C"} \subseteq e
    PROVE  ShapeInv' /\ CoverInv' /\ Protects /\ entries'[Root] = e
  <1>1. /\ e \cap {"TM", "TL", "BadM"} = {}
        /\ "P" \in e => e \subseteq {"P"} \cup Payload
        /\ "tmp" \in e => e = {"tmp"}
        /\ e \cap {"P", "tmp", "C"} # {} \/ "M" \in e
    BY RecoveryAssumption DEF Markers
  <1>2. BackupState(Backup) = "Removing" /\ ~lost => "M" \in e
    BY DEF CInv, CoverInv
  <1>3. ShapeInv' /\ CoverInv' /\ entries'[Root] = e
    BY <1>1, <1>2, RootEntries
  <1>4. Protects
    BY <1>3, RootProtected DEF CInv
  <1> QED BY <1>3, <1>4

(* The rollback marker is written to an empty root. *)
LEMMA MarkerCloses == ASSUME RInv, CInv, WriteMarker \/ ActivateMarker PROVE Closes
  <1>0. DiskInv /\ UNCHANGED <<v3, lost, exists>> /\ entries[Root] \subseteq {"tmp"}
    BY DEF RInv, CInv, PlaceInv, WriteMarker, ActivateMarker, Add, RenameEntry
  <1>1. CASE WriteMarker
    <2>1. entries' = [entries EXCEPT ![Root] = {"tmp"}] /\ pc' = "mark"
      <3>1. entries[Root] \cup {"tmp"} = {"tmp"}
        BY <1>0
      <3> QED BY <1>1, <3>1 DEF WriteMarker, Add, Goto
    <2>2. ShapeInv' /\ CoverInv' /\ Protects /\ entries'[Root] = {"tmp"}
      BY <1>0, <2>1, Written
    <2>3. PlaceInv'
      BY <2>1, <2>2 DEF PlaceInv, RecoverySteps
    <2> QED BY <2>2, <2>3 DEF Closes, CInv
  <1>2. CASE ActivateMarker
    <2>1. entries' = [entries EXCEPT ![Root] = {"P"}] /\ pc' = "provision"
      <3>1. (entries[Root] \ {"tmp"}) \cup {"P"} = {"P"}
        BY <1>0
      <3> QED BY <1>2, <3>1 DEF ActivateMarker, RenameEntry, Goto
    <2>2. ShapeInv' /\ CoverInv' /\ Protects /\ entries'[Root] = {"P"}
      BY <1>0, <2>1, Written
    <2>3. PlaceInv'
      BY <2>1, <2>2 DEF PlaceInv, RecoverySteps
    <2> QED BY <2>2, <2>3 DEF Closes, CInv
  <1> QED BY <1>1, <1>2

(* Provisioning adds payload beside P. *)
LEMMA ProvisionCloses == ASSUME RInv, CInv, Provision PROVE Closes
  <1>0. /\ DiskInv /\ ShapeInv /\ UNCHANGED <<v3, lost>> /\ "P" \in entries[Root]
        /\ entries[Root] \subseteq {"P"} \cup Payload
    BY DEF RInv, CInv, PlaceInv, ShapeInv, Provision
  <1>1. ASSUME NEW x \in Payload, Add(Root, x), Goto("provision") PROVE Closes
    <2> DEFINE e == entries[Root] \cup {x}
    <2>1. entries' = [entries EXCEPT ![Root] = e] /\ UNCHANGED exists
      BY <1>1 DEF Add
    <2>2. ShapeInv' /\ CoverInv' /\ Protects /\ entries'[Root] = e
      BY <1>0, <1>1, <2>1, Written
    <2>3. PlaceInv'
      BY <1>0, <1>1, <2>2 DEF PlaceInv, RecoverySteps, Goto
    <2> QED BY <2>2, <2>3 DEF Closes, CInv
  <1>2. CASE UNCHANGED fs /\ Goto("quiesce")
    <2>1. ShapeInv' /\ CoverInv' /\ Protects /\ entries' = entries
      BY <1>0, <1>2, SameClasses DEF fs
    <2>2. PlaceInv'
      BY <1>0, <1>2, <2>1 DEF PlaceInv, RecoverySteps, Goto
    <2> QED BY <2>1, <2>2 DEF Closes, CInv
  <1> QED BY <1>1, <1>2 DEF Provision, fs

(* revoke_rollback_authority turns P into C in a root without a manifest. *)
LEMMA RevokeCloses == ASSUME RInv, CInv, Revoke PROVE Closes
  <1> DEFINE e == (entries[Root] \ {"P"}) \cup {"C"}
  <1>0. /\ DiskInv /\ UNCHANGED <<v3, lost, exists>> /\ "P" \in entries[Root]
        /\ entries[Root] \subseteq {"P"} \cup Payload
        /\ entries' = [entries EXCEPT ![Root] = e] /\ pc' = "commit"
    BY DEF RInv, CInv, PlaceInv, ShapeInv, Revoke, RenameEntry
  <1>1. "M" \notin entries[Root]
    BY <1>0, RecoveryAssumption DEF Markers
  <1>2. ShapeInv' /\ CoverInv' /\ Protects /\ entries'[Root] = e
    BY <1>0, <1>1, Written
  <1>3. PlaceInv'
    BY <1>0, <1>2 DEF PlaceInv, RecoverySteps
  <1> QED BY <1>2, <1>3 DEF Closes, CInv

(* commit_prefix_manifest adds M to C and payload, whatever it reports. *)
LEMMA CommitManifestCloses == ASSUME RInv, CInv, CommitManifest PROVE Closes
  <1> DEFINE e == entries[Root] \cup {"M"}
  <1>0. /\ DiskInv /\ UNCHANGED <<v3, lost, exists>> /\ entries[Root] \subseteq {"C"} \cup Payload
        /\ entries' = [entries EXCEPT ![Root] = e]
    BY DEF RInv, CInv, PlaceInv, CommitManifest
  <1>1. ShapeInv' /\ CoverInv' /\ Protects
    BY <1>0, Written
  <1>2. PlaceInv'
    BY Elsewhere DEF CommitManifest, CallRecover
  <1> QED BY <1>1, <1>2 DEF Closes, CInv

(* C becomes P again only in a root that holds nothing but C and payload. *)
LEMMA RollBackCloses == ASSUME RInv, CInv, RollBack PROVE Closes
  <1>0. DiskInv /\ UNCHANGED <<v3, lost>> /\ pc = "failed"
    BY DEF RInv, RollBack
  <1>1. ShapeInv' /\ CoverInv' /\ Protects
    <2>1. CASE UNCHANGED fs
      BY <1>0, <2>1, SameClasses DEF fs
    <2>2. CASE authority = "Reinstatable" /\ RenameEntry(Root, "C", "P")
      <3> DEFINE e == (entries[Root] \ {"C"}) \cup {"P"}
      <3>1. /\ entries[Root] \subseteq {"P", "C"} \cup Payload /\ UNCHANGED exists
            /\ entries' = [entries EXCEPT ![Root] = e]
        BY <1>0, <2>2 DEF CInv, PlaceInv, RenameEntry
      <3>2. "M" \notin entries[Root]
        BY <3>1, RecoveryAssumption DEF Markers
      <3> QED BY <1>0, <3>1, <3>2, Written
    <2> QED BY <2>1, <2>2 DEF RollBack
  <1>2. PlaceInv'
    BY Elsewhere DEF RollBack, CallRecover
  <1> QED BY <1>1, <1>2 DEF Closes, CInv

(* Steps that change no directory. *)
LEMMA QuietCloses ==
    ASSUME RInv, CInv, UNCHANGED <<v3, lost, fs>>,
           \/ Decide \/ Shutdown \/ Quiesce \/ TransactionFails \/ OperationFails
           \/ StartSession \/ Crash \/ UNCHANGED control
           \/ \E k \in {"setup", "reset"} : Start(k) \/ Resume(k) \/ GiveUp(k)
    PROVE  Closes
  <1>1. /\ ShapeInv' /\ CoverInv' /\ Protects /\ Decision' = Decision /\ Evidence' = Evidence
        /\ BackupState(Backup)' = BackupState(Backup) /\ entries' = entries
    BY SameClasses DEF RInv, fs
  <1>2. CASE UNCHANGED control
    <2>1. PlaceInv'
      BY <1>1, <1>2 DEF CInv, PlaceInv, control
    <2> QED BY <1>1, <2>1 DEF Closes, CInv
  <1>3. CASE Shutdown \/ OperationFails \/ StartSession \/ Crash
    <2>1. PlaceInv'
      BY <1>3, Elsewhere DEF Shutdown, OperationFails, StartSession, Crash, Release, Goto
    <2> QED BY <1>1, <2>1 DEF Closes, CInv
  <1>4. CASE Decide
    <2>1. Evidence = {} /\ entries[Backup] = {} /\ "BadM" \notin entries[Root]
      BY <1>4, DecisionHolds DEF RInv, CInv, PlaceInv, Decide
    <2>2. pc' \in {"shutdown", "begin", "repair"}
      BY <1>4 DEF Decide, Goto
    <2>3. PlaceInv'
      BY <1>1, <2>1, <2>2 DEF PlaceInv, RecoverySteps
    <2> QED BY <1>1, <2>3 DEF Closes, CInv
  <1>5. CASE Quiesce
    <2>1. PlaceInv'
      BY <1>1, <1>5 DEF CInv, PlaceInv, Quiesce, Goto, RecoverySteps
    <2> QED BY <1>1, <2>1 DEF Closes, CInv
  <1>6. CASE TransactionFails
    <2>1. pc = "revoke" => entries[Root] \subseteq {"P"} \cup Payload
      BY DEF CInv, PlaceInv, ShapeInv
    <2>2. pc # "revoke" /\ authority = "Reinstatable" => pc = "commit"
      BY <1>6 DEF RInv, AuthorityInv, TransactionFails, TransactionSteps, RecoverySteps
    <2>3. pc = "commit" => entries[Root] \subseteq {"C"} \cup Payload
      BY DEF CInv, PlaceInv
    <2>4. PlaceInv'
      BY <1>1, <1>6, <2>1, <2>2, <2>3 DEF PlaceInv, TransactionFails, RecoverySteps
    <2> QED BY <1>1, <2>4 DEF Closes, CInv
  <1>7. CASE \E k \in {"setup", "reset"} : Start(k) \/ Resume(k) \/ GiveUp(k)
    <2>1. UNCHANGED control \/ (pc' = "recover" /\ (ret' = "under" => ManagedResetAllowed))
      BY <1>7 DEF Start, Resume, GiveUp
    <2>2. ManagedResetAllowed => "BadM" \notin entries[Root]
      BY DEF ManagedResetAllowed, CInv, ShapeInv
    <2>3. CASE pc' = "recover" /\ (ret' = "under" => ManagedResetAllowed)
      <3>1. PlaceInv'
        BY <1>1, <2>2, <2>3, Elsewhere
      <3> QED BY <1>1, <3>1 DEF Closes, CInv
    <2> QED BY <1>2, <2>1, <2>3
  <1> QED BY <1>2, <1>3, <1>4, <1>5, <1>6, <1>7

(* The receipt of an installation, and damage from outside. *)
LEMMA OutsideCloses == ASSUME RInv, CInv, WriteProtection \/ LoseManifest PROVE Closes
  <1>0. DiskInv /\ ShapeInv /\ UNCHANGED <<v3, exists, control>> /\ pc = "idle"
    BY DEF RInv, CInv, WriteProtection, LoseManifest, Add, Remove, RenameEntry
  <1>1. "M" \in entries[Root]
    BY <1>0, RootFacts DEF WriteProtection, LoseManifest
  <1>2. entries[Root] \cap {"P", "tmp", "BadM", "TM", "TL"} = {}
    BY <1>0, <1>1, RecoveryAssumption DEF ShapeInv, Markers, Paths, Root, Backup
  <1>3. PlaceInv'
    BY <1>0, Elsewhere DEF control
  <1>4. CASE WriteProtection
    <2> DEFINE e == entries[Root] \cup {"I"}
    <2>1. entries' = [entries EXCEPT ![Root] = e] /\ lost' = lost
      BY <1>4 DEF WriteProtection, Add
    <2>2. ShapeInv' /\ CoverInv' /\ entries'[Root] = e
      BY <1>0, <1>1, <1>2, <2>1, RootEntries
    <2>3. Protects
      BY <1>0, <2>2, RootProtected
    <2> QED BY <1>3, <2>2, <2>3 DEF Closes, CInv
  <1>5. CASE LoseManifest
    <2>1. PICK e \in {entries[Root] \ {"M"}, (entries[Root] \ {"M"}) \cup {"BadM"}} :
            entries' = [entries EXCEPT ![Root] = e]
      BY <1>5 DEF LoseManifest, Remove, RenameEntry
    <2>2. ShapeInv' /\ CoverInv' /\ entries'[Root] = e
      <3>1. lost' = TRUE
        BY <1>5 DEF LoseManifest
      <3> QED BY <1>0, <1>2, <2>1, <3>1, RootEntries
    <2>3. RootState \in {"Committed", "Stale"}
      BY <1>0, <1>1, RootHolds
    <2>4. entries[Root] \ {"P", "tmp", "C", "M", "BadM"} \subseteq e
      BY <2>1
    <2>5. Protects
      BY <1>0, <2>2, <2>3, <2>4, RootProtected
    <2> QED BY <1>3, <2>2, <2>5 DEF Closes, CInv
  <1> QED BY <1>4, <1>5

-----------------------------------------------------------------------------
(* What older builds left satisfies the invariant of convergence. *)
LEMMA InitCInv == Init => CInv
  <1> SUFFICES ASSUME Init PROVE CInv
    OBVIOUS
  <1>0. DiskInv
    BY InitRInv DEF RInv
  <1>1. \A p \in Paths : entries[p] \cap {"TM", "TL", "I", "BadM", "P", "tmp", "C"} = {}
    <2>1. \A p \in Paths : entries[p] \subseteq Payload \cup {"M", "L"}
      BY DEF Init, Configured
    <2> QED BY <2>1, RecoveryAssumption DEF Markers
  <1>2. entries[Backup] = {} /\ Root \in Paths
    BY DEF Init, Paths
  <1>3. BackupState(Backup) \in {"Absent", "Empty"}
    BY <1>0, <1>2, BackupKinds
  <1>4. ShapeInv /\ CoverInv
    BY <1>1, <1>2, <1>3 DEF ShapeInv, CoverInv, Evidence
  <1>5. PlaceInv
    BY DEF Init, PlaceInv, RecoverySteps
  <1> QED BY <1>4, <1>5 DEF CInv

(* Every step keeps it, and the roots recovery may not touch. *)
LEMMA StepCloses == ASSUME RInv, CInv, [Next]_vars PROVE Closes
  <1>1. CASE \/ Recover \/ RemoveEmptyBackup \/ ClearRoot \/ DiscardRoot \/ Restore
             \/ Unmark \/ Invalidate \/ PurgeBackup \/ RecoveryFails
    BY <1>1, RecoverCloses, RemoveEmptyBackupCloses, ClearRootCloses, DiscardRootCloses,
       RestoreCloses, UnmarkCloses, InvalidateCloses, PurgeBackupCloses, RecoveryFailsCloses
  <1>2. CASE \/ Repair \/ RewriteManifest \/ PreserveForReset \/ CreateRoot \/ WriteMarker
             \/ ActivateMarker \/ Provision \/ Revoke \/ CommitManifest \/ RollBack
    BY <1>2, RepairCloses, PreserveForResetCloses, CreateRootCloses, MarkerCloses,
       ProvisionCloses, RevokeCloses, CommitManifestCloses, RollBackCloses
  <1>3. CASE WriteProtection \/ LoseManifest
    BY <1>3, OutsideCloses
  <1>4. CASE \/ Decide \/ Shutdown \/ Quiesce \/ TransactionFails \/ OperationFails
             \/ StartSession \/ Crash \/ UsePrefix \/ ProcessesEnd \/ UNCHANGED vars
             \/ \E k \in {"setup", "reset"} : Start(k) \/ Resume(k) \/ GiveUp(k)
    <2>1. UNCHANGED <<v3, lost, fs>>
      <3>1. CASE \/ Decide \/ Shutdown \/ Quiesce \/ TransactionFails \/ OperationFails
                 \/ StartSession \/ Crash \/ UsePrefix \/ ProcessesEnd
        BY <3>1 DEF Decide, Shutdown, Quiesce, TransactionFails, OperationFails, StartSession,
           Crash, UsePrefix, ProcessesEnd
      <3>2. CASE \E k \in {"setup", "reset"} : Start(k) \/ Resume(k) \/ GiveUp(k)
        BY <3>2 DEF Start, Resume, GiveUp
      <3>3. CASE UNCHANGED vars
        BY <3>3 DEF vars, fs
      <3> QED BY <1>4, <3>1, <3>2, <3>3
    <2>2. UsePrefix \/ ProcessesEnd \/ UNCHANGED vars => UNCHANGED control
      BY DEF UsePrefix, ProcessesEnd, vars
    <2> QED BY <1>4, <2>1, <2>2, QuietCloses
  <1> QED BY <1>1, <1>2, <1>3, <1>4 DEF Next, Operation

(* The second inductive invariant: it says which combinations of directories
   and positions an interrupted transaction can leave. *)
THEOREM ConvergenceInvariant == Spec => [](RInv /\ CInv)
  <1>1. Init => RInv /\ CInv
    BY InitRInv, InitCInv
  <1>2. RInv /\ CInv /\ [Next]_vars => (RInv /\ CInv)'
    BY StepKeeps, StepCloses DEF RecoveryKept, Closes
  <1> QED BY <1>1, <1>2, PTL DEF Spec

(* Recovery refuses only what it must, has nothing left to do once it reported
   success under the guard, and decides every state to which the gate of
   binding resolution sends a command (recovery.rs plan, recover_under_guard,
   transaction_gate). *)
THEOREM RecoveryAlwaysConverges == Spec => []RecoveryConverges
  <1>1. RInv /\ CInv => RecoveryConverges
    BY ConvergesByInvariant DEF RInv
  <1> QED BY <1>1, ConvergenceInvariant, PTL

(* recovery.rs invariant 2: no step deletes or moves away a root that is
   foreign or may be committed, nor a prefix into which a game was installed. *)
THEOREM ProtectedRootsAlwaysKept == Spec => ProtectedRootsKept
  <1>1. RInv /\ CInv /\ [Next]_vars => [Protects]_vars
    BY StepCloses DEF Closes
  <1> QED BY <1>1, ConvergenceInvariant, PTL DEF Spec, ProtectedRootsKept, Protects

(* ------------------------ LaunchIsTrue: the invariant -------------------- *)

Stages == {"idle", "resolved", "planned", "prefix", "locked", "rechecked", "running", "refused", "over"}
Launched == Stages \ {"idle", "over"}
Guarded == {"rechecked", "running"}
Providers == {"runner-owned", "managed-prefix", "winetricks-prefix"}
Components == {NoManifest, "dxvk", ManagedDxvk}
Modes == {"none", "RunnerManaged", "Fsync", "Esync", "WineServer"}
Categories == {"sync-plan", "dxvk-provider", "dgvoodoo-state", "environment"}
LaunchRecord ==
    [pc : Stages, path : RunnerPaths \cup {NoRunner}, build : BuildRecord \cup {NoBuild}, target : AllTargets,
     overlay : BOOLEAN, scans : SUBSET {"first", "locked"},
     plan : [provider : Providers, overlay : BOOLEAN, sync : Modes] \cup {NoPlan}, manifest : Components,
     env : [overrides : SUBSET (DxvkDlls \cup OverlayDlls), variables : SUBSET (DxvkVariables \cup BaseVariables),
            sync : Modes],
     mismatches : SUBSET Categories, swapped : BOOLEAN]
WantsOverlay(r) == r.overlay /\ receives_overlay(r.target)

(* What a launch read from its runner is what it still says, unless it was replaced. *)
ReadRight(r) ==
    r.pc \in Launched =>
        /\ r.path \in RunnerPaths /\ r.build \in BuildRecord /\ r.target \in LaunchTargets
        /\ ~r.swapped => r.build = BuildAt(r.path)
        /\ r.pc # "resolved" => r.plan = resolve_runtime(r.path, r.build, r.overlay)

(* A launch that holds a guard excludes who needs it alone. *)
Excludes(r) ==
    /\ preparing.pc = "locked" /\ r.pc \in {"prefix", "locked", "rechecked", "running"} => r.path # preparing.path
    /\ toggling /\ r.pc \in {"locked", "rechecked", "running"} => WrapperMode(r.target) = "none"

(* Under both guards what was read of the prefix and of the game directory stays true. *)
StaysTrue(r) ==
    /\ r.pc \notin Guarded \cup {"refused"} => "locked" \notin r.scans
    /\ r.pc \in Guarded =>
        /\ r.manifest = component[r.path]
        /\ WantsOverlay(r) => wrapperOn
        /\ "locked" \in r.scans /\ receives_overlay(r.target) => r.overlay = wrapperOn

(* The environment a process runs in; the claims DXVK shows by one of its DLLs. *)
UsesManaged(r) == "d3d9" \in r.env.overrides
EnvironmentRight(r) ==
    r.pc = "running" =>
        /\ r.env.overrides = (IF UsesManaged(r) THEN DxvkDlls ELSE {})
                             \cup (IF WantsOverlay(r) THEN OverlayDlls ELSE {})
        /\ UsesManaged(r) => DxvkVariables \subseteq r.env.variables /\ r.manifest = ManagedDxvk
        /\ ~r.swapped => /\ UsesManaged(r) <=> is_wine_7_16(r.build)
                         /\ r.mismatches \subseteq (IF r.build.linked THEN {"sync-plan"} ELSE {})

Good(r) == ReadRight(r) /\ Excludes(r) /\ StaysTrue(r) /\ EnvironmentRight(r)

(* A prefix records what the runner it was prepared with needs. *)
PreparationRight ==
    /\ preparing.pc # "idle" =>
        /\ preparing.path \in RunnerPaths /\ preparing.build \in BuildRecord
        /\ preparing.provision = for_runner(preparing.build)
    /\ preparedWith # NoBuild =>
        preparedWith \in BuildRecord /\ component["custom"] = manifest_component(for_runner(preparedWith))
WorldTyped ==
    /\ customBuild \in Builds /\ wrapperOn \in BOOLEAN /\ toggling \in BOOLEAN /\ graphicsPlan \in BOOLEAN
    /\ component \in [RunnerPaths -> Components]
    /\ preparing \in [pc : {"idle", "read", "locked"}, path : RunnerPaths \cup {NoRunner},
                      build : BuildRecord \cup {NoBuild}, provision : Providers \cup {"none"}]

PlanInv ==
    /\ WorldTyped /\ PreparationRight
    /\ invocation \in [Invocations -> LaunchRecord]
    /\ \A i \in Invocations : Good(invocation[i])

(* --------------------------- what a plan decides ------------------------- *)

PlannedSync(b) == IF b.kind = "Proton" THEN "RunnerManaged" ELSE SyncOf(b.esync, b.fsync)
PlanOf(b, o) == [provider |-> for_runner(b), overlay |-> o, sync |-> PlannedSync(b)]

(* The probe of a runner always passes the validation of its own request
   (resolver.rs), and asks for the DXVK that setup provides for that runner. *)
LEMMA PlansForItsRunner ==
    ASSUME NEW path, NEW b \in BuildRecord, NEW o \in BOOLEAN
    PROVE  resolve_runtime(path, b, o) = PlanOf(b, o)
  <1> DEFINE probe == probe_runner(path, b)
             profile == profile_from_legacy(path, b, o)
  <1>1. validate_runner_request(profile, b, probe)
    BY DEF validate_runner_request, probe_runner, profile_from_legacy
  <1>2. b.esync \in BOOLEAN /\ b.fsync \in BOOLEAN /\ b.kind \in {"Proton", "Wine"}
    BY DEF BuildRecord
  <1>3. "esync" \in wine_sync_declarations(b) <=> b.esync
    BY DEF wine_sync_declarations
  <1>4. "fsync" \in wine_sync_declarations(b) <=> b.fsync
    BY DEF wine_sync_declarations
  <1>5. probe.sync = PlannedSync(b)
    BY DEF probe_runner, PlannedSync
  <1>6. validate_capabilities(b.kind, probe)
    <2>1. CASE b.kind = "Proton"
      BY <2>1, <1>5 DEF validate_capabilities, PlannedSync
    <2>2. CASE b.kind = "Wine"
      <3>1. probe.support = wine_sync_declarations(b)
        BY <2>2 DEF probe_runner
      <3>2. probe.sync = SyncOf(b.esync, b.fsync)
        BY <1>5, <2>2 DEF PlannedSync
      <3> QED BY <3>1, <3>2, <2>2, <1>2, <1>3, <1>4 DEF validate_capabilities, SyncOf
    <2> QED BY <2>1, <2>2, <1>2
  <1>7. resolve_dxvk_provider(probe) = for_runner(b)
    BY <1>2 DEF resolve_dxvk_provider, probe_runner, for_runner, is_wine_7_16
  <1>8. (profile.graphics = "DgVoodooDxvk") = o
    BY DEF profile_from_legacy
  <1> HIDE DEF probe, profile
  <1>9. [provider |-> resolve_dxvk_provider(probe), overlay |-> profile.graphics = "DgVoodooDxvk",
         sync |-> probe.sync] = PlanOf(b, o)
    BY <1>5, <1>7, <1>8 DEF PlanOf
  <1> QED BY <1>1, <1>6, <1>9 DEF resolve_runtime, probe, profile

LEMMA ManagedPrefixIs716 ==
    ASSUME NEW b \in BuildRecord
    PROVE  (for_runner(b) = "managed-prefix") <=> is_wine_7_16(b)
  BY DEF for_runner, is_wine_7_16, BuildRecord

(* environment_for gives every target what apply_game_env and apply_tool_env
   gave it. *)
LEMMA EnvironmentsAgree ==
    ASSUME NEW b \in BuildRecord, NEW o \in BOOLEAN, NEW target
    PROVE  environment_for(PlanOf(b, o), target)
             = apply_game_env(o /\ receives_overlay(target), for_runner(b) = "managed-prefix")
  <1>1. receives_overlay(target) \in BOOLEAN
    BY DEF receives_overlay
  <1>2. dgvoodoo_environment(PlanOf(b, o), target)
          = IF o /\ receives_overlay(target) THEN [overrides |-> OverlayDlls, variables |-> {}] ELSE NoContribution
    BY DEF dgvoodoo_environment, PlanOf
  <1>3. dxvk_environment(PlanOf(b, o).provider)
          = IF for_runner(b) = "managed-prefix" THEN [overrides |-> DxvkDlls, variables |-> DxvkVariables]
            ELSE NoContribution
    BY DEF dxvk_environment, PlanOf
  <1>4. CASE for_runner(b) = "managed-prefix" /\ o /\ receives_overlay(target)
    BY <1>2, <1>3, <1>4 DEF environment_for, merge, runtime_base_environment, NoContribution, apply_game_env
  <1>5. CASE for_runner(b) = "managed-prefix" /\ ~(o /\ receives_overlay(target))
    BY <1>2, <1>3, <1>5 DEF environment_for, merge, runtime_base_environment, NoContribution, apply_game_env
  <1>6. CASE for_runner(b) # "managed-prefix" /\ o /\ receives_overlay(target)
    BY <1>2, <1>3, <1>6 DEF environment_for, merge, runtime_base_environment, NoContribution, apply_game_env
  <1>7. CASE for_runner(b) # "managed-prefix" /\ ~(o /\ receives_overlay(target))
    BY <1>2, <1>3, <1>7 DEF environment_for, merge, runtime_base_environment, NoContribution, apply_game_env
  <1> QED BY <1>4, <1>5, <1>6, <1>7

(* observe_legacy_runtime finds a difference in the sync mode only, and only
   behind a link. *)
LEMMA ShadowAgrees ==
    ASSUME NEW r, r.build \in BuildRecord, r.overlay \in BOOLEAN
    PROVE  observe_legacy_runtime(r, r.build) \subseteq (IF r.build.linked THEN {"sync-plan"} ELSE {})
  <1> DEFINE b == r.build
             o == r.overlay
             legacy == capture_legacy_runtime(b, o)
  <1>0. b.linked \in BOOLEAN /\ b.kind \in {"Proton", "Wine"}
    BY DEF BuildRecord
  <1>1. legacy.provider = for_runner(b) /\ legacy.overlay = o
    BY DEF capture_legacy_runtime
  <1>2. ~b.linked => legacy.sync = PlannedSync(b)
    BY <1>0 DEF capture_legacy_runtime, PlannedSync, wine_sync_mode
  <1>3. \A target \in AllTargets : environment_for(PlanOf(b, o), target) = legacy.environments[target]
    BY EnvironmentsAgree DEF capture_legacy_runtime
  <1>4. /\ PlanOf(b, o).provider = for_runner(b) /\ PlanOf(b, o).overlay = o
        /\ PlanOf(b, o).sync = PlannedSync(b)
    BY DEF PlanOf
  <1> HIDE DEF legacy
  <1>5. compare_shadow(legacy, PlanOf(b, o)) \subseteq (IF b.linked THEN {"sync-plan"} ELSE {})
    <2> SUFFICES ASSUME NEW c \in compare_shadow(legacy, PlanOf(b, o))
                 PROVE  c = "sync-plan" /\ b.linked
      BY <1>0
    <2>1. c \in {"sync-plan", "dxvk-provider", "dgvoodoo-state", "environment"}
      BY DEF compare_shadow
    <2>2. c # "dxvk-provider" /\ c # "dgvoodoo-state"
      BY <1>1, <1>4 DEF compare_shadow
    <2>3. c # "environment"
      BY <1>3 DEF compare_shadow
    <2>4. c = "sync-plan" => b.linked
      BY <1>2, <1>4, <1>0 DEF compare_shadow
    <2> QED BY <2>1, <2>2, <2>3, <2>4
  <1>6. resolve_runtime(r.path, b, o) = PlanOf(b, o)
    BY PlansForItsRunner
  <1> QED BY <1>5, <1>6 DEF observe_legacy_runtime, legacy
(* ------------------------- the steps of a launch ------------------------- *)

(* A step of one launch leaves the world and the other launches alone. *)
LEMMA MovesKeeps ==
    ASSUME PlanInv, NEW i \in Invocations, NEW stage, NEW c, Moves(i, stage, c),
           [c EXCEPT !.pc = stage] \in LaunchRecord, Good([c EXCEPT !.pc = stage])
    PROVE  PlanInv'
  <1> DEFINE r == [c EXCEPT !.pc = stage]
  <1>1. invocation' = [invocation EXCEPT ![i] = r] /\ UNCHANGED <<worldVars, graphicsPlan>>
    BY DEF Moves
  <1>2. WorldTyped' /\ PreparationRight'
    BY <1>1 DEF PlanInv, WorldTyped, PreparationRight, worldVars
  <1>3. \A q \in LaunchRecord : Good(q) => Good(q)'
    BY <1>1 DEF Good, ReadRight, Excludes, StaysTrue, EnvironmentRight, worldVars, BuildAt, WantsOverlay, UsesManaged
  <1> HIDE DEF r
  <1>4. invocation' \in [Invocations -> LaunchRecord]
    BY <1>1 DEF PlanInv, r
  <1>5. \A k \in Invocations : invocation'[k] = r \/ invocation'[k] = invocation[k]
    BY <1>1 DEF PlanInv
  <1>6. \A k \in Invocations : \E q \in LaunchRecord : q = invocation'[k] /\ Good(q)
    BY <1>5 DEF PlanInv, r
  <1>7. ASSUME NEW k \in Invocations PROVE Good(invocation[k])'
    <2>1. PICK q \in LaunchRecord : q = invocation'[k] /\ Good(q)
      BY <1>6
    <2>2. Good(q)'
      BY <1>3, <2>1
    <2> QED BY <2>1, <2>2
            DEF Good, ReadRight, Excludes, StaysTrue, EnvironmentRight, WantsOverlay, UsesManaged
  <1> QED BY <1>2, <1>4, <1>7 DEF PlanInv

LEMMA InvocationTyped ==
    ASSUME PlanInv, NEW i \in Invocations
    PROVE  invocation[i] \in LaunchRecord /\ Good(invocation[i])
  BY DEF PlanInv

LEMMA NothingIsGood ==
    ASSUME NEW r \in LaunchRecord, r.pc \in {"idle", "over"}, r.scans = {}
    PROVE  Good(r)
  BY DEF Good, ReadRight, Excludes, StaysTrue, EnvironmentRight, Launched, Guarded

LEMMA NoInvocationTyped == NoInvocation \in LaunchRecord /\ [NoInvocation EXCEPT !.pc = "over"] \in LaunchRecord
  <1>1. NoInvocation \in LaunchRecord
    BY SMT DEF NoInvocation, LaunchRecord, Stages, NoBuild, NoPlan, NoEnvironment, NoRunner, NoManifest,
       AllTargets, Components, Modes
  <1>2. [NoInvocation EXCEPT !.pc = "over"] \in LaunchRecord
    BY <1>1, SMT DEF LaunchRecord, Stages
  <1> QED BY <1>1, <1>2

LEMMA BuildsTyped ==
    ASSUME PlanInv, NEW path
    PROVE  BuildAt(path) \in BuildRecord
  <1>1. ManagedProton \in BuildRecord
    BY DEF ManagedProton, BuildRecord
  <1>2. customBuild \in BuildRecord
    BY BuildsAssumption DEF PlanInv, WorldTyped
  <1> QED BY <1>1, <1>2 DEF BuildAt

LEMMA ResolveContextKeeps ==
    ASSUME PlanInv, NEW i \in Invocations, ResolveContext(i)
    PROVE  PlanInv'
  <1>1. PICK server \in RunnerPaths \union {NoRunner}, default \in RunnerPaths \union {NoRunner},
             target \in LaunchTargets :
             Moves(i, "resolved", [invocation[i] EXCEPT !.path = Selected(server, default),
                                      !.build = BuildAt(Selected(server, default)), !.target = target])
    BY DEF ResolveContext
  <1> DEFINE path == Selected(server, default)
             c == [invocation[i] EXCEPT !.path = path, !.build = BuildAt(path), !.target = target]
             r == [c EXCEPT !.pc = "resolved"]
  <1>2. path \in RunnerPaths
    BY RunnerPathsAssumption, Zenon DEF Selected
  <1> HIDE DEF path
  <1>3. BuildAt(path) \in BuildRecord /\ target \in AllTargets
    BY BuildsTyped, LaunchTargetsAssumption
  <1>4. invocation[i] \in LaunchRecord /\ Good(invocation[i]) /\ invocation[i].pc = "idle"
    BY InvocationTyped DEF ResolveContext
  <1>5. r \in LaunchRecord
    BY <1>2, <1>3, <1>4 DEF LaunchRecord, Stages
  <1>6. Good(r)
    BY <1>2, <1>3, <1>4 DEF Good, ReadRight, Excludes, StaysTrue, EnvironmentRight, Launched, Guarded, LaunchRecord, Stages
  <1> HIDE DEF r, c
  <1> QED BY <1>1, <1>5, <1>6, MovesKeeps DEF r, c, path
LEMMA ScanReads ==
    ASSUME PlanInv, NEW i \in Invocations, NEW which \in {"first", "locked"}, NEW r \in Scanned(i, which)
    PROVE  \/ \E seen \in BOOLEAN :
                 /\ r = [invocation[i] EXCEPT !.overlay = seen, !.scans = @ \union {which}]
                 /\ ~toggling => seen = wrapperOn
           \/ r = [invocation[i] EXCEPT !.overlay = FALSE]
  <1>1. wrapperOn \in BOOLEAN
    BY DEF PlanInv, WorldTyped
  <1>2. CASE r \in {[invocation[i] EXCEPT !.overlay = seen, !.scans = @ \union {which}] :
                      seen \in IF toggling THEN BOOLEAN ELSE {wrapperOn}}
    BY <1>1, <1>2
  <1> QED BY <1>2 DEF Scanned

LEMMA PlanTyped ==
    ASSUME NEW path, NEW b \in BuildRecord, NEW o \in BOOLEAN
    PROVE  resolve_runtime(path, b, o) \in [provider : Providers, overlay : BOOLEAN, sync : Modes]
  <1>1. for_runner(b) \in Providers
    BY DEF for_runner, Providers
  <1>2. PlannedSync(b) \in Modes
    BY DEF PlannedSync, SyncOf, Modes
  <1> QED BY <1>1, <1>2, PlansForItsRunner DEF PlanOf

LEMMA ScanAndPlanKeeps ==
    ASSUME PlanInv, NEW i \in Invocations, ScanAndPlan(i)
    PROVE  PlanInv'
  <1>1. PICK s \in Scanned(i, "first") :
             Moves(i, "planned", [s EXCEPT !.plan = resolve_runtime(s.path, s.build, s.overlay)])
    BY DEF ScanAndPlan
  <1>2. invocation[i] \in LaunchRecord /\ Good(invocation[i]) /\ invocation[i].pc = "resolved"
    BY InvocationTyped DEF ScanAndPlan
  <1>3. PICK o \in BOOLEAN, sc \in SUBSET {"first", "locked"} :
             /\ s = [invocation[i] EXCEPT !.overlay = o, !.scans = sc]
             /\ "locked" \in sc => "locked" \in invocation[i].scans
    <2>1. CASE s = [invocation[i] EXCEPT !.overlay = FALSE]
      <3>1. s = [invocation[i] EXCEPT !.overlay = FALSE, !.scans = invocation[i].scans]
        BY <2>1, <1>2 DEF LaunchRecord
      <3> QED BY <3>1, <1>2 DEF LaunchRecord
    <2>2. ASSUME NEW seen \in BOOLEAN, s = [invocation[i] EXCEPT !.overlay = seen, !.scans = @ \union {"first"}]
          PROVE  s = [invocation[i] EXCEPT !.overlay = seen, !.scans = invocation[i].scans \union {"first"}]
      BY <2>2, <1>2 DEF LaunchRecord
    <2>3. invocation[i].scans \union {"first"} \in SUBSET {"first", "locked"}
      BY <1>2 DEF LaunchRecord
    <2> QED BY <2>1, <2>2, <2>3, ScanReads
  <1> DEFINE c == [s EXCEPT !.plan = resolve_runtime(s.path, s.build, s.overlay)]
             r == [c EXCEPT !.pc = "planned"]
  <1>4. s \in LaunchRecord /\ s.build \in BuildRecord /\ s.overlay \in BOOLEAN
    BY <1>2, <1>3 DEF LaunchRecord, Good, ReadRight, Launched, Stages
  <1>5. resolve_runtime(s.path, s.build, s.overlay) \in [provider : Providers, overlay : BOOLEAN, sync : Modes]
    BY <1>4, PlanTyped
  <1>6. r \in LaunchRecord
    BY <1>4, <1>5 DEF LaunchRecord, Stages
  <1>7. Good(r)
    BY <1>2, <1>3, <1>4 DEF Good, ReadRight, Excludes, StaysTrue, EnvironmentRight, Launched, Guarded, LaunchRecord, Stages
  <1> HIDE DEF r, c
  <1> QED BY <1>1, <1>6, <1>7, MovesKeeps DEF r, c

LEMMA LockPrefixKeeps ==
    ASSUME PlanInv, NEW i \in Invocations, LockPrefix(i)
    PROVE  PlanInv'
  <1> DEFINE c == invocation[i]
             r == [c EXCEPT !.pc = "prefix"]
  <1>1. c \in LaunchRecord /\ Good(c) /\ c.pc = "planned" /\ Moves(i, "prefix", c)
    BY InvocationTyped DEF LockPrefix
  <1>2. preparing.pc = "locked" => c.path # preparing.path
    <2> SUFFICES ASSUME preparing.pc = "locked", c.path = preparing.path PROVE FALSE
      OBVIOUS
    <2>1. "exclusive" \in HeldOnPrefix(c.path)
      BY DEF HeldOnPrefix
    <2>2. PrefixMode(c.target) \in {"shared", "exclusive"}
      BY DEF PrefixMode
    <2> QED BY <2>1, <2>2 DEF LockPrefix, Admits
  <1>3. r \in LaunchRecord
    BY <1>1 DEF LaunchRecord, Stages
  <1>4. Good(r)
    BY <1>1, <1>2 DEF Good, ReadRight, Excludes, StaysTrue, EnvironmentRight, Launched, Guarded, LaunchRecord, Stages
  <1> HIDE DEF r, c
  <1> QED BY <1>1, <1>3, <1>4, MovesKeeps DEF r

LEMMA LockWrapperKeeps ==
    ASSUME PlanInv, NEW i \in Invocations, LockWrapper(i)
    PROVE  PlanInv'
  <1> DEFINE c == invocation[i]
             r == [c EXCEPT !.pc = "locked"]
  <1>1. c \in LaunchRecord /\ Good(c) /\ c.pc = "prefix" /\ Moves(i, "locked", c)
    BY InvocationTyped DEF LockWrapper
  <1>2. toggling => WrapperMode(c.target) = "none"
    <2> SUFFICES ASSUME toggling PROVE WrapperMode(c.target) = "none"
      OBVIOUS
    <2>1. "exclusive" \in HeldOnWrapper
      BY DEF HeldOnWrapper
    <2>2. WrapperMode(c.target) \in {"shared", "exclusive", "none"}
      BY DEF WrapperMode
    <2> QED BY <2>1, <2>2 DEF LockWrapper, Admits
  <1>3. r \in LaunchRecord
    BY <1>1 DEF LaunchRecord, Stages
  <1>4. Good(r)
    BY <1>1, <1>2 DEF Good, ReadRight, Excludes, StaysTrue, EnvironmentRight, Launched, Guarded, LaunchRecord, Stages
  <1> HIDE DEF r, c
  <1> QED BY <1>1, <1>3, <1>4, MovesKeeps DEF r

(* Whoever is to load the wrapper holds the guard of the game directory. *)
LEMMA OverlayNeedsTheGuard ==
    ASSUME NEW target \in AllTargets, receives_overlay(target)
    PROVE  WrapperMode(target) # "none"
  BY DEF AllTargets, receives_overlay, WrapperMode, Games

LEMMA RecheckKeeps ==
    ASSUME PlanInv, NEW i \in Invocations, Recheck(i)
    PROVE  PlanInv'
  <1>1. PICK s \in Scanned(i, "locked") :
             /\ s.overlay = invocation[i].overlay
             /\ Moves(i, "rechecked", [s EXCEPT !.manifest = component[s.path]])
    BY DEF Recheck
  <1>2. invocation[i] \in LaunchRecord /\ Good(invocation[i]) /\ invocation[i].pc = "locked"
    BY InvocationTyped DEF Recheck
  <1> DEFINE Read(sc) ==
                 /\ s = [invocation[i] EXCEPT !.scans = sc]
                 /\ ~toggling => (invocation[i].overlay => wrapperOn)
                 /\ ~toggling /\ "locked" \in sc => invocation[i].overlay = wrapperOn
  <1>3. PICK sc \in SUBSET {"first", "locked"} : Read(sc)
    <2>0. invocation[i].scans \in SUBSET {"first", "locked"}
      BY <1>2 DEF LaunchRecord
    <2>1. CASE s = [invocation[i] EXCEPT !.overlay = FALSE]
      <3>1. s = [invocation[i] EXCEPT !.scans = invocation[i].scans] /\ invocation[i].overlay = FALSE
        BY <2>1, <1>1, <1>2 DEF LaunchRecord
      <3>2. "locked" \notin invocation[i].scans
        BY <1>2 DEF Good, StaysTrue, Guarded
      <3>3. Read(invocation[i].scans)
        BY <3>1, <3>2
      <3> QED BY <3>3, <2>0
    <2>2. ASSUME NEW seen \in BOOLEAN, ~toggling => seen = wrapperOn,
                 s = [invocation[i] EXCEPT !.overlay = seen, !.scans = @ \union {"locked"}]
          PROVE  Read(invocation[i].scans \union {"locked"})
      <3>1. s.overlay = seen
        BY <2>2, <1>2 DEF LaunchRecord
      <3>2. s = [invocation[i] EXCEPT !.scans = invocation[i].scans \union {"locked"}]
        BY <2>2, <3>1, <1>1, <1>2 DEF LaunchRecord
      <3> QED BY <2>2, <3>1, <3>2, <1>1
    <2>3. invocation[i].scans \union {"locked"} \in SUBSET {"first", "locked"}
      BY <2>0
    <2> HIDE DEF Read
    <2> QED BY <2>1, <2>2, <2>3, ScanReads
  <1> DEFINE c == [s EXCEPT !.manifest = component[s.path]]
             r == [c EXCEPT !.pc = "rechecked"]
  <1>4. s \in LaunchRecord /\ s.path \in RunnerPaths
    BY <1>2, <1>3 DEF LaunchRecord, Good, ReadRight, Launched, Stages
  <1>5. component[s.path] \in Components
    BY <1>4 DEF PlanInv, WorldTyped
  <1>6. r \in LaunchRecord
    BY <1>4, <1>5 DEF LaunchRecord, Stages
  <1>7. receives_overlay(s.target) => ~toggling
    <2>1. s.target = invocation[i].target /\ s.target \in AllTargets
      BY <1>2, <1>3 DEF LaunchRecord
    <2>2. toggling => WrapperMode(s.target) = "none"
      BY <2>1, <1>2 DEF Good, Excludes
    <2> QED BY <2>1, <2>2, OverlayNeedsTheGuard
  <1>8. ReadRight(r) /\ Excludes(r) /\ EnvironmentRight(r)
    BY <1>2, <1>3, <1>4 DEF Good, ReadRight, Excludes, EnvironmentRight, Launched, LaunchRecord, Stages
  <1>9. StaysTrue(r)
    BY <1>3, <1>4, <1>7, <1>2 DEF StaysTrue, WantsOverlay, Guarded, LaunchRecord, Stages
  <1> HIDE DEF r, c
  <1> QED BY <1>1, <1>6, <1>8, <1>9, MovesKeeps DEF r, c, Good
(* What a launch adds to its command, by the plan or by the path it replaces. *)
LEMMA EnvironmentOf ==
    ASSUME NEW wants \in BOOLEAN, NEW claims \in BOOLEAN, NEW build \in BuildRecord,
           NEW env, env = apply_graphics_environment(game_invocation(build), apply_game_env(wants, claims))
    PROVE  /\ env.overrides = (IF claims THEN DxvkDlls ELSE {}) \cup (IF wants THEN OverlayDlls ELSE {})
           /\ claims => DxvkVariables \subseteq env.variables
           /\ env \in [overrides : SUBSET (DxvkDlls \cup OverlayDlls),
                       variables : SUBSET (DxvkVariables \cup BaseVariables), sync : Modes]
  <1> DEFINE g == apply_game_env(wants, claims)
  <1>1. g.overrides = (IF claims THEN DxvkDlls ELSE {}) \cup (IF wants THEN OverlayDlls ELSE {})
    <2>1. CASE claims /\ wants
      BY <2>1 DEF apply_game_env
    <2>2. CASE claims /\ ~wants
      BY <2>2 DEF apply_game_env
    <2>3. CASE ~claims /\ wants
      BY <2>3 DEF apply_game_env
    <2>4. CASE ~claims /\ ~wants
      BY <2>4 DEF apply_game_env
    <2> QED BY <2>1, <2>2, <2>3, <2>4
  <1>2. g.variables = IF claims THEN BaseVariables \cup DxvkVariables ELSE BaseVariables
    BY DEF apply_game_env
  <1>3. wine_sync_mode(build) \in Modes
    BY DEF wine_sync_mode, SyncOf, Modes
  <1> HIDE DEF g
  <1>4. env = [overrides |-> g.overrides, variables |-> g.variables, sync |-> wine_sync_mode(build)]
    BY DEF apply_graphics_environment, game_invocation, g
  <1> QED BY <1>1, <1>2, <1>3, <1>4

LEMMA SpawnKeeps ==
    ASSUME PlanInv, NEW i \in Invocations, Spawn(i)
    PROVE  PlanInv'
  <1> DEFINE r == invocation[i]
             now == BuildAt(r.path)
             claims == IF graphicsPlan THEN r.plan.provider = "managed-prefix" ELSE is_wine_7_16(now)
             env == apply_graphics_environment(game_invocation(now), GraphicsOf(r, claims))
             started == [r EXCEPT !.env = env, !.mismatches = observe_legacy_runtime(r, now)]
  <1>1. r \in LaunchRecord /\ Good(r) /\ r.pc = "rechecked"
    BY InvocationTyped DEF Spawn
  <1>2. \/ LacksDxvk(i, claims) /\ Moves(i, "refused", r)
        \/ ~LacksDxvk(i, claims) /\ Moves(i, "running", started)
    BY DEF Spawn
  <1>3. CASE Moves(i, "refused", r)
    <2> DEFINE q == [r EXCEPT !.pc = "refused"]
    <2>1. q \in LaunchRecord
      BY <1>1 DEF LaunchRecord, Stages
    <2>2. Good(q)
      BY <1>1 DEF Good, ReadRight, Excludes, StaysTrue, EnvironmentRight, Launched, Guarded, LaunchRecord, Stages
    <2> HIDE DEF q, r
    <2> QED BY <1>3, <2>1, <2>2, MovesKeeps DEF q
  <1>4. CASE ~LacksDxvk(i, claims) /\ Moves(i, "running", started)
    <2>1. /\ r.build \in BuildRecord /\ r.overlay \in BOOLEAN /\ r.target \in AllTargets
          /\ ~r.swapped => r.build = now
          /\ r.plan = PlanOf(r.build, r.overlay)
      BY <1>1, PlansForItsRunner DEF Good, ReadRight, Launched, Stages, LaunchRecord
    <2>2. now \in BuildRecord
      BY BuildsTyped
    <2>3. claims \in BOOLEAN /\ (~r.swapped => (claims <=> is_wine_7_16(r.build)))
      <3>1. r.plan.provider = for_runner(r.build)
        BY <2>1 DEF PlanOf
      <3>2. is_wine_7_16(now) \in BOOLEAN
        BY DEF is_wine_7_16
      <3> QED BY <3>1, <3>2, <2>1, ManagedPrefixIs716
    <2>4. WantsOverlay(r) \in BOOLEAN
      BY <2>1 DEF WantsOverlay
    <2>5. GraphicsOf(r, claims) = apply_game_env(WantsOverlay(r), claims)
      <3>1. CASE graphicsPlan
        <4>1. claims = (for_runner(r.build) = "managed-prefix")
          BY <3>1, <2>1 DEF PlanOf
        <4>2. environment_for(r.plan, r.target) = apply_game_env(WantsOverlay(r), claims)
          BY <4>1, <2>1, EnvironmentsAgree DEF WantsOverlay
        <4> QED BY <3>1, <4>2 DEF GraphicsOf
      <3>2. CASE ~graphicsPlan
        BY <3>2 DEF GraphicsOf, WantsOverlay
      <3> QED BY <3>1, <3>2
    <2>6. claims => r.manifest = ManagedDxvk
      BY <1>4 DEF LacksDxvk
    <2>7. observe_legacy_runtime(r, now) \in SUBSET Categories
      BY DEF observe_legacy_runtime, compare_shadow, Categories
    <2>8. ~r.swapped => observe_legacy_runtime(r, now) \subseteq (IF r.build.linked THEN {"sync-plan"} ELSE {})
      BY <2>1, ShadowAgrees
    <2> HIDE DEF claims, now
    <2>9. /\ env.overrides = (IF claims THEN DxvkDlls ELSE {}) \cup (IF WantsOverlay(r) THEN OverlayDlls ELSE {})
          /\ claims => DxvkVariables \subseteq env.variables
          /\ env \in [overrides : SUBSET (DxvkDlls \cup OverlayDlls),
                      variables : SUBSET (DxvkVariables \cup BaseVariables), sync : Modes]
      BY <2>2, <2>3, <2>4, <2>5, EnvironmentOf
    <2>10. "d3d9" \in env.overrides <=> claims
      BY <2>9, <2>3 DEF DxvkDlls, OverlayDlls
    <2> HIDE DEF env
    <2> DEFINE q == [started EXCEPT !.pc = "running"]
    <2>11. q \in LaunchRecord
      BY <1>1, <2>7, <2>9 DEF LaunchRecord, Stages
    <2>12. /\ q.pc = "running" /\ q.env = env /\ q.mismatches = observe_legacy_runtime(r, now)
           /\ q.path = r.path /\ q.build = r.build /\ q.target = r.target /\ q.overlay = r.overlay
           /\ q.scans = r.scans /\ q.plan = r.plan /\ q.manifest = r.manifest /\ q.swapped = r.swapped
      BY <1>1 DEF LaunchRecord
    <2> HIDE DEF q, r
    <2>13. ReadRight(q) /\ Excludes(q) /\ StaysTrue(q)
      BY <1>1, <2>12 DEF Good, ReadRight, Excludes, StaysTrue, WantsOverlay, Launched, Guarded, Stages
    <2>14. EnvironmentRight(q)
      BY <2>12, <2>3, <2>6, <2>8, <2>9, <2>10 DEF EnvironmentRight, UsesManaged, WantsOverlay
    <2> QED BY <1>4, <2>11, <2>13, <2>14, MovesKeeps DEF Good, q
  <1> QED BY <1>2, <1>3, <1>4

LEMMA EndsKeeps ==
    ASSUME PlanInv, NEW i \in Invocations, Ends(i) \/ Fails(i)
    PROVE  PlanInv'
  <1> DEFINE r == [NoInvocation EXCEPT !.pc = "over"]
  <1>1. Moves(i, "over", NoInvocation)
    BY DEF Ends, Fails
  <1>2. r \in LaunchRecord
    BY NoInvocationTyped
  <1>3. r.pc = "over" /\ r.scans = {}
    BY DEF NoInvocation
  <1>4. Good(r)
    BY <1>2, <1>3, NothingIsGood
  <1> HIDE DEF r
  <1> QED BY <1>1, <1>2, <1>4, MovesKeeps DEF r

(* ------------------------- the steps of the world ------------------------ *)

(* A runner that is replaced marks the launches that read it. *)
LEMMA ReplaceRunnerKeeps ==
    ASSUME PlanInv, ReplaceRunner
    PROVE  PlanInv'
  <1>1. customBuild' \in Builds
    BY DEF ReplaceRunner
  <1>2. WorldTyped' /\ PreparationRight'
    BY <1>1 DEF PlanInv, WorldTyped, PreparationRight, ReplaceRunner
  <1>3. ASSUME NEW i \in Invocations
        PROVE  invocation'[i] \in LaunchRecord /\ Good(invocation[i])'
    <2> DEFINE r == invocation[i]
               q == IF r.path = "custom" THEN [r EXCEPT !.swapped = TRUE] ELSE r
    <2>1. r \in LaunchRecord /\ Good(r) /\ invocation'[i] = q
      BY InvocationTyped DEF ReplaceRunner
    <2>2. /\ q \in LaunchRecord
          /\ q.pc = r.pc /\ q.path = r.path /\ q.build = r.build /\ q.target = r.target /\ q.overlay = r.overlay
          /\ q.scans = r.scans /\ q.plan = r.plan /\ q.manifest = r.manifest /\ q.env = r.env
          /\ q.mismatches = r.mismatches
          /\ ~q.swapped => ~r.swapped /\ r.path # "custom"
      BY <2>1 DEF LaunchRecord
    <2> HIDE DEF q, r
    <2>3. UNCHANGED <<wrapperOn, component, preparing, toggling>>
      BY DEF ReplaceRunner
    <2>5. ReadRight(invocation[i])'
      BY <2>1, <2>2 DEF Good, ReadRight, BuildAt
    <2>6. Excludes(invocation[i])' /\ StaysTrue(invocation[i])' /\ EnvironmentRight(invocation[i])'
      BY <2>1, <2>2, <2>3 DEF Good, Excludes, StaysTrue, EnvironmentRight, UsesManaged, WantsOverlay
    <2> QED BY <2>1, <2>2, <2>5, <2>6 DEF Good
  <1>4. invocation' \in [Invocations -> LaunchRecord]
    BY <1>3 DEF ReplaceRunner
  <1> QED BY <1>2, <1>3, <1>4 DEF PlanInv
(* Setup and dgVoodoo leave the launches alone: what they change must not be
   what a launch relies on. *)
LEMMA OthersKeep ==
    ASSUME PlanInv, UNCHANGED <<customBuild, invocation, graphicsPlan>>, WorldTyped', PreparationRight',
           \A i \in Invocations : Excludes(invocation[i])' /\ StaysTrue(invocation[i])'
    PROVE  PlanInv'
  <1>1. ASSUME NEW i \in Invocations PROVE Good(invocation[i])'
    <2>1. ReadRight(invocation[i]) /\ EnvironmentRight(invocation[i])
      BY InvocationTyped DEF Good
    <2>2. ReadRight(invocation[i])' /\ EnvironmentRight(invocation[i])'
      BY <2>1 DEF ReadRight, EnvironmentRight, BuildAt, UsesManaged, WantsOverlay
    <2> QED BY <2>2 DEF Good
  <1> QED BY <1>1 DEF PlanInv

LEMMA ToggleBeginsKeeps ==
    ASSUME PlanInv, ToggleBegins
    PROVE  PlanInv'
  <1>1. UNCHANGED <<customBuild, wrapperOn, component, preparedWith, preparing, invocation, graphicsPlan>>
    BY DEF ToggleBegins
  <1>2. WorldTyped' /\ PreparationRight'
    BY <1>1 DEF PlanInv, WorldTyped, PreparationRight, ToggleBegins
  <1>3. ASSUME NEW i \in Invocations PROVE Excludes(invocation[i])' /\ StaysTrue(invocation[i])'
    <2>1. Excludes(invocation[i]) /\ StaysTrue(invocation[i])
      BY InvocationTyped DEF Good
    <2>2. invocation[i].pc \in {"locked", "rechecked", "running"} => WrapperMode(invocation[i].target) = "none"
      <3> SUFFICES ASSUME i \in HaveWrapper PROVE WrapperMode(invocation[i].target) = "none"
        BY DEF HaveWrapper, Holding
      <3>1. WrapperMode(invocation[i].target) \in HeldOnWrapper
        BY DEF HeldOnWrapper
      <3>2. WrapperMode(invocation[i].target) \in {"shared", "exclusive", "none"}
        BY DEF WrapperMode
      <3>3. HeldOnWrapper \intersect {"shared", "exclusive"} = {}
        BY DEF ToggleBegins, Admits
      <3> QED BY <3>1, <3>2, <3>3
    <2> QED BY <1>1, <2>1, <2>2 DEF Excludes, StaysTrue, WantsOverlay
  <1> QED BY <1>1, <1>2, <1>3, OthersKeep

LEMMA ToggleEndsKeeps ==
    ASSUME PlanInv, ToggleEnds
    PROVE  PlanInv'
  <1>1. UNCHANGED <<customBuild, component, preparedWith, preparing, invocation, graphicsPlan>>
        /\ toggling /\ toggling' = FALSE /\ wrapperOn' \in BOOLEAN
    BY DEF ToggleEnds
  <1>2. WorldTyped' /\ PreparationRight'
    BY <1>1 DEF PlanInv, WorldTyped, PreparationRight
  <1>3. ASSUME NEW i \in Invocations PROVE Excludes(invocation[i])' /\ StaysTrue(invocation[i])'
    <2> DEFINE r == invocation[i]
    <2>1. r \in LaunchRecord /\ Excludes(r) /\ StaysTrue(r)
      BY InvocationTyped DEF Good
    <2>2. r.pc \in Guarded => ~receives_overlay(r.target)
      BY <1>1, <2>1, OverlayNeedsTheGuard DEF Excludes, Guarded, LaunchRecord
    <2> HIDE DEF r
    <2>3. Excludes(r)' /\ StaysTrue(r)'
      BY <1>1, <2>1, <2>2 DEF Excludes, StaysTrue, WantsOverlay, r
    <2> QED BY <2>3 DEF r
  <1> QED BY <1>1, <1>2, <1>3, OthersKeep

(* runtime_requirements asks for what the runner needs, with the plan and without. *)
LEMMA RequirementsOfTheRunner ==
    ASSUME PlanInv, NEW path
    PROVE  runtime_requirements(path) = for_runner(BuildAt(path))
  <1>1. resolve_runtime(path, BuildAt(path), FALSE) = PlanOf(BuildAt(path), FALSE)
    BY BuildsTyped, PlansForItsRunner
  <1>2. PlanOf(BuildAt(path), FALSE).provider = for_runner(BuildAt(path))
    BY DEF PlanOf
  <1> QED BY <1>1, <1>2 DEF runtime_requirements

LEMMA SetupReadsKeeps ==
    ASSUME PlanInv, NEW path \in RunnerPaths, SetupReads(path)
    PROVE  PlanInv'
  <1>1. UNCHANGED <<customBuild, wrapperOn, component, toggling, invocation, graphicsPlan>>
        /\ preparing' = [pc |-> "read", path |-> path, build |-> BuildAt(path), provision |-> for_runner(BuildAt(path))]
        /\ preparedWith' \in {NoBuild, preparedWith}
    BY RequirementsOfTheRunner DEF SetupReads
  <1>2. BuildAt(path) \in BuildRecord /\ for_runner(BuildAt(path)) \in Providers
    BY BuildsTyped DEF for_runner, Providers
  <1>3. WorldTyped'
    BY <1>1, <1>2 DEF PlanInv, WorldTyped
  <1>4. PreparationRight'
    BY <1>1, <1>2 DEF PlanInv, PreparationRight
  <1>5. ASSUME NEW i \in Invocations PROVE Excludes(invocation[i])' /\ StaysTrue(invocation[i])'
    <2>1. Excludes(invocation[i]) /\ StaysTrue(invocation[i])
      BY InvocationTyped DEF Good
    <2> QED BY <1>1, <2>1 DEF Excludes, StaysTrue, WantsOverlay
  <1> QED BY <1>1, <1>3, <1>4, <1>5, OthersKeep

LEMMA SetupLocksKeeps ==
    ASSUME PlanInv, SetupLocks
    PROVE  PlanInv'
  <1>1. UNCHANGED <<customBuild, wrapperOn, component, preparedWith, toggling, invocation, graphicsPlan>>
        /\ preparing.pc = "read" /\ preparing' = [preparing EXCEPT !.pc = "locked"]
    BY DEF SetupLocks
  <1>2. WorldTyped' /\ preparing'.path = preparing.path /\ preparing'.build = preparing.build
        /\ preparing'.provision = preparing.provision
    BY <1>1 DEF PlanInv, WorldTyped
  <1>3. PreparationRight'
    BY <1>1, <1>2 DEF PlanInv, PreparationRight
  <1>4. ASSUME NEW i \in Invocations PROVE Excludes(invocation[i])' /\ StaysTrue(invocation[i])'
    <2>1. Excludes(invocation[i]) /\ StaysTrue(invocation[i])
      BY InvocationTyped DEF Good
    <2>2. invocation[i].pc \in {"prefix", "locked", "rechecked", "running"} => invocation[i].path # preparing.path
      <3> SUFFICES ASSUME i \in HavePrefix, invocation[i].path = preparing.path PROVE FALSE
        BY DEF HavePrefix, Holding
      <3>1. PrefixMode(invocation[i].target) \in HeldOnPrefix(preparing.path)
        BY DEF HeldOnPrefix
      <3>2. PrefixMode(invocation[i].target) \in {"shared", "exclusive"}
        BY DEF PrefixMode
      <3>3. HeldOnPrefix(preparing.path) \intersect {"shared", "exclusive"} = {}
        BY DEF SetupLocks, Admits
      <3> QED BY <3>1, <3>2, <3>3
    <2> QED BY <1>1, <1>2, <2>1, <2>2 DEF Excludes, StaysTrue, WantsOverlay
  <1> QED BY <1>1, <1>2, <1>3, <1>4, OthersKeep

LEMMA SetupCommitsKeeps ==
    ASSUME PlanInv, SetupCommits
    PROVE  PlanInv'
  <1> DEFINE path == preparing.path
             recorded == manifest_component(preparing.provision)
  <1>1. /\ UNCHANGED <<customBuild, wrapperOn, toggling, invocation, graphicsPlan>>
        /\ preparing.pc = "locked" /\ preparing' = NotPreparing
        /\ component' = [component EXCEPT ![path] = recorded]
        /\ preparedWith' = IF path = "custom" THEN preparing.build ELSE preparedWith
    BY DEF SetupCommits
  <1>2. path \in RunnerPaths /\ preparing.build \in BuildRecord /\ preparing.provision = for_runner(preparing.build)
    BY <1>1 DEF PlanInv, PreparationRight
  <1>3. recorded \in Components
    BY DEF manifest_component, Components
  <1> HIDE DEF path, recorded
  <1>4. component' \in [RunnerPaths -> Components] /\ \A p \in RunnerPaths \ {path} : component'[p] = component[p]
    BY <1>1, <1>2, <1>3 DEF PlanInv, WorldTyped
  <1>5. NotPreparing \in [pc : {"idle", "read", "locked"}, path : RunnerPaths \cup {NoRunner},
                          build : BuildRecord \cup {NoBuild}, provision : Providers \cup {"none"}]
        /\ NotPreparing.pc = "idle"
    BY DEF NotPreparing
  <1>6. WorldTyped'
    BY <1>1, <1>4, <1>5 DEF PlanInv, WorldTyped
  <1>7. PreparationRight'
    <2>1. CASE path = "custom"
      <3>1. component'["custom"] = recorded
        BY <1>1, <1>2, <2>1 DEF PlanInv, WorldTyped
      <3> QED BY <1>1, <1>2, <1>5, <2>1, <3>1 DEF PreparationRight, recorded
    <2>2. CASE path # "custom"
      BY <1>1, <1>4, <1>5, <2>2, RunnerPathsAssumption DEF PlanInv, PreparationRight
    <2> QED BY <2>1, <2>2
  <1>8. ASSUME NEW i \in Invocations PROVE Excludes(invocation[i])' /\ StaysTrue(invocation[i])'
    <2>1. Good(invocation[i])
      BY InvocationTyped
    <2>2. invocation[i].pc \in Guarded => invocation[i].path # path /\ invocation[i].path \in RunnerPaths
      BY <1>1, <2>1 DEF Good, Excludes, ReadRight, Guarded, Launched, Stages, path
    <2>3. Excludes(invocation[i])'
      BY <1>1, <1>5, <2>1 DEF Good, Excludes
    <2>4. StaysTrue(invocation[i])'
      BY <1>1, <1>4, <2>1, <2>2 DEF Good, StaysTrue, WantsOverlay
    <2> QED BY <2>3, <2>4
  <1> QED BY <1>1, <1>6, <1>7, <1>8, OthersKeep

LEMMA SetupFailsKeeps ==
    ASSUME PlanInv, SetupFails
    PROVE  PlanInv'
  <1>1. UNCHANGED <<customBuild, wrapperOn, component, preparedWith, toggling, invocation, graphicsPlan>>
        /\ preparing' = NotPreparing
    BY DEF SetupFails
  <1>2. NotPreparing \in [pc : {"idle", "read", "locked"}, path : RunnerPaths \cup {NoRunner},
                          build : BuildRecord \cup {NoBuild}, provision : Providers \cup {"none"}]
        /\ NotPreparing.pc = "idle"
    BY DEF NotPreparing
  <1>3. WorldTyped' /\ PreparationRight'
    BY <1>1, <1>2 DEF PlanInv, WorldTyped, PreparationRight
  <1>4. ASSUME NEW i \in Invocations PROVE Excludes(invocation[i])' /\ StaysTrue(invocation[i])'
    <2>1. Excludes(invocation[i]) /\ StaysTrue(invocation[i])
      BY InvocationTyped DEF Good
    <2> QED BY <1>1, <1>2, <2>1 DEF Excludes, StaysTrue, WantsOverlay
  <1> QED BY <1>1, <1>3, <1>4, OthersKeep

LEMMA PlanStutters ==
    ASSUME PlanInv, UNCHANGED planVars
    PROVE  PlanInv'
  <1>1. UNCHANGED <<customBuild, wrapperOn, component, preparedWith, preparing, toggling, invocation, graphicsPlan>>
    BY DEF planVars, worldVars
  <1>2. WorldTyped' /\ PreparationRight'
    BY <1>1 DEF PlanInv, WorldTyped, PreparationRight
  <1>3. ASSUME NEW i \in Invocations PROVE Excludes(invocation[i])' /\ StaysTrue(invocation[i])'
    <2>1. Excludes(invocation[i]) /\ StaysTrue(invocation[i])
      BY InvocationTyped DEF Good
    <2> QED BY <1>1, <2>1 DEF Excludes, StaysTrue, WantsOverlay
  <1> QED BY <1>1, <1>2, <1>3, OthersKeep

LEMMA PlanStepKeeps == PlanInv /\ [PlanNext]_planVars => PlanInv'
  <1> SUFFICES ASSUME PlanInv, [PlanNext]_planVars PROVE PlanInv'
    OBVIOUS
  <1>1. CASE UNCHANGED planVars
    BY <1>1, PlanStutters
  <1>2. CASE \E i \in Invocations : \/ ResolveContext(i) \/ ScanAndPlan(i) \/ LockPrefix(i) \/ LockWrapper(i)
                                    \/ Recheck(i) \/ Spawn(i) \/ Ends(i) \/ Fails(i)
    BY <1>2, ResolveContextKeeps, ScanAndPlanKeeps, LockPrefixKeeps, LockWrapperKeeps, RecheckKeeps, SpawnKeeps,
       EndsKeeps
  <1>3. CASE \/ \E path \in RunnerPaths : SetupReads(path)
             \/ ReplaceRunner \/ ToggleBegins \/ ToggleEnds \/ SetupLocks \/ SetupCommits \/ SetupFails
    BY <1>3, SetupReadsKeeps, ReplaceRunnerKeeps, ToggleBeginsKeeps, ToggleEndsKeeps, SetupLocksKeeps,
       SetupCommitsKeeps, SetupFailsKeeps
  <1> QED BY <1>1, <1>2, <1>3 DEF PlanNext

LEMMA PlanStarts == PlanInit => PlanInv
  <1> SUFFICES ASSUME PlanInit PROVE PlanInv
    OBVIOUS
  <1>1. NotPreparing \in [pc : {"idle", "read", "locked"}, path : RunnerPaths \cup {NoRunner},
                          build : BuildRecord \cup {NoBuild}, provision : Providers \cup {"none"}]
        /\ NotPreparing.pc = "idle"
    BY DEF NotPreparing
  <1>2. WorldTyped /\ PreparationRight
    BY <1>1 DEF PlanInit, WorldTyped, PreparationRight, Components
  <1>3. NoInvocation \in LaunchRecord /\ Good(NoInvocation)
    <2>1. NoInvocation.pc = "idle" /\ NoInvocation.scans = {}
      BY DEF NoInvocation
    <2> QED BY <2>1, NoInvocationTyped, NothingIsGood
  <1>4. invocation = [i \in Invocations |-> NoInvocation]
    BY DEF PlanInit
  <1> QED BY <1>2, <1>3, <1>4 DEF PlanInv
(* --------------------------- the three properties ------------------------ *)

LEMMA RunningFacts ==
    ASSUME PlanInv, NEW i \in Running
    PROVE  LET r == invocation[i] IN
           /\ r \in LaunchRecord /\ r.path \in RunnerPaths /\ r.build \in BuildRecord
           /\ r.plan = PlanOf(r.build, r.overlay)
           /\ r.pc = "running" /\ StaysTrue(r) /\ EnvironmentRight(r)
  <1>1. i \in Invocations /\ invocation[i].pc = "running"
    BY DEF Running, Holding
  <1>2. invocation[i] \in LaunchRecord /\ Good(invocation[i])
    BY <1>1, InvocationTyped
  <1>3. invocation[i].overlay \in BOOLEAN
    BY <1>2 DEF LaunchRecord
  <1> QED BY <1>1, <1>2, <1>3, PlansForItsRunner DEF Good, ReadRight, Launched, Stages

LEMMA ClaimsBacked == PlanInv => ClaimsAreBacked
  <1> SUFFICES ASSUME PlanInv, NEW i \in Running
               PROVE  LET r == invocation[i]
                          claims(dlls) == dlls \subseteq r.env.overrides
                      IN  /\ claims(OverlayDlls) => wrapperOn
                          /\ (wrapperOn /\ receives_overlay(r.target) /\ "locked" \in r.scans) => claims(OverlayDlls)
                          /\ claims(DxvkDlls) => component[r.path] = ManagedDxvk
    BY DEF ClaimsAreBacked
  <1> DEFINE r == invocation[i]
  <1>1. StaysTrue(r) /\ EnvironmentRight(r) /\ r.pc = "running"
    BY RunningFacts
  <1> HIDE DEF r
  <1>2. r.env.overrides = (IF UsesManaged(r) THEN DxvkDlls ELSE {}) \cup (IF WantsOverlay(r) THEN OverlayDlls ELSE {})
    BY <1>1 DEF EnvironmentRight
  <1>3. OverlayDlls \subseteq r.env.overrides => WantsOverlay(r)
    BY <1>2 DEF OverlayDlls, DxvkDlls
  <1>4. WantsOverlay(r) => OverlayDlls \subseteq r.env.overrides
    BY <1>2
  <1>5. DxvkDlls \subseteq r.env.overrides => UsesManaged(r)
    BY DEF DxvkDlls, UsesManaged
  <1>6. r.manifest = component[r.path] /\ (WantsOverlay(r) => wrapperOn)
        /\ ("locked" \in r.scans /\ receives_overlay(r.target) => r.overlay = wrapperOn)
    BY <1>1 DEF StaysTrue, Guarded
  <1>7. UsesManaged(r) => r.manifest = ManagedDxvk
    BY <1>1 DEF EnvironmentRight
  <1>8. wrapperOn /\ receives_overlay(r.target) /\ "locked" \in r.scans => WantsOverlay(r)
    BY <1>6 DEF WantsOverlay
  <1> QED BY <1>3, <1>4, <1>5, <1>6, <1>7, <1>8 DEF r

(* Which runtimes a record can stand for. *)
LEMMA ObservedRuntime ==
    ASSUME NEW path, NEW b \in BuildRecord, NEW o \in BOOLEAN,
           NEW spec, spec = observed_runtime_spec(path, PlanOf(b, o), probe_runner(path, b))
    PROVE  /\ spec = "Wine716OldWow64ManagedDxvk" => is_wine_7_16(b)
           /\ spec \in {"ManagedProtonCachyos11", "ManagedNndskRoProton"} => path \in Managed /\ ~is_wine_7_16(b)
  <1> DEFINE probe == probe_runner(path, b)
  <1>1. probe.artifact = IF path \in Managed /\ b.kind = "Proton" THEN path ELSE "external"
    BY DEF probe_runner
  <1>2. PlanOf(b, o).provider = for_runner(b)
    BY DEF PlanOf
  <1> HIDE DEF probe
  <1>3. spec = "Wine716OldWow64ManagedDxvk" => for_runner(b) = "managed-prefix"
    BY <1>2 DEF observed_runtime_spec, probe
  <1>4. spec \in {"ManagedProtonCachyos11", "ManagedNndskRoProton"}
           => path \in {"previous", "local", "legacy"} /\ probe.artifact = path
    BY DEF observed_runtime_spec, probe
  <1>5. path \in {"previous", "local", "legacy"} /\ probe.artifact = path => path \in Managed /\ b.kind = "Proton"
    BY <1>1 DEF Managed
  <1> QED BY <1>3, <1>4, <1>5, ManagedPrefixIs716 DEF is_wine_7_16

LEMMA RecordedRuntimes ==
    ASSUME NEW hash, NEW spec, [hash |-> hash, runtime |-> spec] \in CompatibilityRecords
    PROVE  /\ hash = "sakura" => spec = "Wine716OldWow64ManagedDxvk"
           /\ hash = "honey" => spec \in {"ManagedProtonCachyos11", "ManagedNndskRoProton"}
  BY DEF CompatibilityRecords

LEMMA AgreesWithLegacy == PlanInv => PlanAgreesWithLegacy
  <1> SUFFICES ASSUME PlanInv, NEW i \in Running, ~invocation[i].swapped
               PROVE  LET r == invocation[i] IN
                      /\ ~Clash(dxvk_environment(r.plan.provider), dgvoodoo_environment(r.plan, r.target))
                      /\ r.mismatches \subseteq (IF r.build.linked THEN {"sync-plan"} ELSE {})
                      /\ DxvkDlls \subseteq r.env.overrides <=> is_wine_7_16(r.build)
                      /\ Validated("sakura", r.path, r.build, r.overlay)
                            => DxvkDlls \subseteq r.env.overrides /\ DxvkVariables \subseteq r.env.variables
                      /\ Validated("honey", r.path, r.build, r.overlay)
                            => r.path \in Managed /\ DxvkDlls \intersect r.env.overrides = {}
    BY DEF PlanAgreesWithLegacy
  <1> DEFINE r == invocation[i]
             spec == observed_runtime_spec(r.path, PlanOf(r.build, r.overlay), probe_runner(r.path, r.build))
  <1>1. /\ r.build \in BuildRecord /\ r.overlay \in BOOLEAN /\ r.plan = PlanOf(r.build, r.overlay)
        /\ r.pc = "running" /\ EnvironmentRight(r) /\ ~r.swapped
    BY RunningFacts DEF LaunchRecord
  <1> HIDE DEF r
  <1>2. /\ r.env.overrides = (IF UsesManaged(r) THEN DxvkDlls ELSE {}) \cup (IF WantsOverlay(r) THEN OverlayDlls ELSE {})
        /\ UsesManaged(r) => DxvkVariables \subseteq r.env.variables
        /\ UsesManaged(r) <=> is_wine_7_16(r.build)
        /\ r.mismatches \subseteq (IF r.build.linked THEN {"sync-plan"} ELSE {})
    BY <1>1 DEF EnvironmentRight
  <1>3. DxvkDlls \subseteq r.env.overrides <=> UsesManaged(r)
    BY <1>2 DEF UsesManaged, DxvkDlls
  <1>4. ~UsesManaged(r) => DxvkDlls \intersect r.env.overrides = {}
    BY <1>2 DEF DxvkDlls, OverlayDlls
  <1>5. ~Clash(dxvk_environment(r.plan.provider), dgvoodoo_environment(r.plan, r.target))
    BY DEF Clash, dxvk_environment, dgvoodoo_environment, NoContribution, DxvkDlls, OverlayDlls
  <1>6. resolve_runtime(r.path, r.build, r.overlay) = PlanOf(r.build, r.overlay)
    BY <1>1, PlansForItsRunner
  <1>7. \A hash : Validated(hash, r.path, r.build, r.overlay) => [hash |-> hash, runtime |-> spec] \in CompatibilityRecords
    BY <1>6 DEF Validated
  <1> HIDE DEF spec
  <1>8. Validated("sakura", r.path, r.build, r.overlay) => spec = "Wine716OldWow64ManagedDxvk"
    BY <1>7, RecordedRuntimes
  <1>9. Validated("honey", r.path, r.build, r.overlay) => spec \in {"ManagedProtonCachyos11", "ManagedNndskRoProton"}
    BY <1>7, RecordedRuntimes
  <1>10. /\ spec = "Wine716OldWow64ManagedDxvk" => is_wine_7_16(r.build)
         /\ spec \in {"ManagedProtonCachyos11", "ManagedNndskRoProton"} => r.path \in Managed /\ ~is_wine_7_16(r.build)
    BY <1>1, ObservedRuntime DEF spec
  <1> QED BY <1>2, <1>3, <1>4, <1>5, <1>8, <1>9, <1>10 DEF r

LEMMA EnoughWasPrepared == PlanInv => PreparedIsEnough
  <1> SUFFICES ASSUME PlanInv, NEW i \in Holding({"rechecked"}), invocation[i].path = "custom",
                      preparedWith = invocation[i].build, is_wine_7_16(invocation[i].build)
               PROVE  invocation[i].manifest = ManagedDxvk
    BY DEF PreparedIsEnough
  <1>1. i \in Invocations /\ invocation[i].pc = "rechecked"
    BY DEF Holding
  <1>2. invocation[i].build \in BuildRecord /\ invocation[i].manifest = component["custom"]
    BY <1>1, InvocationTyped DEF Good, ReadRight, StaysTrue, Launched, Stages, Guarded
  <1>3. preparedWith # NoBuild
    BY <1>2 DEF BuildRecord, NoBuild
  <1>4. component["custom"] = manifest_component(for_runner(preparedWith))
    BY <1>3 DEF PlanInv, PreparationRight
  <1> QED BY <1>2, <1>4, ManagedPrefixIs716 DEF manifest_component

(* Every launch that runs holds the claim its plan asks for, agrees with the
   legacy decision where the plan must, and uses a prefix that was prepared
   for its build (runtime/plan.rs, runtime/probe.rs), for every set of builds,
   paths and invocations. *)
THEOREM PlanInvariant == PlanInit /\ [][PlanNext]_planVars => [](PlanInv /\ LaunchIsTrue)
  <1>1. PlanInv => LaunchIsTrue
    BY ClaimsBacked, AgreesWithLegacy, EnoughWasPrepared DEF LaunchIsTrue
  <1> QED BY <1>1, PlanStarts, PlanStepKeeps, PTL

(* ------------------------ BindingIsSound: the invariant ------------------ *)

Own(l) == IF l \in Digests THEN l ELSE "m2"
GuardedPcs == {"repair", "provision", "commit", "clean"}
Discovering == {"found", "bound", "resolved"}
CommandRecord ==
    [pc : {"idle", "begun", "validated"} \cup Discovering \cup GuardedPcs, kind : {"setup", "reset", "launch"},
     desired : Digests \cup {NoLocation}, pending : SUBSET Locations, left : SUBSET Locations,
     loc : Locations \cup {NoLocation}, status : {"Unknown", "V3Verified", "LegacyV2RunnerMatched", "Incompatible"},
     eligible : BOOLEAN, again : BOOLEAN, used : Contents, disturbed : BOOLEAN]

BindingTyped ==
    /\ material \in Digests /\ v3Write \in BOOLEAN
    /\ contents \in [Locations -> Contents] /\ mark \in [Locations -> {"none", "P", "C"}]
    /\ saved \in [Locations -> Contents] /\ guardedBy \in [Locations -> Commands \cup {NoLocation}]
    /\ command \in [Commands -> CommandRecord] /\ alien \subseteq Locations /\ raced \subseteq Locations

(* A backup is of the directory's own making; a record of another making is where commands raced. *)
FilesLawful(l) ==
    /\ saved[l] \in {"none", "marker", Own(l)}
    /\ contents[l] \in Recorded /\ contents[l] # Own(l) => l \in raced
    /\ l \in alien => contents[l] = "bare" /\ mark[l] = "none"

(* A transaction that was interrupted and that nobody works on. *)
Deserted(l) == Replaced(l) /\ FreeFor(l)

(* Whoever changes a directory holds its guard. *)
HoldsGuard(c, q) ==
    /\ q.pc \in GuardedPcs => q.loc \in Locations \ alien /\ guardedBy[q.loc] = c
    /\ q.pc = "repair" => mark[q.loc] = "none" /\ saved[q.loc] = "none"
    /\ q.pc = "provision" => mark[q.loc] = "P"
    /\ q.pc \in {"commit", "clean"} => mark[q.loc] = "C"
(* What a command found is still so, unless another one was there. *)
Knows(q) ==
    /\ q.left = q.pending /\ (q.pc # "idle" => q.desired \in Digests)
    /\ q.pc \in Discovering /\ ~q.disturbed => \A l \in q.pending : blocks_resolution(l)
    /\ q.pc \in {"found", "bound"} /\ ~q.again => \A l \in Locations : Deserted(l) => l \in q.pending
    /\ q.pc \in Discovering /\ q.again => \A l \in Locations : ~Deserted(l)
Verified(q) == q.loc \in Digests => q.status = "V3Verified" \/ v3Write
(* Where it goes from there. *)
Placed(q) ==
    /\ q.pc \notin {"idle", "found"} => q.loc \in Locations /\ q.pending \subseteq {q.loc}
    /\ q.pc \in {"bound", "resolved"} /\ q.pending = {} => q.loc \in {q.desired, V2} /\ (q.eligible => Verified(q))
    /\ q.pc = "resolved" /\ ~q.again => q.disturbed \/ q.pending = {}
    /\ q.pc \in {"begun", "validated"} \cup GuardedPcs /\ q.loc \notin raced => q.loc \in {q.desired, V2}
    /\ q.pc \in {"begun"} \cup GuardedPcs /\ q.loc \notin raced => Verified(q)
    /\ q.pc = "validated" /\ q.loc \notin raced => q.used = Own(q.loc)

CommandLawful(c, q) == HoldsGuard(c, q) /\ Knows(q) /\ Placed(q)

BindingInv ==
    /\ BindingTyped
    /\ \A l \in Locations : FilesLawful(l)
    /\ \A c \in Commands : CommandLawful(c, command[c])

(* ------------------------------ one location ----------------------------- *)

LEMMA NamesApart ==
    /\ V2 \notin Digests /\ V2 \in Locations /\ Digests \subseteq Locations
    /\ \A l \in Locations : Own(l) \in Recorded /\ Own(l) \notin {"none", "partial", "bare", "marker"}
    /\ \A x \in Recorded : x \in Contents /\ x \notin {"none", "partial", "bare", "marker"}
    /\ {"none", "partial", "bare", "marker"} \subseteq Contents
    /\ NoLocation \notin Locations /\ NoLocation \notin Commands
  BY DigestsAssumption, CommandsAssumption DEF V2, Locations, Own, Recorded, Contents, NoLocation

GateFacts ==
    \A l \in Locations :
       /\ CommitAt(l) <=> contents[l] = Own(l)
       /\ blocks_resolution(l) <=> (mark[l] # "none" \/ saved[l] # "none") /\ contents[l] # Own(l)
       /\ Replaced(l) <=> /\ mark[l] # "none" \/ saved[l] # "none"
                          /\ contents[l] \in {"none", "partial"} /\ mark[l] # "C"
       /\ blocks_resolution(l) => Replaced(l) \/ Refused(l)
LEMMA GateIs == GateFacts
  <1> SUFFICES ASSUME NEW l \in Locations
               PROVE  GateFacts!(l)
    BY DEF GateFacts
  <1>1. CommitAt(l) <=> contents[l] = Own(l)
    BY DEF CommitAt, Own
  <1>2. contents[l] \in {"none", "partial"} => ~CommitAt(l)
    BY <1>1, NamesApart
  <1> DEFINE evidence == ~(mark[l] = "none" /\ saved[l] = "none")
  <1>3. /\ ~evidence => Gate(l) = "NoTransactionEvidence"
        /\ evidence /\ CommitAt(l) => Gate(l) = "CommittedValid"
        /\ evidence /\ contents[l] \in {"none", "partial"} => Gate(l) = "PendingTransaction"
        /\ evidence /\ ~CommitAt(l) /\ contents[l] \notin {"none", "partial"} => Gate(l) = "AmbiguousTransaction"
    <2>1. ASSUME ~evidence PROVE Gate(l) = "NoTransactionEvidence"
      BY <2>1 DEF Gate
    <2>2. ASSUME evidence, CommitAt(l) PROVE Gate(l) = "CommittedValid"
      BY <1>2, <2>2 DEF Gate
    <2>3. ASSUME evidence, contents[l] \in {"none", "partial"} PROVE Gate(l) = "PendingTransaction"
      BY <1>2, <2>3 DEF Gate
    <2>4. ASSUME evidence, ~CommitAt(l), contents[l] \notin {"none", "partial"} PROVE Gate(l) = "AmbiguousTransaction"
      BY <2>4 DEF Gate
    <2> QED BY <2>1, <2>2, <2>3, <2>4
  <1>4. Refused(l) <=> \/ evidence /\ ~CommitAt(l) /\ contents[l] \notin {"none", "partial"}
                       \/ mark[l] = "C" /\ ~CommitAt(l)
    BY <1>2, <1>3 DEF Refused
  <1>5. blocks_resolution(l) <=> evidence /\ ~CommitAt(l)
    BY <1>2, <1>3 DEF blocks_resolution
  <1>6. Replaced(l) <=> evidence /\ contents[l] \in {"none", "partial"} /\ mark[l] # "C"
    BY <1>2, <1>3, <1>4 DEF Replaced
  <1> QED BY <1>1, <1>2, <1>4, <1>5, <1>6

LEMMA GateStays == GateFacts'
  BY GateIs, PTL

(* What a step of a command does to the directories, as the others may see it. *)
Mild(c) ==
    /\ \A l \in Locations :
         /\ guardedBy[l] \notin {NoLocation, c} =>
                /\ contents'[l] = contents[l] /\ mark'[l] = mark[l]
                /\ saved'[l] = saved[l] /\ guardedBy'[l] = guardedBy[l]
         /\ Deserted(l)' => Deserted(l)
         /\ blocks_resolution(l) /\ contents'[l] = contents[l] /\ mark'[l] = mark[l] => blocks_resolution(l)'
    /\ UNCHANGED <<v3Write, alien>>
FilesTyped ==
    /\ contents \in [Locations -> Contents] /\ mark \in [Locations -> {"none", "P", "C"}]
    /\ saved \in [Locations -> Contents] /\ guardedBy \in [Locations -> Commands \cup {NoLocation}]
FilesKept == FilesTyped' /\ (\A l \in Locations : FilesLawful(l)')

LEMMA RacedGrows ==
    ASSUME NEW c, NEW r, Now(c, r)
    PROVE  raced \subseteq raced' /\ (r.pc \in {"begun", "validated"} /\ r.disturbed => r.loc \in raced')
           /\ (raced' \subseteq raced \cup {r.loc})
           /\ (r.pc \notin {"begun", "validated"} => raced' = raced)
  BY DEF Now

LEMMA UntouchedIsMild ==
    ASSUME BindingInv, NEW c \in Commands, raced \subseteq raced', UNCHANGED <<contents, mark, saved, guardedBy, v3Write, alien>>
    PROVE  Mild(c) /\ FilesKept
  <1>1. Mild(c)
    BY DEF Mild, Deserted, FreeFor, Replaced, Refused, Gate, CommitAt, blocks_resolution
  <1>2. FilesKept
    BY DEF FilesKept, FilesTyped, FilesLawful, BindingInv, BindingTyped
  <1> QED BY <1>1, <1>2

(* A step that changes one location, which is free or guarded by the command:
   nothing is deserted here that was not, and an interrupted transaction does
   not end unseen. *)
Alters(c, l, x, m, s, g) ==
    /\ contents' = [contents EXCEPT ![l] = x] /\ mark' = [mark EXCEPT ![l] = m]
    /\ saved' = [saved EXCEPT ![l] = s] /\ guardedBy' = [guardedBy EXCEPT ![l] = g]
    /\ x \in Contents /\ m \in {"none", "P", "C"} /\ s \in {"none", "marker", Own(l)}
    /\ g \in Commands \cup {NoLocation} /\ guardedBy[l] \in {NoLocation, c}
    /\ g = NoLocation => (m = "none" /\ s = "none") \/ m = "C" \/ x \notin {"none", "partial"}
    /\ blocks_resolution(l) /\ x = contents[l] /\ m = mark[l] => m # "none" \/ s # "none"
    /\ x \in Recorded /\ x # Own(l) => l \in raced
    /\ l \in alien => x = "bare" /\ m = "none"
LEMMA OneLocation ==
    ASSUME BindingInv, NEW c \in Commands, raced \subseteq raced', UNCHANGED <<v3Write, alien>>,
           NEW l \in Locations, NEW x, NEW m, NEW s, NEW g, Alters(c, l, x, m, s, g)
    PROVE  /\ Mild(c) /\ FilesKept
           /\ contents'[l] = x /\ mark'[l] = m /\ saved'[l] = s /\ guardedBy'[l] = g
           /\ ~Deserted(l)'
  <1> USE DEF Alters
  <1>1. FilesTyped
    BY DEF BindingInv, BindingTyped, FilesTyped
  <1>2. /\ contents'[l] = x /\ mark'[l] = m /\ saved'[l] = s /\ guardedBy'[l] = g
        /\ \A j \in Locations \ {l} : contents'[j] = contents[j] /\ mark'[j] = mark[j]
                                      /\ saved'[j] = saved[j] /\ guardedBy'[j] = guardedBy[j]
    BY <1>1 DEF FilesTyped
  <1>3. s \in Contents
    BY NamesApart
  <1>4. FilesTyped'
    BY <1>1, <1>3 DEF FilesTyped
  <1>5. ~Deserted(l)'
    <2>1. Replaced(l)' <=> (m # "none" \/ s # "none") /\ x \in {"none", "partial"} /\ m # "C"
      BY <1>2, GateStays DEF GateFacts
    <2> QED BY <1>2, <2>1 DEF Deserted, FreeFor
  <1>6. \A j \in Locations : Deserted(j)' => Deserted(j)
    BY <1>2, <1>5 DEF Deserted, FreeFor, Replaced, Refused, Gate, CommitAt
  <1>7. ASSUME NEW j \in Locations, blocks_resolution(j), contents'[j] = contents[j], mark'[j] = mark[j]
        PROVE  blocks_resolution(j)'
    <2>1. CASE j = l
      BY <1>2, <1>7, <2>1, GateIs, GateStays DEF GateFacts
    <2>2. CASE j # l
      BY <1>2, <1>7, <2>2 DEF blocks_resolution, Gate, CommitAt
    <2> QED BY <2>1, <2>2
  <1>8. Mild(c)
    BY <1>2, <1>6, <1>7 DEF Mild
  <1>9. \A j \in Locations : FilesLawful(j)'
    <2>1. FilesLawful(l)'
      BY <1>2 DEF FilesLawful, Own
    <2>2. ASSUME NEW j \in Locations \ {l} PROVE FilesLawful(j)'
      BY <1>2 DEF FilesLawful, Own, BindingInv
    <2> QED BY <2>1, <2>2
  <1> QED BY <1>2, <1>4, <1>5, <1>8, <1>9 DEF FilesKept

(* ------------------------------- the others ------------------------------ *)

LEMMA OthersLawful ==
    ASSUME BindingInv, NEW c \in Commands, NEW r, Now(c, r), Mild(c), NEW k \in Commands, k # c
    PROVE  command'[k] \in CommandRecord /\ CommandLawful(k, command[k])'
  <1>1. command[k] \in CommandRecord /\ CommandLawful(k, command[k])
    BY DEF BindingInv, BindingTyped
  <1> DEFINE disturbs == \E l \in command[k].pending : <<contents[l], mark[l]>>' # <<contents[l], mark[l]>>
  <1>2. command'[k] = IF disturbs THEN [command[k] EXCEPT !.disturbed = TRUE] ELSE command[k]
    BY DEF Now
  <1>3. PICK q \in CommandRecord : q = command[k]
    BY <1>1
  <1>4. PICK p \in CommandRecord :
            /\ p = command'[k] /\ p.pc = q.pc /\ p.desired = q.desired /\ p.pending = q.pending /\ p.left = q.left
            /\ p.loc = q.loc /\ p.status = q.status /\ p.eligible = q.eligible /\ p.again = q.again /\ p.used = q.used
            /\ p.disturbed \in BOOLEAN /\ (q.disturbed => p.disturbed)
            /\ ~p.disturbed => \A l \in q.pending : contents'[l] = contents[l] /\ mark'[l] = mark[l]
    <2>1. CASE disturbs
      <3> DEFINE d == [q EXCEPT !.disturbed = TRUE]
      <3>1. /\ d \in CommandRecord /\ d.pc = q.pc /\ d.desired = q.desired /\ d.pending = q.pending /\ d.left = q.left
            /\ d.loc = q.loc /\ d.status = q.status /\ d.eligible = q.eligible /\ d.again = q.again /\ d.used = q.used
            /\ d.disturbed = TRUE
        BY DEF CommandRecord
      <3>2. d = command'[k]
        BY <1>2, <1>3, <2>1
      <3> HIDE DEF d
      <3> QED BY <3>1, <3>2
    <2>2. CASE ~disturbs
      <3>1. q = command'[k] /\ q.disturbed \in BOOLEAN
        BY <1>2, <1>3, <2>2 DEF CommandRecord
      <3>2. \A l \in q.pending : contents'[l] = contents[l] /\ mark'[l] = mark[l]
        BY <1>3, <2>2
      <3> QED BY <3>1, <3>2
    <2> QED BY <2>1, <2>2
  <1>5. CommandLawful(k, q)
    BY <1>1, <1>3
  <1>6. raced \subseteq raced' /\ v3Write' = v3Write /\ alien' = alien /\ q.pending \subseteq Locations
    BY RacedGrows DEF Mild, CommandRecord
  <1>7. k # NoLocation
    BY NamesApart
  <1>8. HoldsGuard(k, p)'
    <2>1. q.pc \in GuardedPcs => /\ contents'[q.loc] = contents[q.loc] /\ mark'[q.loc] = mark[q.loc]
                                 /\ saved'[q.loc] = saved[q.loc] /\ guardedBy'[q.loc] = guardedBy[q.loc]
      BY <1>5, <1>7 DEF Mild, CommandLawful, HoldsGuard
    <2> QED BY <1>4, <1>5, <1>6, <2>1 DEF CommandLawful, HoldsGuard, GuardedPcs
  <1>9. Knows(p)'
    BY <1>4, <1>5, <1>6 DEF CommandLawful, Knows, Mild
  <1>10. Placed(p)'
    BY <1>4, <1>5, <1>6 DEF CommandLawful, Placed, Verified, Own
  <1>11. CommandLawful(k, command[k])'
    BY <1>4, <1>8, <1>9, <1>10 DEF CommandLawful, HoldsGuard, Knows, Placed, Verified
  <1> QED BY <1>4, <1>11

(* What is left to show of a step of a command. *)
LEMMA CommandStep ==
    ASSUME BindingInv, NEW c \in Commands, NEW r \in CommandRecord, Now(c, r), Mild(c), FilesKept,
           material' = material, CommandLawful(c, r)'
    PROVE  BindingInv'
  <1>1. command'[c] = r /\ command' = [k \in Commands |-> command'[k]]
    BY DEF Now
  <1>2. \A k \in Commands \ {c} : command'[k] \in CommandRecord /\ CommandLawful(k, command[k])'
    BY OthersLawful
  <1>3. CommandLawful(c, command[c])'
    BY <1>1 DEF CommandLawful, HoldsGuard, Knows, Placed, Verified
  <1>4. command' \in [Commands -> CommandRecord]
    BY <1>1, <1>2
  <1>5. raced' \subseteq Locations
    <2>1. r.pc \in {"begun", "validated"} => r.loc \in Locations
      BY DEF CommandLawful, Placed, Discovering, GuardedPcs
    <2> QED BY <2>1 DEF Now, BindingInv, BindingTyped
  <1> QED BY <1>2, <1>3, <1>4, <1>5 DEF BindingInv, BindingTyped, FilesKept, FilesTyped, Mild

(* -------------------------- the steps of a command ----------------------- *)

LEMMA CommandOf ==
    ASSUME BindingInv, NEW c \in Commands
    PROVE  command[c] \in CommandRecord /\ CommandLawful(c, command[c])
  BY DEF BindingInv, BindingTyped

LEMMA ReturnsKeeps ==
    ASSUME BindingInv, NEW c \in Commands, Returns(c), Mild(c), FilesKept, material' = material
    PROVE  BindingInv'
  <1>1. /\ Idle.pc = "idle" /\ Idle.left = {} /\ Idle.pending = {}
        /\ Idle \in CommandRecord
    BY NamesApart DEF Idle, CommandRecord
  <1>2. PICK r \in CommandRecord : r = Idle /\ r.pc = "idle" /\ r.left = {} /\ r.pending = {}
    BY <1>1
  <1>3. CommandLawful(c, r)'
    BY <1>2 DEF CommandLawful, HoldsGuard, Knows, Placed, Discovering, GuardedPcs
  <1> QED BY <1>2, <1>3, CommandStep DEF Returns

(* A command that gives up before it does anything. *)
LEMMA GoneKeeps ==
    ASSUME BindingInv, NEW c \in Commands, Returns(c), UNCHANGED <<material, v3Write, files, guardedBy, alien>>
    PROVE  BindingInv'
  <1>1. raced \subseteq raced'
    BY RacedGrows DEF Returns
  <1>2. Mild(c) /\ FilesKept
    BY <1>1, UntouchedIsMild DEF files
  <1> QED BY <1>2, ReturnsKeeps

BlockedFacts == Unfinished = Blocked /\ \A l : l \in Blocked <=> l \in Locations /\ blocks_resolution(l)
LEMMA BlockedIs == BlockedFacts
  <1>1. \A l : l \in Blocked <=> l \in Locations /\ blocks_resolution(l)
    BY DEF Blocked, blocks_resolution, Gate, CommitAt
  <1>2. \A l : l \in Unfinished <=> l \in Locations /\ (mark[l] # "none" \/ saved[l] # "none") /\ contents[l] # Own(l)
    BY DEF Unfinished, Own
  <1>3. \A l : l \in Unfinished <=> l \in Blocked
    BY <1>1, <1>2, GateIs DEF GateFacts
  <1>4. Blocked \subseteq Locations /\ Unfinished \subseteq Locations
    <2>1. Blocked \subseteq Locations
      BY <1>1
    <2> QED BY <1>2, <2>1
  <1>5. Unfinished = Blocked
    BY <1>3, <1>4
  <1> QED BY <1>1, <1>5 DEF BlockedFacts

LEMMA BlockedStays == BlockedFacts'
  BY BlockedIs, PTL

LEMMA DesertedBlocks == \A l \in Locations : Deserted(l) => blocks_resolution(l)
  BY GateIs, NamesApart DEF GateFacts, Deserted

LEMMA DiscoverKeeps ==
    ASSUME BindingInv, NEW c \in Commands, NEW kind \in {"setup", "reset", "launch"}, Discover(c, kind)
    PROVE  BindingInv'
  <1> DEFINE r == [Idle EXCEPT !.pc = "found", !.kind = kind, !.desired = material,
                               !.pending = Blocked, !.left = Unfinished]
  <1>1. UNCHANGED <<material, v3Write, files, guardedBy, alien>> /\ Now(c, r)
    BY DEF Discover
  <1>2. /\ r \in CommandRecord /\ r.pc = "found" /\ r.desired = material /\ r.pending = Blocked
        /\ r.left = Unfinished /\ r.again = FALSE
    <2>1. Blocked \subseteq Locations /\ Unfinished = Blocked /\ material \in Digests
      BY BlockedIs DEF BlockedFacts, BindingInv, BindingTyped
    <2> QED BY <2>1, NamesApart DEF Idle, CommandRecord, Discovering
  <1> HIDE DEF r
  <1>3. PICK q \in CommandRecord : /\ q = r /\ q.pc = "found" /\ q.desired = material /\ q.pending = Blocked
                                   /\ q.left = Unfinished /\ q.again = FALSE
    BY <1>2
  <1>n. Now(c, q)
    BY <1>1, <1>3 DEF Now
  <1>4. Mild(c) /\ FilesKept
    <2>1. raced \subseteq raced'
      BY <1>n, RacedGrows
    <2> QED BY <1>1, <2>1, UntouchedIsMild DEF files
  <1>5. \A l \in q.pending : blocks_resolution(l)'
    <2>1. \A l \in q.pending : l \in Locations /\ blocks_resolution(l)
      BY <1>3, BlockedIs DEF BlockedFacts
    <2> QED BY <1>1, <2>1 DEF blocks_resolution, Gate, CommitAt, files
  <1>6. \A l \in Locations : Deserted(l)' => l \in q.pending
    BY <1>3, <1>4, DesertedBlocks, BlockedIs DEF Mild, BlockedFacts
  <1>7. Knows(q)'
    BY <1>3, <1>5, <1>6, BlockedIs DEF Knows, BindingInv, BindingTyped, BlockedFacts
  <1>8. HoldsGuard(c, q)' /\ Placed(q)'
    BY <1>3 DEF HoldsGuard, Placed, GuardedPcs
  <1>9. CommandLawful(c, q)'
    BY <1>7, <1>8 DEF CommandLawful
  <1> QED BY <1>1, <1>n, <1>4, <1>9, CommandStep

LEMMA BindingForIs ==
    ASSUME BindingInv, NEW q \in CommandRecord, q.desired \in Digests
    PROVE  \/ BindingFor(q) = Idle
           \/ \E l \in Locations, status \in {"Unknown", "V3Verified", "LegacyV2RunnerMatched", "Incompatible"},
                 eligible \in BOOLEAN :
                /\ BindingFor(q) = Bound(q, l, status, eligible)
                /\ q.pending \subseteq {l}
                /\ q.pending = {} => l \in {q.desired, V2}
                /\ q.pending = {} /\ eligible /\ l \in Digests => status = "V3Verified" \/ v3Write
  <1> DEFINE n == Cardinality(q.pending)
             d == q.desired
             other == IF try_v3_verified(d) THEN Bound(q, d, "V3Verified", TRUE)
                      ELSE IF V3Conflict(d) THEN Bound(q, d, "Incompatible", FALSE)
                      ELSE IF try_legacy_v2_match THEN Bound(q, V2, "LegacyV2RunnerMatched", TRUE)
                      ELSE IF ~v3Write /\ V2Conflict THEN Bound(q, V2, "Incompatible", FALSE)
                      ELSE Bound(q, DesiredPath(d), "Unknown", TRUE)
  <1>1. IsFiniteSet(q.pending)
    <2>1. IsFiniteSet(Locations)
      BY DigestsAssumption, FS_AddElement DEF Locations
    <2>2. q.pending \subseteq Locations
      BY DEF CommandRecord
    <2> QED BY <2>1, <2>2, FS_Subset
  <1>2. n \in Nat /\ (n = 0 <=> q.pending = {}) /\ (n = 1 => \E x : q.pending = {x})
    BY <1>1, FS_CardinalityType, FS_EmptySet, FS_Singleton
  <1> HIDE DEF other
  <1>3. /\ n > 1 => BindingFor(q) = Idle
        /\ ~(n > 1) /\ n = 1 => BindingFor(q) = Bound(q, CHOOSE l \in q.pending : TRUE, "Unknown", TRUE)
        /\ ~(n > 1) /\ n # 1 => BindingFor(q) = other
    <2>1. ASSUME n > 1 PROVE BindingFor(q) = Idle
      <3>1. n # 1
        BY <1>2, <2>1
      <3> QED BY <2>1, <3>1 DEF BindingFor
    <2>2. ~(n > 1) /\ n = 1 => BindingFor(q) = Bound(q, CHOOSE l \in q.pending : TRUE, "Unknown", TRUE)
      BY DEF BindingFor
    <2>3. ~(n > 1) /\ n # 1 => BindingFor(q) = other
      BY DEF BindingFor, other
    <2> QED BY <2>1, <2>2, <2>3
  <1> HIDE DEF n
  <1>4. CASE n > 1
    BY <1>3, <1>4
  <1>5. CASE n = 1
    <2>1. PICK l : q.pending = {l}
      BY <1>2, <1>5
    <2>2. (CHOOSE x \in q.pending : TRUE) = l
      BY <2>1
    <2>3. BindingFor(q) = Bound(q, CHOOSE x \in q.pending : TRUE, "Unknown", TRUE)
      BY <1>3, <1>5
    <2>4. BindingFor(q) = Bound(q, l, "Unknown", TRUE)
      BY <2>2, <2>3 DEF Bound
    <2>5. l \in Locations /\ q.pending \subseteq {l} /\ q.pending # {}
      BY <2>1 DEF CommandRecord
    <2> QED BY <2>4, <2>5
  <1>6. CASE n = 0
    <2>1. BindingFor(q) = other /\ q.pending = {}
      BY <1>2, <1>3, <1>6
    <2>2. d \in Locations /\ V2 \in Locations /\ V2 \notin Digests /\ d \in {q.desired, V2}
      BY NamesApart
    <2>3. \/ other = Bound(q, d, "V3Verified", TRUE)
          \/ other = Bound(q, d, "Incompatible", FALSE)
          \/ other = Bound(q, V2, "LegacyV2RunnerMatched", TRUE)
          \/ other = Bound(q, V2, "Incompatible", FALSE)
          \/ v3Write /\ other = Bound(q, d, "Unknown", TRUE)
          \/ other = Bound(q, V2, "Unknown", TRUE)
      BY DEF other, DesiredPath
    <2> HIDE DEF d
    <2> QED BY <2>1, <2>2, <2>3
  <1> QED BY <1>2, <1>4, <1>5, <1>6

LEMMA ChooseKeeps ==
    ASSUME BindingInv, NEW c \in Commands, Choose(c)
    PROVE  BindingInv'
  <1>1. PICK q \in CommandRecord : q = command[c] /\ CommandLawful(c, q)
    BY CommandOf
  <1>2. UNCHANGED <<material, v3Write, files, guardedBy, alien>> /\ q.pc = "found" /\ Now(c, BindingFor(q))
    BY <1>1 DEF Choose, At, Now
  <1>3. q.desired \in Digests
    BY <1>1, <1>2 DEF CommandLawful, Knows
  <1>4. CASE BindingFor(q) = Idle
    <2>1. Returns(c)
      BY <1>2, <1>4 DEF Returns, Now
    <2> QED BY <1>2, <2>1, GoneKeeps
  <1>5. ASSUME NEW l \in Locations, NEW status \in {"Unknown", "V3Verified", "LegacyV2RunnerMatched", "Incompatible"},
               NEW eligible \in BOOLEAN, BindingFor(q) = Bound(q, l, status, eligible), q.pending \subseteq {l},
               q.pending = {} => l \in {q.desired, V2},
               q.pending = {} /\ eligible /\ l \in Digests => status = "V3Verified" \/ v3Write
        PROVE  BindingInv'
    <2> DEFINE r == Bound(q, l, status, eligible)
    <2>1. /\ r \in CommandRecord /\ r.pc = "bound" /\ r.loc = l /\ r.status = status /\ r.eligible = eligible
          /\ r.pending = q.pending /\ r.left = q.left /\ r.desired = q.desired /\ r.again = q.again
          /\ r.disturbed = q.disturbed
      BY DEF Bound, CommandRecord, Discovering
    <2>2. Now(c, r)
      BY <1>2, <1>5 DEF Now
    <2> HIDE DEF r
    <2>3. PICK p \in CommandRecord :
            /\ p = r /\ p.pc = "bound" /\ p.loc = l /\ p.status = status /\ p.eligible = eligible
            /\ p.pending = q.pending /\ p.left = q.left /\ p.desired = q.desired /\ p.again = q.again
            /\ p.disturbed = q.disturbed
      BY <2>1
    <2>n. Now(c, p)
      BY <2>2, <2>3 DEF Now
    <2>4. Mild(c) /\ FilesKept
      <3>1. raced \subseteq raced'
        BY <2>n, RacedGrows
      <3> QED BY <1>2, <3>1, UntouchedIsMild DEF files
    <2>5. /\ \A j \in Locations : (blocks_resolution(j) <=> blocks_resolution(j)') /\ (Deserted(j) <=> Deserted(j)')
          /\ v3Write' = v3Write
      BY <1>2 DEF blocks_resolution, Deserted, Replaced, Refused, Gate, CommitAt, FreeFor, files
    <2>6. q.pending \subseteq Locations
      BY DEF CommandRecord
    <2>7. Knows(p)'
      BY <1>1, <1>2, <2>3, <2>5, <2>6 DEF CommandLawful, Knows, Discovering
    <2>8. Placed(p)'
      BY <1>5, <2>3, <2>5 DEF Placed, Verified, GuardedPcs
    <2>9. HoldsGuard(c, p)'
      BY <2>3 DEF HoldsGuard, GuardedPcs
    <2>10. CommandLawful(c, p)'
      BY <2>7, <2>8, <2>9 DEF CommandLawful
    <2> QED BY <1>2, <2>n, <2>4, <2>10, CommandStep
  <1> QED BY <1>3, <1>4, <1>5, BindingForIs

LEMMA RecoverIsMild ==
    ASSUME BindingInv, NEW c \in Commands, NEW l \in Locations, raced \subseteq raced', UNCHANGED <<v3Write, alien>>,
           FreeFor(l), ~Refused(l), RecoverAt(l),
           NEW g \in Commands \cup {NoLocation}, guardedBy' = [guardedBy EXCEPT ![l] = g]
    PROVE  /\ Mild(c) /\ FilesKept
           /\ mark'[l] = "none" /\ saved'[l] = "none" /\ guardedBy'[l] = g /\ ~Deserted(l)'
           /\ ~Replaced(l) => contents'[l] = contents[l]
  <1>1. /\ contents \in [Locations -> Contents] /\ saved \in [Locations -> Contents] /\ FilesLawful(l)
        /\ guardedBy[l] = NoLocation
    BY DEF BindingInv, BindingTyped, FreeFor
  <1>2. PICK x \in Contents : x = IF Replaced(l) THEN saved[l] ELSE contents[l]
    BY <1>1
  <1>3. contents' = [contents EXCEPT ![l] = x] /\ mark' = [mark EXCEPT ![l] = "none"] /\ saved' = [saved EXCEPT ![l] = "none"]
    BY <1>1, <1>2 DEF RecoverAt
  <1>4. ~(blocks_resolution(l) /\ x = contents[l] /\ "none" = mark[l])
    BY <1>1, <1>2, GateIs, NamesApart DEF GateFacts, FilesLawful
  <1>5. x \in Recorded /\ x # Own(l) => l \in raced
    BY <1>1, <1>2, NamesApart DEF FilesLawful
  <1>6. l \in alien => x = "bare"
    BY <1>1, <1>2, GateIs DEF GateFacts, FilesLawful
  <1>7. /\ Mild(c) /\ FilesKept
        /\ contents'[l] = x /\ mark'[l] = "none" /\ saved'[l] = "none" /\ guardedBy'[l] = g
        /\ ~Deserted(l)'
    <2>1. Alters(c, l, x, "none", "none", g)
      BY <1>1, <1>3, <1>4, <1>5, <1>6 DEF Alters
    <2> QED BY <2>1, OneLocation
  <1> QED BY <1>2, <1>7

(* Fields a command keeps while it works. *)
Same(q, r) ==
    /\ q.desired = r.desired /\ q.pending = r.pending /\ q.left = r.left /\ q.loc = r.loc /\ q.status = r.status
    /\ q.eligible = r.eligible /\ q.again = r.again /\ q.disturbed = r.disturbed

LEMMA GoesTo ==
    ASSUME BindingInv, NEW c \in Commands, NEW p \in {"validated"} \cup Discovering \cup GuardedPcs, Goes(c, p)
    PROVE  \E q \in CommandRecord : Now(c, q) /\ q.pc = p /\ Same(q, command[c])
  <1> DEFINE r == [command[c] EXCEPT !.pc = p]
  <1>1. command[c] \in CommandRecord
    BY CommandOf
  <1>2. r \in CommandRecord /\ r.pc = p /\ Same(r, command[c])
    BY <1>1 DEF CommandRecord, Same
  <1>3. Now(c, r)
    BY DEF Goes
  <1> HIDE DEF r
  <1>4. PICK q \in CommandRecord : q = r /\ q.pc = p /\ Same(q, command[c])
    BY <1>2
  <1>5. Now(c, q)
    BY <1>3, <1>4 DEF Now
  <1> QED BY <1>4, <1>5

LEMMA ResolveRecoveredKeeps ==
    ASSUME BindingInv, NEW c \in Commands, ResolveRecovered(c)
    PROVE  BindingInv'
  <1>1. PICK q \in CommandRecord : q = command[c] /\ CommandLawful(c, q)
    BY CommandOf
  <1>2. /\ UNCHANGED <<material, v3Write, guardedBy, alien>> /\ q.pc = "bound" /\ ~q.again
        /\ q.loc \in Locations /\ q.pending \subseteq {q.loc}
    BY <1>1 DEF ResolveRecovered, At, CommandLawful, Placed
  <1>3. CASE ~FreeFor(q.loc) \/ Refused(q.loc)
    <2>1. UNCHANGED files /\ Returns(c)
      BY <1>1, <1>3 DEF ResolveRecovered
    <2> QED BY <1>2, <2>1, GoneKeeps
  <1>4. CASE FreeFor(q.loc) /\ ~Refused(q.loc)
    <2>1. /\ RecoverAt(q.loc) /\ guardedBy' = [guardedBy EXCEPT ![q.loc] = NoLocation]
      BY <1>1, <1>2, <1>4 DEF ResolveRecovered, FreeFor, BindingInv, BindingTyped
    <2>2. CASE Replaced(q.loc)
      <3> DEFINE r == [Idle EXCEPT !.pc = "found", !.kind = command[c].kind, !.again = TRUE, !.desired = material,
                                   !.pending = Blocked', !.left = Unfinished']
      <3>1. Now(c, r)
        BY <1>1, <1>4, <2>2 DEF ResolveRecovered
      <3>2. /\ r \in CommandRecord /\ r.pc = "found" /\ r.again = TRUE /\ r.desired = material
            /\ r.pending = Blocked' /\ r.left = Unfinished'
        <4>1. Blocked' \subseteq Locations /\ Unfinished' \subseteq Locations
          BY BlockedStays DEF BlockedFacts
        <4>2. material \in Digests /\ command[c].kind \in {"setup", "reset", "launch"}
          BY <1>1 DEF BindingInv, BindingTyped, CommandRecord
        <4> QED BY <4>1, <4>2, NamesApart DEF Idle, CommandRecord, Discovering
      <3> HIDE DEF r
      <3>3. PICK p \in CommandRecord : /\ p = r /\ p.pc = "found" /\ p.again = TRUE /\ p.desired = material
                                       /\ p.pending = Blocked' /\ p.left = Unfinished'
        BY <3>2
      <3>4. Now(c, p)
        BY <3>1, <3>3 DEF Now
      <3>5. raced \subseteq raced'
        BY <3>4, RacedGrows
      <3>6. Mild(c) /\ FilesKept /\ ~Deserted(q.loc)'
        BY <1>2, <1>4, <2>1, <3>5, RecoverIsMild
      <3>7. \A j \in Locations : ~Deserted(j)'
        <4>1. \A j \in Locations : Deserted(j)' => Deserted(j)
          BY <3>6 DEF Mild
        <4>2. \A j \in Locations : Deserted(j) => j \in q.pending
          BY <1>1, <1>2 DEF CommandLawful, Knows
        <4> QED BY <1>2, <3>6, <4>1, <4>2
      <3>8. Knows(p)'
        BY <1>2, <3>3, <3>7, BlockedStays DEF Knows, BlockedFacts, BindingInv, BindingTyped
      <3>9. HoldsGuard(c, p)' /\ Placed(p)'
        BY <3>3 DEF HoldsGuard, Placed, GuardedPcs
      <3>10. CommandLawful(c, p)'
        BY <3>8, <3>9 DEF CommandLawful
      <3> QED BY <1>2, <3>4, <3>6, <3>10, CommandStep
    <2>3. CASE ~Replaced(q.loc)
      <3>1. Goes(c, "resolved")
        BY <1>1, <1>4, <2>3 DEF ResolveRecovered
      <3>2. PICK p \in CommandRecord : Now(c, p) /\ p.pc = "resolved" /\ Same(p, q)
        BY <1>1, <3>1, GoesTo DEF Discovering
      <3>3. raced \subseteq raced'
        BY <3>2, RacedGrows
      <3>4. Mild(c) /\ FilesKept
        BY <1>2, <1>4, <2>1, <3>3, RecoverIsMild
      <3>5. ~blocks_resolution(q.loc)
        BY <1>2, <1>4, <2>3, GateIs DEF GateFacts
      <3>6. ~q.disturbed => q.pending = {}
        BY <1>1, <1>2, <3>5 DEF CommandLawful, Knows, Discovering
      <3>7. Knows(p)'
        BY <1>1, <1>2, <3>2, <3>6 DEF CommandLawful, Knows, Same
      <3>8. Placed(p)'
        BY <1>1, <1>2, <3>2, <3>6 DEF CommandLawful, Placed, Verified, Same, GuardedPcs
      <3>9. HoldsGuard(c, p)'
        BY <3>2 DEF HoldsGuard, GuardedPcs
      <3>10. CommandLawful(c, p)'
        BY <3>7, <3>8, <3>9 DEF CommandLawful
      <3> QED BY <1>2, <3>2, <3>4, <3>10, CommandStep
    <2> QED BY <2>2, <2>3
  <1> QED BY <1>3, <1>4

LEMMA ResolvedAgainKeeps ==
    ASSUME BindingInv, NEW c \in Commands, ResolvedAgain(c)
    PROVE  BindingInv'
  <1>1. PICK q \in CommandRecord : q = command[c] /\ CommandLawful(c, q)
    BY CommandOf
  <1>2. /\ UNCHANGED <<material, v3Write, files, guardedBy, alien>> /\ q.pc = "bound" /\ q.again
        /\ q.loc \in Locations /\ q.pending \subseteq {q.loc} /\ Goes(c, "resolved")
    BY <1>1 DEF ResolvedAgain, At, CommandLawful, Placed
  <1>3. PICK p \in CommandRecord : Now(c, p) /\ p.pc = "resolved" /\ Same(p, q)
    BY <1>1, <1>2, GoesTo DEF Discovering
  <1>4. Mild(c) /\ FilesKept
    <2>1. raced \subseteq raced'
      BY <1>3, RacedGrows
    <2> QED BY <1>2, <2>1, UntouchedIsMild DEF files
  <1>5. \A j \in Locations : (blocks_resolution(j) <=> blocks_resolution(j)') /\ (Deserted(j) <=> Deserted(j)')
    BY <1>2 DEF blocks_resolution, Deserted, Replaced, Refused, Gate, CommitAt, FreeFor, files
  <1>6. q.pending \subseteq Locations
    BY DEF CommandRecord
  <1>7. Knows(p)'
    BY <1>1, <1>2, <1>3, <1>5, <1>6 DEF CommandLawful, Knows, Same, Discovering
  <1>8. Placed(p)'
    BY <1>1, <1>2, <1>3 DEF CommandLawful, Placed, Verified, Same, GuardedPcs
  <1>9. HoldsGuard(c, p)'
    BY <1>3 DEF HoldsGuard, GuardedPcs
  <1>10. CommandLawful(c, p)'
    BY <1>7, <1>8, <1>9 DEF CommandLawful
  <1> QED BY <1>2, <1>3, <1>4, <1>10, CommandStep

(* A recovery after which the command gives up. *)
LEMMA RecoversAndReturns ==
    ASSUME BindingInv, NEW c \in Commands, NEW l \in Locations, FreeFor(l), ~Refused(l), RecoverAt(l),
           UNCHANGED <<material, v3Write, guardedBy, alien>>, Returns(c)
    PROVE  BindingInv'
  <1>1. guardedBy' = [guardedBy EXCEPT ![l] = NoLocation]
    BY DEF FreeFor, BindingInv, BindingTyped
  <1>2. raced \subseteq raced'
    BY RacedGrows DEF Returns
  <1>3. Mild(c) /\ FilesKept
    BY <1>1, <1>2, RecoverIsMild
  <1> QED BY <1>3, ReturnsKeeps

LEMMA PrepareKeeps ==
    ASSUME BindingInv, NEW c \in Commands, Prepare(c)
    PROVE  BindingInv'
  <1>1. PICK q \in CommandRecord : q = command[c] /\ CommandLawful(c, q)
    BY CommandOf
  <1>2. /\ UNCHANGED <<material, v3Write, guardedBy, alien>> /\ q.pc = "resolved"
        /\ q.loc \in Locations /\ q.pending \subseteq {q.loc}
    BY <1>1 DEF Prepare, At, CommandLawful, Placed
  <1> DEFINE l == q.loc
             kind == IF contents[l] = "marker" THEN "reset" ELSE q.kind
             r == [command[c] EXCEPT !.pc = "begun", !.kind = kind]
  <1>3. \/ UNCHANGED files /\ Returns(c)
        \/ /\ FreeFor(l) /\ ~Refused(l) /\ RecoverAt(l)
           /\ Returns(c) \/ (q.eligible /\ Now(c, r))
    BY <1>1 DEF Prepare, Now
  <1>4. CASE UNCHANGED files /\ Returns(c)
    BY <1>2, <1>4, GoneKeeps
  <1>5. CASE FreeFor(l) /\ ~Refused(l) /\ RecoverAt(l) /\ Returns(c)
    BY <1>2, <1>5, RecoversAndReturns
  <1>6. CASE FreeFor(l) /\ ~Refused(l) /\ RecoverAt(l) /\ q.eligible /\ Now(c, r)
    <2>1. r \in CommandRecord /\ r.pc = "begun" /\ Same(r, q)
      <3>1. kind \in {"setup", "reset", "launch"}
        BY DEF CommandRecord
      <3> HIDE DEF kind
      <3> QED BY <1>1, <3>1 DEF CommandRecord, Same
    <2> HIDE DEF r
    <2>2. PICK p \in CommandRecord : p = r /\ p.pc = "begun" /\ Same(p, q)
      BY <2>1
    <2>3. Now(c, p)
      BY <1>6, <2>2 DEF Now
    <2>4. raced \subseteq raced' /\ (p.disturbed => p.loc \in raced')
      BY <2>2, <2>3, RacedGrows
    <2>5. Mild(c) /\ FilesKept
      <3>1. guardedBy' = [guardedBy EXCEPT ![l] = NoLocation]
        BY <1>2, <1>6 DEF FreeFor, BindingInv, BindingTyped
      <3> QED BY <1>2, <1>6, <2>4, <3>1, RecoverIsMild
    <2>6. ~q.disturbed => q.pending = {}
      <3>1. CASE ~q.again
        BY <1>1, <1>2, <3>1 DEF CommandLawful, Placed
      <3>2. CASE q.again
        <4>1. ~Deserted(l)
          BY <1>1, <1>2, <3>2 DEF CommandLawful, Knows, Discovering
        <4>2. ~blocks_resolution(l)
          BY <1>2, <1>6, <4>1, GateIs DEF Deserted, GateFacts
        <4> QED BY <1>1, <1>2, <4>2 DEF CommandLawful, Knows, Discovering
      <3> QED BY <3>1, <3>2
    <2>7. Knows(p)'
      BY <1>1, <1>2, <2>2 DEF CommandLawful, Knows, Same, Discovering
    <2>8. Placed(p)'
      <3>1. p.loc \notin raced' => p.pending = {} /\ p.loc \in {p.desired, V2} /\ Verified(q)
        BY <1>1, <1>2, <1>6, <2>2, <2>4, <2>6 DEF CommandLawful, Placed, Same
      <3> QED BY <1>2, <2>2, <3>1 DEF Placed, Verified, Same, GuardedPcs
    <2>9. HoldsGuard(c, p)'
      BY <2>2 DEF HoldsGuard, GuardedPcs
    <2>10. CommandLawful(c, p)'
      BY <2>7, <2>8, <2>9 DEF CommandLawful
    <2> QED BY <1>2, <2>3, <2>5, <2>10, CommandStep
  <1> HIDE DEF r
  <1> QED BY <1>3, <1>4, <1>5, <1>6

(* A step of a command that works, at its own location. *)
LEMMA WorkerLawful ==
    ASSUME BindingInv, NEW c \in Commands, NEW p \in CommandRecord, Now(c, p), Mild(c),
           command[c].pc \in {"begun"} \cup GuardedPcs, p.pc \in GuardedPcs, Same(p, command[c]),
           HoldsGuard(c, p)'
    PROVE  CommandLawful(c, p)'
  <1>1. PICK q \in CommandRecord : q = command[c] /\ CommandLawful(c, q)
    BY CommandOf
  <1>2. raced \subseteq raced' /\ v3Write' = v3Write
    BY RacedGrows DEF Mild
  <1>3. /\ q.pc \in {"begun"} \cup GuardedPcs /\ q.pc \notin Discovering /\ q.pc \notin {"idle", "found", "bound", "resolved"}
        /\ p.pc \notin Discovering /\ p.pc \notin {"idle", "found", "bound", "resolved", "begun", "validated"}
    BY <1>1 DEF GuardedPcs, Discovering
  <1>4. Knows(p)'
    BY <1>1, <1>3 DEF CommandLawful, Knows, Same, Discovering
  <1>5. Placed(p)'
    BY <1>1, <1>2, <1>3 DEF CommandLawful, Placed, Verified, Same
  <1> QED BY <1>4, <1>5 DEF CommandLawful

LEMMA WorkKeeps ==
    ASSUME BindingInv, NEW c \in Commands, Work(c)
    PROVE  BindingInv'
  <1>1. PICK q \in CommandRecord : q = command[c] /\ CommandLawful(c, q)
    BY CommandOf
  <1>2. /\ UNCHANGED <<material, v3Write, alien>> /\ q.pc = "begun" /\ q.loc \in Locations
    BY <1>1 DEF Work, At, CommandLawful, Placed
  <1> DEFINE l == q.loc
  <1>3. \/ UNCHANGED <<files, guardedBy>> /\ Returns(c)
        \/ /\ FreeFor(l) /\ contents[l] \notin {"bare", "partial"} /\ ~Refused(l)
           /\ \/ RecoverAt(l) /\ UNCHANGED guardedBy /\ Returns(c)
              \/ RecoverAt(l) /\ GuardTaken(c, l) /\ Goes(c, "repair")
              \/ /\ MayTransact(c, l) /\ GuardTaken(c, l) /\ Goes(c, "provision")
                 /\ contents' = [contents EXCEPT ![l] = "partial"]
                 /\ mark' = [mark EXCEPT ![l] = "P"]
                 /\ saved' = [saved EXCEPT ![l] = contents[l]]
    BY <1>1 DEF Work
  <1>4. CASE UNCHANGED <<files, guardedBy>> /\ Returns(c)
    BY <1>2, <1>4, GoneKeeps
  <1>5. CASE FreeFor(l) /\ ~Refused(l) /\ RecoverAt(l) /\ UNCHANGED guardedBy /\ Returns(c)
    BY <1>2, <1>5, RecoversAndReturns
  <1>6. contents[l] # "bare" => l \notin alien
    BY <1>2 DEF BindingInv, FilesLawful
  <1>7. CASE FreeFor(l) /\ contents[l] # "bare" /\ ~Refused(l) /\ RecoverAt(l) /\ GuardTaken(c, l) /\ Goes(c, "repair")
    <2>1. PICK p \in CommandRecord : Now(c, p) /\ p.pc = "repair" /\ Same(p, q)
      BY <1>1, <1>7, GoesTo DEF GuardedPcs
    <2>2. raced \subseteq raced'
      BY <2>1, RacedGrows
    <2>3. /\ Mild(c) /\ FilesKept /\ mark'[l] = "none" /\ saved'[l] = "none" /\ guardedBy'[l] = c
      BY <1>2, <1>7, <2>2, RecoverIsMild DEF GuardTaken
    <2>4. HoldsGuard(c, p)'
      BY <1>2, <1>6, <1>7, <2>1, <2>3 DEF HoldsGuard, Same
    <2>5. CommandLawful(c, p)'
      BY <1>1, <1>2, <2>1, <2>3, <2>4, WorkerLawful DEF GuardedPcs
    <2> QED BY <1>2, <2>1, <2>3, <2>5, CommandStep
  <1>8. CASE /\ FreeFor(l) /\ contents[l] \notin {"bare", "partial"} /\ MayTransact(c, l)
             /\ GuardTaken(c, l) /\ Goes(c, "provision")
             /\ contents' = [contents EXCEPT ![l] = "partial"]
             /\ mark' = [mark EXCEPT ![l] = "P"]
             /\ saved' = [saved EXCEPT ![l] = contents[l]]
    <2>1. PICK p \in CommandRecord : Now(c, p) /\ p.pc = "provision" /\ Same(p, q)
      BY <1>1, <1>8, GoesTo DEF GuardedPcs
    <2>2. raced \subseteq raced'
      BY <2>1, RacedGrows
    <2>3. contents[l] \in {"none", "marker", Own(l)}
      BY <1>2, <1>8, GateIs DEF MayTransact, GateFacts
    <2>4. Alters(c, l, "partial", "P", contents[l], c)
      BY <1>6, <1>8, <2>3, NamesApart DEF Alters, GuardTaken, FreeFor
    <2>5. /\ Mild(c) /\ FilesKept /\ mark'[l] = "P" /\ guardedBy'[l] = c
      BY <1>2, <2>2, <2>4, OneLocation
    <2>6. HoldsGuard(c, p)'
      BY <1>2, <1>6, <1>8, <2>1, <2>5 DEF HoldsGuard, Same
    <2>7. CommandLawful(c, p)'
      BY <1>1, <1>2, <2>1, <2>5, <2>6, WorkerLawful DEF GuardedPcs
    <2> QED BY <1>2, <2>1, <2>5, <2>7, CommandStep
  <1> QED BY <1>3, <1>4, <1>5, <1>7, <1>8

(* What a command that works records is the making of its own location. *)
LEMMA RecordsItsOwn ==
    ASSUME BindingInv, NEW c \in Commands, command[c].pc \in GuardedPcs
    PROVE  /\ command[c].loc \in Locations \ alien /\ guardedBy[command[c].loc] = c
           /\ contents[command[c].loc] \in Contents /\ FilesLawful(command[c].loc)
           /\ mark[command[c].loc] \in {"none", "P", "C"}
           /\ ManifestOf(c) \in Recorded
           /\ command[c].loc \notin raced => ManifestOf(c) = Own(command[c].loc)
  <1>1. PICK q \in CommandRecord : q = command[c] /\ CommandLawful(c, q)
    BY CommandOf
  <1>2. q.pc \in GuardedPcs /\ q.pc # "idle"
    BY <1>1 DEF GuardedPcs
  <1>3. q.loc \in Locations \ alien /\ guardedBy[q.loc] = c
    BY <1>1, <1>2 DEF CommandLawful, HoldsGuard
  <1>4. contents[q.loc] \in Contents /\ FilesLawful(q.loc) /\ mark[q.loc] \in {"none", "P", "C"}
    BY <1>3 DEF BindingInv, BindingTyped
  <1>5. q.desired \in Digests /\ q.desired \in Recorded /\ "m2" \in Recorded
    BY <1>1, <1>2 DEF CommandLawful, Knows, Recorded
  <1>6. q.loc \notin raced => q.loc \in {q.desired, V2} /\ Verified(q)
    BY <1>1, <1>2 DEF CommandLawful, Placed
  <1>7. ManifestOf(c) = IF q.loc \in Digests /\ (q.status = "V3Verified" \/ v3Write) THEN q.desired ELSE "m2"
    BY <1>1 DEF ManifestOf
  <1>8. q.loc \notin raced => ManifestOf(c) = Own(q.loc)
    BY <1>3, <1>6, <1>7, NamesApart DEF Verified, Own, Locations
  <1> QED BY <1>1, <1>3, <1>4, <1>5, <1>7, <1>8

LEMMA RepairEndsKeeps ==
    ASSUME BindingInv, NEW c \in Commands, RepairEnds(c)
    PROVE  BindingInv'
  <1>1. PICK q \in CommandRecord : q = command[c] /\ CommandLawful(c, q)
    BY CommandOf
  <1>2. /\ UNCHANGED <<material, v3Write, mark, saved, alien>> /\ q.pc = "repair" /\ GuardDropped(q.loc) /\ Returns(c)
        /\ contents' \in {contents, [contents EXCEPT ![q.loc] = ManifestOf(c)]}
    BY <1>1 DEF RepairEnds, At
  <1>3. PICK l \in Locations : l = q.loc /\ l \notin alien /\ guardedBy[l] = c /\ contents[l] \in Contents /\ FilesLawful(l)
                               /\ ManifestOf(c) \in Recorded /\ (l \notin raced => ManifestOf(c) = Own(l))
    BY <1>1, <1>2, RecordsItsOwn DEF GuardedPcs
  <1>4. mark[l] = "none" /\ saved[l] = "none"
    BY <1>1, <1>2, <1>3 DEF CommandLawful, HoldsGuard
  <1>5. /\ mark' = [mark EXCEPT ![l] = "none"] /\ saved' = [saved EXCEPT ![l] = "none"]
        /\ contents = [contents EXCEPT ![l] = contents[l]] /\ guardedBy' = [guardedBy EXCEPT ![l] = NoLocation]
    BY <1>2, <1>3, <1>4 DEF BindingInv, BindingTyped, GuardDropped
  <1>6. ~blocks_resolution(l)
    BY <1>4, GateIs DEF GateFacts
  <1>7. \E x : Alters(c, l, x, "none", "none", NoLocation)
    <2>1. CASE contents' = contents
      <3>1. Alters(c, l, contents[l], "none", "none", NoLocation)
        BY <1>3, <1>5, <1>6, <2>1 DEF Alters, FilesLawful
      <3> QED BY <3>1
    <2>2. CASE contents' = [contents EXCEPT ![l] = ManifestOf(c)]
      <3>1. Alters(c, l, ManifestOf(c), "none", "none", NoLocation)
        BY <1>3, <1>5, <1>6, <2>2, NamesApart DEF Alters
      <3> QED BY <3>1
    <2> QED BY <1>2, <1>3, <2>1, <2>2
  <1>8. raced \subseteq raced'
    BY <1>2, RacedGrows DEF Returns
  <1>9. Mild(c) /\ FilesKept
    BY <1>2, <1>7, <1>8, OneLocation
  <1> QED BY <1>2, <1>9, ReturnsKeeps

LEMMA RevokeAtKeeps ==
    ASSUME BindingInv, NEW c \in Commands, RevokeAt(c)
    PROVE  BindingInv'
  <1>1. PICK q \in CommandRecord : q = command[c] /\ CommandLawful(c, q)
    BY CommandOf
  <1>2. /\ UNCHANGED <<material, v3Write, contents, saved, guardedBy, alien>> /\ q.pc = "provision" /\ Goes(c, "commit")
        /\ mark' = [mark EXCEPT ![q.loc] = "C"]
    BY <1>1 DEF RevokeAt, At
  <1>3. PICK l \in Locations : l = q.loc /\ l \notin alien /\ guardedBy[l] = c /\ contents[l] \in Contents /\ FilesLawful(l)
    BY <1>1, <1>2, RecordsItsOwn DEF GuardedPcs
  <1>4. /\ contents' = [contents EXCEPT ![l] = contents[l]] /\ saved' = [saved EXCEPT ![l] = saved[l]]
        /\ guardedBy' = [guardedBy EXCEPT ![l] = c]
    BY <1>2, <1>3 DEF BindingInv, BindingTyped
  <1>5. Alters(c, l, contents[l], "C", saved[l], c)
    BY <1>2, <1>3, <1>4, NamesApart DEF Alters, FilesLawful
  <1>6. PICK p \in CommandRecord : Now(c, p) /\ p.pc = "commit" /\ Same(p, q)
    BY <1>1, <1>2, GoesTo DEF GuardedPcs
  <1>7. Mild(c) /\ FilesKept /\ mark'[l] = "C" /\ guardedBy'[l] = c
    <2>1. raced \subseteq raced'
      BY <1>6, RacedGrows
    <2> QED BY <1>2, <1>5, <2>1, OneLocation
  <1>8. HoldsGuard(c, p)'
    BY <1>2, <1>3, <1>6, <1>7 DEF HoldsGuard, Same
  <1>9. CommandLawful(c, p)'
    BY <1>1, <1>2, <1>6, <1>7, <1>8, WorkerLawful DEF GuardedPcs
  <1> QED BY <1>2, <1>6, <1>7, <1>9, CommandStep

LEMMA CommitRecordKeeps ==
    ASSUME BindingInv, NEW c \in Commands, CommitRecord(c)
    PROVE  BindingInv'
  <1>1. PICK q \in CommandRecord : q = command[c] /\ CommandLawful(c, q)
    BY CommandOf
  <1>2. /\ UNCHANGED <<material, v3Write, mark, saved, guardedBy, alien>> /\ q.pc = "commit" /\ Goes(c, "clean")
        /\ contents' = [contents EXCEPT ![q.loc] = ManifestOf(c)]
    BY <1>1 DEF CommitRecord, At
  <1>3. PICK l \in Locations : l = q.loc /\ l \notin alien /\ guardedBy[l] = c /\ FilesLawful(l)
                               /\ ManifestOf(c) \in Recorded /\ (l \notin raced => ManifestOf(c) = Own(l))
    BY <1>1, <1>2, RecordsItsOwn DEF GuardedPcs
  <1>4. mark[l] = "C"
    BY <1>1, <1>2, <1>3 DEF CommandLawful, HoldsGuard
  <1>5. /\ mark' = [mark EXCEPT ![l] = "C"] /\ saved' = [saved EXCEPT ![l] = saved[l]]
        /\ guardedBy' = [guardedBy EXCEPT ![l] = c]
    BY <1>2, <1>3, <1>4 DEF BindingInv, BindingTyped
  <1>6. Alters(c, l, ManifestOf(c), "C", saved[l], c)
    BY <1>2, <1>3, <1>5, NamesApart DEF Alters, FilesLawful
  <1>7. PICK p \in CommandRecord : Now(c, p) /\ p.pc = "clean" /\ Same(p, q)
    BY <1>1, <1>2, GoesTo DEF GuardedPcs
  <1>8. Mild(c) /\ FilesKept /\ mark'[l] = "C" /\ guardedBy'[l] = c
    <2>1. raced \subseteq raced'
      BY <1>7, RacedGrows
    <2> QED BY <1>2, <1>6, <2>1, OneLocation
  <1>9. HoldsGuard(c, p)'
    BY <1>2, <1>3, <1>7, <1>8 DEF HoldsGuard, Same
  <1>10. CommandLawful(c, p)'
    BY <1>1, <1>2, <1>7, <1>8, <1>9, WorkerLawful DEF GuardedPcs
  <1> QED BY <1>2, <1>7, <1>8, <1>10, CommandStep

LEMMA EndTransactionKeeps ==
    ASSUME BindingInv, NEW c \in Commands, EndTransaction(c)
    PROVE  BindingInv'
  <1>1. PICK q \in CommandRecord : q = command[c] /\ CommandLawful(c, q)
    BY CommandOf
  <1>2. /\ UNCHANGED <<material, v3Write, alien>> /\ q.pc \in GuardedPcs /\ GuardDropped(q.loc) /\ Returns(c)
        /\ \/ /\ q.pc = "clean" /\ UNCHANGED contents
              /\ mark' = [mark EXCEPT ![q.loc] = "none"] /\ saved' = [saved EXCEPT ![q.loc] = "none"]
           \/ /\ q.pc = "clean" /\ UNCHANGED contents /\ UNCHANGED <<mark, saved>>
           \/ /\ q.pc \in {"provision", "commit"}
              /\ contents' = [contents EXCEPT ![q.loc] = saved[q.loc]]
              /\ mark' = [mark EXCEPT ![q.loc] = "none"] /\ saved' = [saved EXCEPT ![q.loc] = "none"]
    BY <1>1 DEF EndTransaction, At, GuardedPcs
  <1>3. PICK l \in Locations : l = q.loc /\ l \notin alien /\ guardedBy[l] = c /\ contents[l] \in Contents /\ FilesLawful(l)
    BY <1>1, <1>2, RecordsItsOwn
  <1>4. /\ q.pc = "clean" => mark[l] = "C"
        /\ q.pc \in {"provision", "commit"} => mark[l] \in {"P", "C"}
    BY <1>1, <1>2, <1>3 DEF CommandLawful, HoldsGuard
  <1>5. /\ contents = [contents EXCEPT ![l] = contents[l]] /\ mark = [mark EXCEPT ![l] = mark[l]]
        /\ saved = [saved EXCEPT ![l] = saved[l]] /\ guardedBy' = [guardedBy EXCEPT ![l] = NoLocation]
    BY <1>2, <1>3 DEF BindingInv, BindingTyped, GuardDropped
  <1>6. \E x, m, s : Alters(c, l, x, m, s, NoLocation)
    <2>1. CASE /\ q.pc = "clean" /\ UNCHANGED contents
               /\ mark' = [mark EXCEPT ![q.loc] = "none"] /\ saved' = [saved EXCEPT ![q.loc] = "none"]
      <3>1. Alters(c, l, contents[l], "none", "none", NoLocation)
        BY <1>3, <1>4, <1>5, <2>1 DEF Alters, FilesLawful
      <3> QED BY <3>1
    <2>2. CASE q.pc = "clean" /\ UNCHANGED contents /\ UNCHANGED <<mark, saved>>
      <3>1. Alters(c, l, contents[l], "C", saved[l], NoLocation)
        BY <1>3, <1>4, <1>5, <2>2 DEF Alters, FilesLawful
      <3> QED BY <3>1
    <2>3. CASE /\ q.pc \in {"provision", "commit"}
               /\ contents' = [contents EXCEPT ![q.loc] = saved[q.loc]]
               /\ mark' = [mark EXCEPT ![q.loc] = "none"] /\ saved' = [saved EXCEPT ![q.loc] = "none"]
      <3>1. saved[l] \in Contents /\ (saved[l] \in Recorded => saved[l] = Own(l)) /\ mark[l] # "none"
        BY <1>3, <1>4, <2>3, NamesApart DEF FilesLawful
      <3>2. Alters(c, l, saved[l], "none", "none", NoLocation)
        BY <1>3, <1>5, <2>3, <3>1 DEF Alters
      <3> QED BY <3>2
    <2> QED BY <1>2, <2>1, <2>2, <2>3
  <1>7. raced \subseteq raced'
    BY <1>2, RacedGrows DEF Returns
  <1>8. Mild(c) /\ FilesKept
    BY <1>2, <1>6, <1>7, OneLocation
  <1> QED BY <1>2, <1>8, ReturnsKeeps

LEMMA ValidateLaunchKeeps ==
    ASSUME BindingInv, NEW c \in Commands, ValidateLaunch(c)
    PROVE  BindingInv'
  <1>1. PICK q \in CommandRecord : q = command[c] /\ CommandLawful(c, q)
    BY CommandOf
  <1>2. /\ UNCHANGED <<material, v3Write, files, guardedBy, alien>> /\ q.pc = "bound"
        /\ q.loc \in Locations /\ q.pending \subseteq {q.loc}
    BY <1>1 DEF ValidateLaunch, At, CommandLawful, Placed
  <1>3. CASE Returns(c)
    BY <1>2, <1>3, GoneKeeps
  <1>4. CASE contents[q.loc] \in Recorded /\ LaunchValidated(c)
    <2> DEFINE r == [command[c] EXCEPT !.pc = "validated", !.used = contents[command[c].loc]]
    <2>1. r \in CommandRecord /\ r.pc = "validated" /\ Same(r, q) /\ r.used = contents[q.loc]
      <3>1. contents[q.loc] \in Contents
        BY <1>2 DEF BindingInv, BindingTyped
      <3> QED BY <1>1, <3>1 DEF CommandRecord, Same
    <2>2. Now(c, r)
      BY <1>4 DEF LaunchValidated
    <2> HIDE DEF r
    <2>3. PICK p \in CommandRecord : p = r /\ p.pc = "validated" /\ Same(p, q) /\ p.used = contents[q.loc]
      BY <2>1
    <2>4. Now(c, p)
      BY <2>2, <2>3 DEF Now
    <2>5. raced \subseteq raced' /\ (p.disturbed => p.loc \in raced')
      BY <2>3, <2>4, RacedGrows
    <2>6. Mild(c) /\ FilesKept
      BY <1>2, <2>5, UntouchedIsMild DEF files
    <2>7. p.loc \notin raced' => contents[q.loc] = Own(q.loc) /\ q.pending = {} /\ p.loc \in {p.desired, V2}
      <3>1. ASSUME p.loc \notin raced' PROVE contents[q.loc] = Own(q.loc) /\ ~q.disturbed
        BY <1>2, <1>4, <2>3, <2>5, <3>1 DEF Same, BindingInv, FilesLawful
      <3>2. ASSUME p.loc \notin raced' PROVE ~blocks_resolution(q.loc)
        BY <1>2, <3>1, <3>2, GateIs DEF GateFacts
      <3>3. ASSUME p.loc \notin raced' PROVE q.pending = {}
        BY <1>1, <1>2, <3>1, <3>2, <3>3 DEF CommandLawful, Knows, Discovering
      <3>4. ASSUME p.loc \notin raced' PROVE p.loc \in {p.desired, V2}
        BY <1>1, <1>2, <2>3, <3>3, <3>4 DEF CommandLawful, Placed, Same
      <3> QED BY <3>1, <3>3, <3>4
    <2>8. Knows(p)'
      BY <1>1, <1>2, <2>3 DEF CommandLawful, Knows, Same, Discovering
    <2>9. Placed(p)'
      BY <1>2, <2>3, <2>7 DEF Placed, Same, GuardedPcs, Own
    <2>10. HoldsGuard(c, p)'
      BY <2>3 DEF HoldsGuard, GuardedPcs
    <2>11. CommandLawful(c, p)'
      BY <2>8, <2>9, <2>10 DEF CommandLawful
    <2> QED BY <1>2, <2>4, <2>6, <2>11, CommandStep
  <1> QED BY <1>1, <1>3, <1>4 DEF ValidateLaunch

(* -------------------------- the rest of the system ----------------------- *)

LEMMA BindingStarts == BindingInit => BindingInv
  <1> SUFFICES ASSUME BindingInit PROVE BindingInv
    OBVIOUS
  <1>1. /\ Idle \in CommandRecord /\ Idle.pc = "idle" /\ Idle.pending = {} /\ Idle.left = {}
    BY NamesApart DEF Idle, CommandRecord
  <1>2. /\ contents \in [Locations -> {"none", "bare", "marker", "m2"}]
        /\ \A l \in Digests : contents[l] \in {"none", "bare"}
        /\ alien = {l \in Locations : contents[l] = "bare"}
    BY DEF BindingInit
  <1>3. contents \in [Locations -> Contents]
    BY <1>2 DEF Contents, Recorded
  <1>4. BindingTyped
    <2>1. saved \in [Locations -> Contents] /\ mark \in [Locations -> {"none", "P", "C"}]
      BY NamesApart DEF BindingInit
    <2>2. guardedBy \in [Locations -> Commands \cup {NoLocation}] /\ command \in [Commands -> CommandRecord]
      BY <1>1 DEF BindingInit
    <2>3. material \in Digests /\ v3Write \in BOOLEAN /\ alien \subseteq Locations /\ raced \subseteq Locations
      BY DEF BindingInit
    <2> QED BY <1>3, <2>1, <2>2, <2>3 DEF BindingTyped
  <1>5. ASSUME NEW l \in Locations PROVE FilesLawful(l)
    <2>1. contents[l] \in Recorded => contents[l] = Own(l)
      BY <1>2, NamesApart DEF Recorded, Own, Locations
    <2>2. l \in alien => contents[l] = "bare"
      BY <1>2
    <2> QED BY <2>1, <2>2 DEF FilesLawful, BindingInit
  <1>6. ASSUME NEW c \in Commands PROVE CommandLawful(c, command[c])
    <2>1. command[c] = Idle
      BY DEF BindingInit
    <2> QED BY <1>1, <2>1 DEF CommandLawful, HoldsGuard, Knows, Placed, Discovering, GuardedPcs
  <1> QED BY <1>4, <1>5, <1>6 DEF BindingInv

(* A step that leaves the directories alone and the commands as they are. *)
LEMMA RestKeeps ==
    ASSUME BindingInv, UNCHANGED <<v3Write, files, guardedBy, command, alien, raced>>, material' \in Digests
    PROVE  BindingInv'
  <1>1. BindingTyped'
    BY DEF BindingInv, BindingTyped, files
  <1>2. \A l \in Locations : FilesLawful(l)'
    BY DEF BindingInv, FilesLawful, files
  <1>3. ASSUME NEW c \in Commands PROVE CommandLawful(c, command[c])'
    <2>1. \A j \in Locations : (blocks_resolution(j) <=> blocks_resolution(j)') /\ (Deserted(j) <=> Deserted(j)')
      BY DEF blocks_resolution, Deserted, Replaced, Refused, Gate, CommitAt, FreeFor, files
    <2>2. PICK q \in CommandRecord : q = command[c] /\ q = command'[c] /\ CommandLawful(c, q)
      BY CommandOf
    <2>3. q.pending \subseteq Locations
      BY DEF CommandRecord
    <2>4. HoldsGuard(c, q)'
      BY <2>2 DEF CommandLawful, HoldsGuard, files
    <2>5. Knows(q)'
      BY <2>1, <2>2, <2>3 DEF CommandLawful, Knows
    <2>6. Placed(q)'
      BY <2>2 DEF CommandLawful, Placed, Verified
    <2> QED BY <2>2, <2>4, <2>5, <2>6 DEF CommandLawful, HoldsGuard, Knows, Placed, Verified
  <1> QED BY <1>1, <1>2, <1>3 DEF BindingInv

LEMMA RestartKeeps ==
    ASSUME BindingInv, Restart
    PROVE  BindingInv'
  <1>1. /\ Idle \in CommandRecord /\ Idle.pc = "idle" /\ Idle.pending = {} /\ Idle.left = {}
    BY NamesApart DEF Idle, CommandRecord
  <1>2. command' = [c \in Commands |-> Idle]
    BY DEF Restart
  <1>3. BindingTyped'
    BY <1>1, <1>2 DEF BindingInv, BindingTyped, Restart, files
  <1>4. \A l \in Locations : FilesLawful(l)'
    BY DEF BindingInv, FilesLawful, files, Restart
  <1>5. ASSUME NEW c \in Commands PROVE CommandLawful(c, command[c])'
    <2>1. PICK q \in CommandRecord : q = command'[c] /\ q.pc = "idle" /\ q.pending = {} /\ q.left = {}
      BY <1>1, <1>2
    <2> QED BY <2>1 DEF CommandLawful, HoldsGuard, Knows, Placed, Discovering, GuardedPcs, Verified
  <1> QED BY <1>3, <1>4, <1>5 DEF BindingInv

LEMMA BindingKept == BindingInv /\ [BindingNext]_bindingVars => BindingInv'
  <1> SUFFICES ASSUME BindingInv, [BindingNext]_bindingVars PROVE BindingInv'
    OBVIOUS
  <1>1. material \in Digests
    BY DEF BindingInv, BindingTyped
  <1>2. ASSUME NEW c \in Commands, NEW kind \in {"setup", "reset", "launch"}, Discover(c, kind) PROVE BindingInv'
    BY <1>2, DiscoverKeeps
  <1>3. ASSUME NEW c \in Commands, Choose(c) PROVE BindingInv'
    BY <1>3, ChooseKeeps
  <1>4. ASSUME NEW c \in Commands, ResolveRecovered(c) PROVE BindingInv'
    BY <1>4, ResolveRecoveredKeeps
  <1>5. ASSUME NEW c \in Commands, ResolvedAgain(c) PROVE BindingInv'
    BY <1>5, ResolvedAgainKeeps
  <1>6. ASSUME NEW c \in Commands, Prepare(c) PROVE BindingInv'
    BY <1>6, PrepareKeeps
  <1>7. ASSUME NEW c \in Commands, Work(c) PROVE BindingInv'
    BY <1>7, WorkKeeps
  <1>8. ASSUME NEW c \in Commands, RepairEnds(c) PROVE BindingInv'
    BY <1>8, RepairEndsKeeps
  <1>9. ASSUME NEW c \in Commands, RevokeAt(c) PROVE BindingInv'
    BY <1>9, RevokeAtKeeps
  <1>10. ASSUME NEW c \in Commands, CommitRecord(c) PROVE BindingInv'
    BY <1>10, CommitRecordKeeps
  <1>11. ASSUME NEW c \in Commands, EndTransaction(c) PROVE BindingInv'
    BY <1>11, EndTransactionKeeps
  <1>12. ASSUME NEW c \in Commands, ValidateLaunch(c) PROVE BindingInv'
    BY <1>12, ValidateLaunchKeeps
  <1>13. ASSUME NEW c \in Commands, LaunchOver(c) PROVE BindingInv'
    BY <1>13, GoneKeeps DEF LaunchOver
  <1>14. CASE ReplaceMaterial
    BY <1>14, RestKeeps DEF ReplaceMaterial
  <1>15. CASE Restart
    BY <1>15, RestartKeeps
  <1>16. CASE UNCHANGED bindingVars
    BY <1>1, <1>16, RestKeeps DEF bindingVars
  <1> QED BY <1>2, <1>3, <1>4, <1>5, <1>6, <1>7, <1>8, <1>9, <1>10, <1>11, <1>12, <1>13, <1>14, <1>15, <1>16
          DEF BindingNext

LEMMA BindingImplied == BindingInv => BindingIsSound
  <1> SUFFICES ASSUME BindingInv PROVE BindingIsSound
    OBVIOUS
  <1>1. ASSUME NEW c \in Working
        PROVE  command[c].loc \in {command[c].desired, V2} \cup raced /\ command[c].left \subseteq {command[c].loc}
    <2>1. PICK q \in CommandRecord : q = command[c] /\ CommandLawful(c, q)
      BY CommandOf DEF Working
    <2>2. q.pc \in {"begun", "validated"} \cup GuardedPcs /\ q.pc \notin {"idle", "found"}
      BY <2>1 DEF Working, GuardedPcs
    <2> QED BY <2>1, <2>2 DEF CommandLawful, Knows, Placed
  <1>2. LaunchesItsOwn
    <2> SUFFICES ASSUME NEW c \in Commands, At(c, "validated"), command[c].loc \notin raced
                 PROVE  command[c].used = IF command[c].loc = V2 THEN "m2" ELSE command[c].desired
      BY DEF LaunchesItsOwn
    <2>1. PICK q \in CommandRecord : q = command[c] /\ CommandLawful(c, q)
      BY CommandOf
    <2>2. q.loc \in {q.desired, V2} /\ q.desired \in Digests /\ q.used = Own(q.loc)
      BY <2>1 DEF At, CommandLawful, Placed, Knows
    <2> QED BY <2>1, <2>2, NamesApart DEF Own
  <1>3. AlienKept
    BY DEF AlienKept, BindingInv, BindingTyped, FilesLawful
  <1>4. WorksAtItsOwn /\ NoneLeftBehind
    BY <1>1 DEF WorksAtItsOwn, NoneLeftBehind
  <1> QED BY <1>2, <1>3, <1>4 DEF BindingIsSound

(* A command works, or launches, in the directory of its own material or of
   the v2 topology; an interrupted transaction it found is recovered there or
   nowhere, and what the launcher did not record is left alone (identity.rs,
   transaction_gate), for every number of runners and commands. *)
THEOREM BindingInvariant == BindingInit /\ [][BindingNext]_bindingVars => [](BindingInv /\ BindingIsSound)
  BY BindingStarts, BindingKept, BindingImplied, PTL

(* ----------------------- ChecksAreTrue: the invariant -------------------- *)

RecordForms == {"none", "damaged", "legacy", "v2", "v3"}
RunnerNames == {r.name : r \in Runners} \cup {"unknown", "another"}
PrefixRecord ==
    [data : {"none", "bare", "whole"},
     record : [form : RecordForms, here : BOOLEAN, runner : RunnerNames, parts : SUBSET {"dxvk", "dxvk-2.6.2", "webview2"}],
     has : SUBSET {"dxvk", "webview2", "vkd3d"}]
StatusRecord == [ready : BOOLEAN, setup : BOOLEAN, reset : BOOLEAN, pending : BOOLEAN]

LaunchPcs == {"launch", "validate", "begin"}
WorkPcs == {"initialize", "graphics", "components", "revoke", "commit", "clean"}
RequestRecord ==
    [pc : {"idle", "asked", "answered", "prepare", "resolve", "decide", "recover", "work", "prepared",
           "refused", "unready", "playing"} \cup LaunchPcs \cup WorkPcs,
     host : {"ok", "tools", "broken"}, seen : StatusRecord, again : BOOLEAN,
     way : {"none", "launch", "setup", "reset", "transaction", "repair"},
     eligible : BOOLEAN, fresh : BOOLEAN, touched : BOOLEAN]

CheckTyped ==
    /\ setting \in [scope : Scopes, webview2 : BOOLEAN, place : {TRUE}]
    /\ selected \in Runners /\ installed \in BOOLEAN /\ hostState \in {"ok", "tools", "broken"}
    /\ disk \in PrefixRecord /\ pendingMark \in {"none", "P", "C"} /\ resetBackup \in PrefixRecord \cup {NoBackup}
    /\ game \in BOOLEAN
    /\ request \in [Askers -> RequestRecord]

(* What is recorded in an isolated prefix is its own v3 manifest, which no other prefix has. *)
Lawful(d) ==
    IF setting.scope = "isolated"
    THEN d.record.form \in {"none", "damaged"}
         \/ (d.record.form = "v3" /\ d.record.here /\ d.record.runner = selected.name)
    ELSE d.record.form # "v3"
(* What may be rebuilt: ensure_managed_reset_allowed, of a backup. *)
Rebuildable(d) ==
    (d.record.form = "legacy" /\ d.data = "whole") \/ (d.record.form \in {"v2", "v3"} /\ d.record.here)
DiskLawful ==
    /\ Lawful(disk)
    /\ resetBackup # NoBackup => Lawful(resetBackup) /\ Rebuildable(resetBackup)
    /\ resetBackup # NoBackup /\ pendingMark = "none" => disk.data = "none"
    /\ ~managed => pendingMark = "none" /\ resetBackup = NoBackup

(* Who works holds the guard; what the position of a request implies of its way and its transaction. *)
Holds(a, q) ==
    /\ q.pc \in WorkPcs => workedBy = a
    /\ q.pc = "playing" => workedBy = Free /\ (~q.touched => Eligible /\ NoBlockers(TRUE))
    /\ q.pc \in LaunchPcs => q.way = "launch"
    /\ q.pc \in {"prepare", "resolve", "decide", "recover", "work"} => q.way \in {"setup", "reset"}
    /\ q.pc \in {"recover", "work"} /\ q.way = "reset" => managed
    /\ q.pc \in WorkPcs => q.way \in {"transaction", "repair"}
    /\ q.pc = "revoke" => q.way = "transaction"
    /\ q.pc \in WorkPcs /\ q.way = "transaction" => managed
    /\ q.pc \in WorkPcs /\ q.way = "repair" => pendingMark = "none" /\ resetBackup = NoBackup
    /\ q.pc = "initialize" /\ q.way = "transaction" => pendingMark = "P" /\ disk.data = "bare"

(* What a launch asks of the environment. *)
Launchable ==
    /\ ~Pending /\ hostState # "broken" /\ Eligible /\ NoBlockers(TRUE) /\ ~missing_runtime_components
    /\ selected.family = "Wine716" => HasManifest /\ "dxvk-2.6.2" \in disk.record.parts
(* What a preparation asks of the host and of the runner, and of the prefix; of a runner that was
   still to be downloaded the answer could not tell everything. *)
HostPrepares == host_errors(selected, hostState, TRUE) = {}
Prepares == HostPrepares /\ ~Pending
Supports(unsure) == runner_vkd3d_ok /\ (unsure \/ missing_verbs = {})
Opens(way, unsure) ==
    IF way = "reset" THEN ensure_managed_reset_allowed
    ELSE /\ unsure \/ ensure_custom_setup_allowed
         /\ ~foreign_custom
         /\ rebuild_managed => ensure_managed_reset_allowed
Offered(way, unsure) ==
    /\ HostPrepares /\ ~(Pending /\ selected.source = "import")
    /\ Supports(unsure) /\ Opens(way, unsure)
    /\ way = "setup" => ~managed_unclaimed
Claimed == managed /\ disk.data # "none" => HasManifest \/ legacy_marker
Recovered == pendingMark = "none" /\ resetBackup = NoBackup
(* What write_runtime_manifest leaves. *)
WellRecorded ==
    /\ HasManifest /\ disk.record.here /\ disk.record.runner = selected.name
    /\ GraphicsComponent(selected) \in disk.record.parts
StillLacks == missing_runtime_components \/ (selected.family = "Proton" /\ ~selected.dxvk)
MayRefuse(q) ==
    pendingMark = "C" \/ game \/ (q.seen.pending /\ (missing_verbs # {} \/ ~ensure_custom_setup_allowed))

(* What an undisturbed request may rely on. *)
Ahead(q) ==
    /\ q.pc = "asked" => q.host = hostState
    /\ q.pc = "answered" =>
         /\ q.seen.ready => Launchable
         /\ q.seen.setup => Offered("setup", q.seen.pending)
         /\ q.seen.reset => Offered("reset", q.seen.pending)
         /\ q.again /\ ~q.seen.ready => StillLacks
    /\ q.pc \in LaunchPcs => Launchable
    /\ q.pc = "begin" => q.eligible
    /\ q.pc \in {"prepare", "resolve"} => Offered(q.way, q.seen.pending)
    /\ q.pc \in {"resolve", "decide", "recover", "work", "prepared"} \cup WorkPcs => Prepares
    /\ q.pc = "decide" =>
         /\ Recovered /\ Supports(q.seen.pending) /\ Opens(q.way, q.seen.pending)
         /\ q.way = "setup" => Claimed
         /\ q.eligible <=> Eligible
    /\ q.pc \in {"recover", "work"} => Recovered /\ Supports(FALSE) /\ MayWork(q.way) /\ q.eligible
    /\ q.pc = "refused" => q.way # "launch" /\ MayRefuse(q)
    /\ q.pc = "unready" => StillLacks
Behind(q) ==
    /\ q.pc \in WorkPcs \cup {"prepared"} => runner_vkd3d_ok
    /\ q.pc \in (WorkPcs \ {"initialize"}) \cup {"prepared"} => disk.data = "whole"
    /\ q.pc \in {"clean", "prepared"} => WellRecorded
    /\ q.pc = "asked" /\ q.again => Prepares /\ runner_vkd3d_ok /\ disk.data = "whole" /\ WellRecorded
Sound(q) == q.fresh => Ahead(q) /\ Behind(q)

CheckInv ==
    /\ CheckTyped /\ DiskLawful
    /\ \A a \in Askers : Holds(a, request[a]) /\ Sound(request[a])

(* ------------------------------ what is framed --------------------------- *)

PrefixUntouched == UNCHANGED <<setting, selected, disk, pendingMark, resetBackup>>
Untouched == PrefixUntouched /\ UNCHANGED <<installed, hostState, game>>

LEMMA PrefixFrame ==
    ASSUME PrefixUntouched
    PROVE  /\ (managed <=> managed') /\ (HasManifest <=> HasManifest') /\ (legacy_marker <=> legacy_marker')
           /\ (Eligible <=> Eligible')
           /\ (ensure_managed_path_safe <=> ensure_managed_path_safe')
           /\ (ensure_custom_setup_allowed <=> ensure_custom_setup_allowed')
           /\ (ensure_managed_reset_allowed <=> ensure_managed_reset_allowed')
           /\ (managed_unclaimed <=> managed_unclaimed')
           /\ (missing_runtime_components <=> missing_runtime_components')
           /\ missing_verbs' = missing_verbs /\ (runner_vkd3d_ok <=> runner_vkd3d_ok')
           /\ (foreign_custom <=> foreign_custom') /\ (rebuild_managed <=> rebuild_managed')
           /\ (RecoveryRefuses <=> RecoveryRefuses')
           /\ (NoBlockers(TRUE) <=> NoBlockers(TRUE)')
  <1> USE DEF PrefixUntouched
  <1>1. (managed <=> managed') /\ (HasManifest <=> HasManifest') /\ (legacy_marker <=> legacy_marker')
        /\ (structure_ok <=> structure_ok')
        /\ (stored_manifest_matches_runner <=> stored_manifest_matches_runner')
    BY DEF managed, HasManifest, legacy_marker, structure_ok, stored_manifest_matches_runner
  <1>2. (manifest_matches_stored_location <=> manifest_matches_stored_location') /\ (runner_unknown <=> runner_unknown')
        /\ (provisioning <=> provisioning')
    BY <1>1 DEF manifest_matches_stored_location, runner_unknown, provisioning
  <1>3. (Eligible <=> Eligible') /\ (configured <=> configured')
    BY <1>1, <1>2 DEF Eligible, configured
  <1>4. (ensure_managed_path_safe <=> ensure_managed_path_safe')
        /\ (ensure_custom_setup_allowed <=> ensure_custom_setup_allowed')
        /\ (ensure_managed_reset_allowed <=> ensure_managed_reset_allowed')
    BY <1>1 DEF ensure_managed_path_safe, ensure_custom_setup_allowed, ensure_managed_reset_allowed
  <1>5. (managed_unclaimed <=> managed_unclaimed') /\ (missing_runtime_components <=> missing_runtime_components')
    BY <1>1, <1>2 DEF managed_unclaimed, missing_runtime_components
  <1>6. missing_verbs' = missing_verbs /\ (runner_vkd3d_ok <=> runner_vkd3d_ok') /\ (vkd3d_ok <=> vkd3d_ok')
    BY DEF missing_verbs, required_verbs, runner_vkd3d_ok, vkd3d_ok
  <1>7. (foreign_custom <=> foreign_custom') /\ (rebuild_managed <=> rebuild_managed')
    BY <1>1, <1>2 DEF foreign_custom, rebuild_managed
  <1>8. RecoveryRefuses <=> RecoveryRefuses'
    BY <1>1, <1>2 DEF RecoveryRefuses, Committed
  <1>9. NoBlockers(TRUE) <=> NoBlockers(TRUE)'
    BY <1>1, <1>2, <1>3, <1>4, <1>6 DEF NoBlockers
  <1> QED BY <1>1, <1>3, <1>4, <1>5, <1>6, <1>7, <1>8, <1>9

LEMMA HostFrame ==
    ASSUME Untouched
    PROVE  (Pending <=> Pending') /\ (HostPrepares <=> HostPrepares')
  BY DEF Untouched, PrefixUntouched, Pending, HostPrepares

LEMMA SoundFrame ==
    ASSUME Untouched, NEW q, Sound(q)
    PROVE  Sound(q)'
  <1> SUFFICES ASSUME q.fresh PROVE Ahead(q)' /\ Behind(q)'
    BY DEF Sound
  <1> USE DEF Untouched, PrefixUntouched
  <1>1. Ahead(q) /\ Behind(q)
    BY DEF Sound
  <1>2. (Launchable <=> Launchable') /\ (Prepares <=> Prepares') /\ (Claimed <=> Claimed') /\ (Recovered <=> Recovered')
        /\ (WellRecorded <=> WellRecorded') /\ (StillLacks <=> StillLacks') /\ (MayRefuse(q) <=> MayRefuse(q)')
    <2>1. Launchable <=> Launchable'
      BY PrefixFrame, HostFrame DEF Launchable
    <2> QED BY <2>1, PrefixFrame, HostFrame DEF Prepares, Claimed, Recovered, WellRecorded, StillLacks, MayRefuse
  <1>3. \A unsure : Supports(unsure) <=> Supports(unsure)'
    BY PrefixFrame DEF Supports
  <1>4. \A way, unsure : Opens(way, unsure) <=> Opens(way, unsure)'
    BY PrefixFrame DEF Opens
  <1>5. \A way, unsure : Offered(way, unsure) <=> Offered(way, unsure)'
    BY <1>3, <1>4, PrefixFrame, HostFrame DEF Offered
  <1>6. \A way : MayWork(way) <=> MayWork(way)'
    BY PrefixFrame DEF MayWork
  <1>7. Ahead(q)'
    <2>1. /\ Offered("setup", q.seen.pending) <=> Offered("setup", q.seen.pending)'
          /\ Offered("reset", q.seen.pending) <=> Offered("reset", q.seen.pending)'
          /\ Offered(q.way, q.seen.pending) <=> Offered(q.way, q.seen.pending)'
      BY <1>5
    <2>2. /\ Supports(q.seen.pending) <=> Supports(q.seen.pending)'
          /\ Supports(FALSE) <=> Supports(FALSE)'
      BY <1>3
    <2>3. Opens(q.way, q.seen.pending) <=> Opens(q.way, q.seen.pending)'
      BY <1>4
    <2>4. MayWork(q.way) <=> MayWork(q.way)'
      BY <1>6
    <2>5. hostState' = hostState /\ (Eligible <=> Eligible')
      BY PrefixFrame
    <2> HIDE DEF Untouched, PrefixUntouched
    <2>6. (q.pc = "asked" => q.host = hostState)' /\ (q.pc = "begin" => q.eligible)
      BY <1>1, <2>5 DEF Ahead
    <2>7. (q.pc = "answered" =>
             /\ q.seen.ready => Launchable
             /\ q.seen.setup => Offered("setup", q.seen.pending)
             /\ q.seen.reset => Offered("reset", q.seen.pending)
             /\ q.again /\ ~q.seen.ready => StillLacks)'
      BY <1>1, <1>2, <2>1 DEF Ahead
    <2>8. /\ (q.pc \in LaunchPcs => Launchable)'
          /\ (q.pc \in {"prepare", "resolve"} => Offered(q.way, q.seen.pending))'
          /\ (q.pc \in {"resolve", "decide", "recover", "work", "prepared"} \cup WorkPcs => Prepares)'
      BY <1>1, <1>2, <2>1 DEF Ahead
    <2>9. (q.pc = "decide" =>
             /\ Recovered /\ Supports(q.seen.pending) /\ Opens(q.way, q.seen.pending)
             /\ q.way = "setup" => Claimed
             /\ q.eligible <=> Eligible)'
      BY <1>1, <1>2, <2>2, <2>3, <2>5 DEF Ahead
    <2>10. /\ (q.pc \in {"recover", "work"} => Recovered /\ Supports(FALSE) /\ MayWork(q.way) /\ q.eligible)'
           /\ (q.pc = "refused" => q.way # "launch" /\ MayRefuse(q))'
           /\ (q.pc = "unready" => StillLacks)'
      BY <1>1, <1>2, <2>2, <2>4 DEF Ahead
    <2> QED BY <2>6, <2>7, <2>8, <2>9, <2>10 DEF Ahead
  <1>8. Behind(q)'
    BY <1>1, <1>2, PrefixFrame DEF Behind
  <1> QED BY <1>7, <1>8

LEMMA RequestTyped ==
    ASSUME CheckInv, NEW a \in Askers
    PROVE  request[a] \in RequestRecord /\ Holds(a, request[a]) /\ Sound(request[a])
  BY DEF CheckInv, CheckTyped

(* Another asker notices nothing, or knows no longer what it saw. *)
LEMMA OthersSound ==
    ASSUME CheckInv, NEW a \in Askers, NEW r, Steps(a, r), UNCHANGED <<setting, selected, hostState, game>>,
           NEW k \in Askers, k # a
    PROVE  /\ request'[k] \in RequestRecord /\ Sound(request[k])'
           /\ request'[k].pc = request[k].pc /\ request'[k].way = request[k].way
           /\ request'[k].touched = request[k].touched
  <1>1. request[k] \in RequestRecord /\ Sound(request[k])
    BY RequestTyped
  <1>2. CASE prefixState' = prefixState /\ installed' = installed
    <2>1. request'[k] = request[k]
      BY <1>2 DEF Steps
    <2>2. Untouched
      BY <1>2 DEF Untouched, PrefixUntouched, prefixState
    <2>3. PICK q \in RequestRecord : q = request[k]
      BY <1>1
    <2>4. Sound(q)'
      BY <1>1, <2>2, <2>3, SoundFrame
    <2>5. Sound(request[k])'
      BY <2>1, <2>3, <2>4 DEF Sound, Ahead, Behind, MayRefuse
    <2> QED BY <1>1, <2>1, <2>5
  <1>3. CASE ~(prefixState' = prefixState /\ installed' = installed)
    <2>1. request'[k] = [request[k] EXCEPT !.fresh = FALSE]
      BY <1>3 DEF Steps
    <2>2. request'[k] \in RequestRecord /\ request'[k].fresh = FALSE /\ request'[k].pc = request[k].pc
          /\ request'[k].way = request[k].way /\ request'[k].touched = request[k].touched
      BY <1>1, <2>1 DEF RequestRecord
    <2>3. Sound(request[k])'
      BY <2>2 DEF Sound
    <2> QED BY <2>2, <2>3
  <1> QED BY <1>2, <1>3

(* ... and keeps its place, if the guard it holds excludes the step. *)
LEMMA OthersHold ==
    ASSUME CheckInv, NEW a \in Askers, NEW r, Steps(a, r), UNCHANGED <<setting, selected, hostState, game>>,
           NEW k \in Askers, k # a,
           request[k].pc \in WorkPcs \cup {"playing"} => UNCHANGED <<prefixState, workedBy>>
    PROVE  Holds(k, request[k])'
  <1>1. Holds(k, request[k])
    BY RequestTyped
  <1>2. /\ request'[k].pc = request[k].pc /\ request'[k].way = request[k].way
        /\ request'[k].touched = request[k].touched
    BY OthersSound
  <1>3. managed <=> managed'
    BY DEF managed
  <1>4. CASE request[k].pc \in WorkPcs \cup {"playing"}
    <2>1. PrefixUntouched /\ workedBy' = workedBy
      BY <1>4 DEF PrefixUntouched, prefixState
    <2> QED BY <1>1, <1>2, <1>3, <2>1, PrefixFrame DEF Holds, PrefixUntouched
  <1>5. CASE request[k].pc \notin WorkPcs \cup {"playing"}
    BY <1>1, <1>2, <1>3, <1>5 DEF Holds, WorkPcs
  <1> QED BY <1>4, <1>5

(* A step that changes its own request only. *)
LEMMA UnmovedKeeps ==
    ASSUME CheckInv, NEW a \in Askers, NEW r \in RequestRecord, Steps(a, r),
           UNCHANGED <<surroundings, prefixState, workedBy>>, Holds(a, r), Sound(r)
    PROVE  CheckInv'
  <1>1. Untouched /\ PrefixUntouched
    BY DEF Untouched, PrefixUntouched, surroundings, prefixState
  <1>2. request'[a] = r /\ request' = [k \in Askers |-> request'[k]]
    BY DEF Steps
  <1>3. \A k \in Askers \ {a} : request'[k] \in RequestRecord /\ Sound(request[k])' /\ Holds(k, request[k])'
    BY OthersSound, OthersHold DEF surroundings
  <1>4. Sound(r)'
    BY <1>1, SoundFrame
  <1>5. Sound(request[a])'
    BY <1>2, <1>4 DEF Sound, Ahead, Behind, MayRefuse
  <1>6. Holds(a, request[a])'
    <2>1. workedBy' = workedBy
      OBVIOUS
    <2> QED BY <1>1, <1>2, <2>1, PrefixFrame DEF Holds, PrefixUntouched
  <1>7. CheckTyped'
    <2>1. request' \in [Askers -> RequestRecord]
      BY <1>2, <1>3
    <2> QED BY <1>1, <2>1 DEF CheckInv, CheckTyped, Untouched, PrefixUntouched
  <1>8. DiskLawful'
    BY <1>1, PrefixFrame DEF CheckInv, DiskLawful, Lawful, Rebuildable, PrefixUntouched
  <1> QED BY <1>3, <1>5, <1>6, <1>7, <1>8 DEF CheckInv

LEMMA NoRequestIsSound ==
    ASSUME NEW a
    PROVE  NoRequest \in RequestRecord /\ Holds(a, NoRequest) /\ Sound(NoRequest)
  <1>1. NoRequest.pc = "idle"
    BY DEF NoRequest
  <1>2. NoRequest \in RequestRecord
    BY DEF NoRequest, NoStatus, RequestRecord, StatusRecord
  <1>3. Holds(a, NoRequest)
    BY <1>1 DEF Holds, LaunchPcs, WorkPcs
  <1>4. Sound(NoRequest)
    BY <1>1 DEF Sound, Ahead, Behind, LaunchPcs, WorkPcs
  <1> QED BY <1>2, <1>3, <1>4

LEMMA GivesUpKeeps ==
    ASSUME CheckInv, NEW a \in Askers, GivesUp(a), UNCHANGED <<surroundings, prefixState, workedBy>>
    PROVE  CheckInv'
  BY NoRequestIsSound, UnmovedKeeps DEF GivesUp
(* ------------------------- what an answer tells -------------------------- *)

LEMMA HostErrors ==
    /\ host_errors(selected, hostState, TRUE) \subseteq preparation_only => hostState # "broken"
    /\ host_errors(selected, hostState, TRUE) = {} => hostState # "broken"
    /\ hostState # "broken" => host_errors(selected, hostState, FALSE) = {}
  BY DEF host_errors, preparation_only

LEMMA SelectedTyped ==
    ASSUME CheckInv
    PROVE  /\ selected \in RunnerRecord /\ selected.name # "unknown"
           /\ selected.source = "download" /\ selected.family = "Proton" => selected.vkd3d
           /\ setting.place /\ setting.scope \in {"shared", "isolated", "custom"}
  BY RunnersAssumption, ScopesAssumption DEF CheckInv, CheckTyped

LEMMA StatusTyped == \A h : Status(h) \in StatusRecord
  <1>1. RuntimeStatus \in StatusRecord
    BY DEF RuntimeStatus, StatusRecord
  <1>2. managed_runtime_pending \in StatusRecord
    BY DEF managed_runtime_pending, StatusRecord
  <1>3. ASSUME NEW h PROVE Status(h) \in StatusRecord
    <2> DEFINE e == host_errors(selected, h, TRUE)
               s == IF Pending THEN managed_runtime_pending ELSE RuntimeStatus
    <2>1. s \in StatusRecord
      BY <1>1, <1>2
    <2> HIDE DEF s, e
    <2>2. apply_host_checks(s, e) \in StatusRecord
      BY <2>1 DEF apply_host_checks, StatusRecord
    <2> QED BY <2>2 DEF Status, s, e
  <1> QED BY <1>3

(* apply_host_checks on top of what the runtime says *)
LEMMA StatusParts ==
    ASSUME NEW s, s = IF Pending THEN managed_runtime_pending ELSE RuntimeStatus
    PROVE  /\ Status(hostState).pending = s.pending
           /\ Status(hostState).setup => s.setup /\ HostPrepares
           /\ Status(hostState).reset => s.reset /\ HostPrepares
           /\ Status(hostState).ready <=> s.ready /\ host_errors(selected, hostState, TRUE) \subseteq preparation_only
  <1> DEFINE e == host_errors(selected, hostState, TRUE)
  <1>1. RuntimeStatus \in StatusRecord /\ managed_runtime_pending \in StatusRecord
    BY DEF RuntimeStatus, managed_runtime_pending, StatusRecord
  <1>2. s \in StatusRecord
    BY <1>1
  <1>3. Status(hostState) = apply_host_checks(s, e)
    BY DEF Status
  <1>4. HostPrepares <=> e = {}
    BY DEF HostPrepares
  <1> HIDE DEF e
  <1>5. /\ apply_host_checks(s, e).pending = s.pending
        /\ apply_host_checks(s, e).setup <=> s.setup /\ e = {}
        /\ apply_host_checks(s, e).reset <=> s.reset /\ e = {}
        /\ apply_host_checks(s, e).ready <=> s.ready /\ e \subseteq preparation_only
    BY <1>2 DEF apply_host_checks, StatusRecord
  <1> QED BY <1>3, <1>4, <1>5 DEF e

LEMMA StatusPending ==
    ASSUME Pending
    PROVE  /\ Status(hostState).pending /\ ~Status(hostState).ready
           /\ Status(hostState).setup => managed_runtime_pending.setup
           /\ Status(hostState).reset => managed_runtime_pending.reset
  <1> DEFINE s == managed_runtime_pending
  <1>1. s.pending /\ ~s.ready
    BY DEF managed_runtime_pending
  <1>2. s = IF Pending THEN managed_runtime_pending ELSE RuntimeStatus
    OBVIOUS
  <1> HIDE DEF s
  <1>3. /\ Status(hostState).pending = s.pending
        /\ Status(hostState).setup => s.setup
        /\ Status(hostState).reset => s.reset
        /\ Status(hostState).ready => s.ready
    BY <1>2, StatusParts
  <1> QED BY <1>1, <1>3 DEF s

LEMMA BlockersSplit == NoBlockers(Eligible) <=> Eligible /\ NoBlockers(TRUE)
  BY DEF NoBlockers

LEMMA ReadyIsTold ==
    ASSUME CheckInv, Status(hostState).ready
    PROVE  Launchable
  <1>1. ~Pending
    BY StatusPending
  <1>2. RuntimeStatus.ready /\ hostState # "broken"
    BY <1>1, StatusParts, HostErrors
  <1>3. NoBlockers(Eligible) /\ ~missing_runtime_components /\ dxvk_available
    BY <1>2 DEF RuntimeStatus
  <1>4. selected.family = "Wine716" => HasManifest /\ "dxvk-2.6.2" \in disk.record.parts
    BY <1>3 DEF dxvk_available
  <1> QED BY <1>1, <1>2, <1>3, <1>4, BlockersSplit DEF Launchable

(* With a runner that is still to be downloaded, only the location is judged. *)
LEMMA PendingSupports ==
    ASSUME CheckInv, Pending, selected.source # "import"
    PROVE  runner_vkd3d_ok
  BY SelectedTyped DEF Pending, runner_vkd3d_ok, IsWine, RunnerRecord

LEMMA SetupIsTold ==
    ASSUME CheckInv, Status(hostState).setup
    PROVE  Offered("setup", Status(hostState).pending)
  <1>1. HostPrepares
    BY StatusParts
  <1>2. setting.place
    BY SelectedTyped
  <1>3. CASE Pending
    <2> DEFINE rebuild == legacy_marker \/ (HasManifest /\ ~manifest_compatible)
    <2>1. managed_runtime_pending.setup /\ Status(hostState).pending
      BY <1>3, StatusPending
    <2>2. ~managed_unclaimed /\ selected.source # "import" /\ (rebuild => ensure_managed_reset_allowed)
      BY <2>1 DEF managed_runtime_pending
    <2>3. ~foreign_custom
      <3> SUFFICES ASSUME foreign_custom PROVE FALSE
        OBVIOUS
      <3>1. rebuild
        BY DEF foreign_custom, manifest_compatible, HasManifest
      <3> QED BY <2>2, <3>1 DEF ensure_managed_reset_allowed, foreign_custom
    <2>4. rebuild_managed => ensure_managed_reset_allowed
      <3> SUFFICES ASSUME rebuild_managed, ~rebuild PROVE ensure_managed_reset_allowed
        BY <2>2
      <3>1. managed /\ HasManifest /\ manifest_matches_stored_location
        BY DEF rebuild_managed, manifest_compatible, runner_unknown
      <3> QED BY <3>1, <1>2 DEF ensure_managed_reset_allowed, manifest_matches_stored_location
    <2> QED BY <1>1, <1>3, <2>1, <2>2, <2>3, <2>4, PendingSupports DEF Offered, Supports, Opens
  <1>4. CASE ~Pending
    <2>1. RuntimeStatus.setup
      BY <1>4, StatusParts
    <2>2. missing_verbs = {} /\ runner_vkd3d_ok /\ ensure_custom_setup_allowed /\ ~managed_unclaimed
          /\ (requires_rebuild => rebuild_allowed)
      BY <2>1 DEF RuntimeStatus
    <2>3. requires_rebuild => ensure_managed_reset_allowed
      BY <2>2 DEF rebuild_allowed
    <2>4. ~foreign_custom
      BY <2>3 DEF foreign_custom, requires_rebuild, incompatible_manifest, ensure_managed_reset_allowed
    <2>5. rebuild_managed => ensure_managed_reset_allowed
      <3> SUFFICES ASSUME rebuild_managed, ~requires_rebuild PROVE ensure_managed_reset_allowed
        BY <2>3
      <3>1. managed /\ HasManifest /\ manifest_matches_stored_location
        BY DEF rebuild_managed, requires_rebuild, incompatible_manifest
      <3> QED BY <3>1, <1>2 DEF ensure_managed_reset_allowed, manifest_matches_stored_location
    <2> QED BY <1>1, <1>4, <2>2, <2>4, <2>5 DEF Offered, Supports, Opens
  <1> QED BY <1>3, <1>4

LEMMA ResetIsTold ==
    ASSUME CheckInv, Status(hostState).reset
    PROVE  Offered("reset", Status(hostState).pending)
  <1>1. HostPrepares
    BY StatusParts
  <1>2. CASE Pending
    <2>1. managed_runtime_pending.reset /\ Status(hostState).pending
      BY <1>2, StatusPending
    <2>2. ensure_managed_reset_allowed /\ selected.source # "import"
      BY <2>1 DEF managed_runtime_pending
    <2> QED BY <1>1, <1>2, <2>1, <2>2, PendingSupports DEF Offered, Supports, Opens
  <1>3. CASE ~Pending
    <2>1. RuntimeStatus.reset
      BY <1>3, StatusParts
    <2>2. missing_verbs = {} /\ runner_vkd3d_ok /\ ensure_managed_reset_allowed
      BY <2>1 DEF RuntimeStatus
    <2> QED BY <1>1, <1>3, <2>2 DEF Offered, Supports, Opens
  <1> QED BY <1>2, <1>3

(* What is well recorded lacks nothing but components and a DXVK no preparation brings. *)
LEMMA PreparedIsTold ==
    ASSUME CheckInv, Prepares, runner_vkd3d_ok, disk.data = "whole", WellRecorded, ~Status(hostState).ready
    PROVE  StillLacks
  <1> SUFFICES ASSUME ~StillLacks PROVE FALSE
    OBVIOUS
  <1>1. ~Pending /\ host_errors(selected, hostState, TRUE) \subseteq preparation_only
    BY DEF Prepares, HostPrepares
  <1>2. HasManifest /\ disk.record.here /\ disk.record.runner = selected.name /\ selected.name # "unknown"
        /\ GraphicsComponent(selected) \in disk.record.parts /\ setting.place
    BY SelectedTyped DEF WellRecorded
  <1>3. Eligible
    BY <1>2 DEF Eligible, stored_manifest_matches_runner, CheckInv, DiskLawful, Lawful, HasManifest
  <1>4. ~runner_unknown /\ manifest_matches_stored_location /\ stored_manifest_matches_runner /\ structure_ok
        /\ configured /\ ~legacy_marker /\ ensure_managed_path_safe /\ ensure_custom_setup_allowed /\ vkd3d_ok
    BY <1>2 DEF runner_unknown, manifest_matches_stored_location, stored_manifest_matches_runner, structure_ok,
       configured, legacy_marker, HasManifest, ensure_managed_path_safe, ensure_custom_setup_allowed, vkd3d_ok,
       runner_vkd3d_ok
  <1>5. NoBlockers(Eligible) /\ manifest_compatible
    BY <1>2, <1>3, <1>4 DEF NoBlockers, manifest_compatible
  <1>6. dxvk_available
    <2>1. selected.family \in {"Proton", "Wine", "Wine716"}
      BY SelectedTyped DEF RunnerRecord
    <2> QED BY <2>1, <1>2 DEF dxvk_available, GraphicsComponent, StillLacks
  <1>7. RuntimeStatus.ready
    BY <1>4, <1>5, <1>6 DEF RuntimeStatus, StillLacks
  <1> QED BY <1>1, <1>7, StatusParts
(* ---------------------- the steps that move nothing ---------------------- *)

LEMMA AskKeeps ==
    ASSUME CheckInv, NEW a \in Askers, Ask(a)
    PROVE  CheckInv'
  <1> DEFINE r == [NoRequest EXCEPT !.pc = "asked", !.host = hostState]
  <1>1. Steps(a, r) /\ UNCHANGED <<surroundings, prefixState, workedBy>>
    BY DEF Ask
  <1>2. hostState \in {"ok", "tools", "broken"}
    BY DEF CheckInv, CheckTyped
  <1>3. NoRequest \in RequestRecord /\ NoRequest.again = FALSE
    BY NoRequestIsSound DEF NoRequest
  <1>4. r \in RequestRecord /\ r.pc = "asked" /\ r.host = hostState /\ r.again = FALSE
    BY <1>2, <1>3 DEF RequestRecord
  <1> HIDE DEF r
  <1>5. Holds(a, r) /\ Sound(r)
    BY <1>4 DEF Holds, Sound, Ahead, Behind, LaunchPcs, WorkPcs
  <1> QED BY <1>1, <1>4, <1>5, UnmovedKeeps

LEMMA AskAgainKeeps ==
    ASSUME CheckInv, NEW a \in Askers, AskAgain(a)
    PROVE  CheckInv'
  <1> DEFINE c == request[a]
             r == [c EXCEPT !.pc = "asked", !.host = hostState, !.again = TRUE]
  <1>1. Steps(a, r) /\ UNCHANGED <<surroundings, prefixState, workedBy>> /\ c.pc = "prepared"
    BY DEF AskAgain, Unmoved, AskerAt
  <1>2. hostState \in {"ok", "tools", "broken"} /\ c \in RequestRecord /\ Sound(c)
    BY RequestTyped DEF CheckInv, CheckTyped
  <1> HIDE DEF c
  <1>3. r \in RequestRecord /\ r.pc = "asked" /\ r.host = hostState /\ r.fresh = c.fresh
    BY <1>2 DEF RequestRecord
  <1> HIDE DEF r
  <1>4. Holds(a, r) /\ Sound(r)
    BY <1>1, <1>2, <1>3 DEF Holds, Sound, Ahead, Behind, LaunchPcs, WorkPcs
  <1> QED BY <1>1, <1>3, <1>4, UnmovedKeeps

LEMMA AnswerKeeps ==
    ASSUME CheckInv, NEW a \in Askers, Answer(a)
    PROVE  CheckInv'
  <1> DEFINE c == request[a]
             r == [c EXCEPT !.pc = "answered", !.seen = Status(c.host)]
  <1>1. Steps(a, r) /\ UNCHANGED <<surroundings, prefixState, workedBy>> /\ c.pc = "asked"
    BY DEF Answer, Unmoved, AskerAt
  <1>2. c \in RequestRecord /\ Sound(c) /\ Status(c.host) \in StatusRecord
    BY RequestTyped, StatusTyped
  <1> HIDE DEF c
  <1>3. r \in RequestRecord /\ r.pc = "answered" /\ r.seen = Status(c.host) /\ r.fresh = c.fresh /\ r.again = c.again
    BY <1>2 DEF RequestRecord
  <1> HIDE DEF r
  <1>4. Holds(a, r)
    BY <1>3 DEF Holds, LaunchPcs, WorkPcs
  <1>5. Sound(r)
    <2> SUFFICES ASSUME c.fresh PROVE Ahead(r) /\ Behind(r)
      BY <1>3 DEF Sound
    <2>1. c.host = hostState /\ (c.again => Prepares /\ runner_vkd3d_ok /\ disk.data = "whole" /\ WellRecorded)
      BY <1>1, <1>2 DEF Sound, Ahead, Behind
    <2>2. r.seen = Status(hostState)
      BY <1>3, <2>1
    <2>3. /\ r.seen.ready => Launchable
          /\ r.seen.setup => Offered("setup", r.seen.pending)
          /\ r.seen.reset => Offered("reset", r.seen.pending)
          /\ r.again /\ ~r.seen.ready => StillLacks
      BY <1>3, <2>1, <2>2, ReadyIsTold, SetupIsTold, ResetIsTold, PreparedIsTold
    <2> QED BY <1>3, <2>3 DEF Ahead, Behind, LaunchPcs, WorkPcs
  <1> QED BY <1>1, <1>3, <1>4, <1>5, UnmovedKeeps

LEMMA ProceedKeeps ==
    ASSUME CheckInv, NEW a \in Askers, Proceed(a)
    PROVE  CheckInv'
  <1> DEFINE c == request[a]
             launch == [c EXCEPT !.pc = "launch", !.way = "launch"]
             unready == [c EXCEPT !.pc = "unready"]
             prepare(way) == [c EXCEPT !.pc = "prepare", !.way = way]
  <1>1. UNCHANGED <<surroundings, prefixState, workedBy>> /\ c.pc = "answered"
    BY DEF Proceed, Unmoved, AskerAt
  <1>2. \/ c.seen.ready /\ Steps(a, launch)
        \/ GivesUp(a)
        \/ ~c.seen.ready /\ c.again /\ Steps(a, unready)
        \/ c.seen.setup /\ Steps(a, prepare("setup"))
        \/ c.seen.reset /\ Steps(a, prepare("reset"))
    <2>1. CASE a = "play"
      BY <2>1, Zenon DEF Proceed, GoesOn
    <2>2. CASE a # "play"
      BY <2>2, Zenon DEF Proceed, GoesOn
    <2> QED BY <2>1, <2>2
  <1>3. c \in RequestRecord /\ Sound(c)
    BY RequestTyped
  <1> HIDE DEF c
  <1>4. CASE c.seen.ready /\ Steps(a, launch)
    <2>1. launch \in RequestRecord /\ launch.pc = "launch" /\ launch.way = "launch" /\ launch.fresh = c.fresh
      BY <1>3 DEF RequestRecord, LaunchPcs
    <2> HIDE DEF launch
    <2>2. Holds(a, launch) /\ Sound(launch)
      BY <1>1, <1>3, <1>4, <2>1 DEF Holds, Sound, Ahead, Behind, LaunchPcs, WorkPcs
    <2> QED BY <1>1, <1>4, <2>1, <2>2, UnmovedKeeps
  <1>5. CASE ~c.seen.ready /\ c.again /\ Steps(a, unready)
    <2>1. unready \in RequestRecord /\ unready.pc = "unready" /\ unready.fresh = c.fresh
      BY <1>3 DEF RequestRecord
    <2> HIDE DEF unready
    <2>2. Holds(a, unready) /\ Sound(unready)
      BY <1>1, <1>3, <1>5, <2>1 DEF Holds, Sound, Ahead, Behind, LaunchPcs, WorkPcs
    <2> QED BY <1>1, <1>5, <2>1, <2>2, UnmovedKeeps
  <1>6. ASSUME NEW way \in {"setup", "reset"}, c.fresh => Offered(way, c.seen.pending), Steps(a, prepare(way))
        PROVE  CheckInv'
    <2> DEFINE r == prepare(way)
    <2>1. r \in RequestRecord /\ r.pc = "prepare" /\ r.way = way /\ r.fresh = c.fresh /\ r.seen = c.seen
      BY <1>3 DEF RequestRecord
    <2>2. Steps(a, r)
      BY <1>6
    <2> HIDE DEF r
    <2>3. Holds(a, r) /\ Sound(r)
      BY <1>6, <2>1 DEF Holds, Sound, Ahead, Behind, LaunchPcs, WorkPcs
    <2> QED BY <1>1, <2>1, <2>2, <2>3, UnmovedKeeps
  <1>7. /\ c.fresh /\ c.seen.setup => Offered("setup", c.seen.pending)
        /\ c.fresh /\ c.seen.reset => Offered("reset", c.seen.pending)
    BY <1>1, <1>3 DEF Sound, Ahead
  <1> QED BY <1>1, <1>2, <1>4, <1>5, <1>6, <1>7, GivesUpKeeps

LEMMA ValidateRuntimeKeeps ==
    ASSUME CheckInv, NEW a \in Askers, ValidateRuntime(a)
    PROVE  CheckInv'
  <1> DEFINE c == request[a]
             valid == NoBlockers(Eligible) /\ ~missing_runtime_components
             r == [c EXCEPT !.eligible = Eligible, !.pc = IF valid THEN "begin" ELSE "refused"]
  <1>1. UNCHANGED <<surroundings, prefixState, workedBy>> /\ c.pc = "validate" /\ Steps(a, r)
    BY DEF ValidateRuntime, Unmoved, AskerAt
  <1>2. c \in RequestRecord /\ Sound(c) /\ Holds(a, c)
    BY RequestTyped
  <1>3. Eligible \in BOOLEAN
    BY DEF Eligible
  <1>4. c.fresh => valid /\ Eligible /\ Launchable
    BY <1>1, <1>2, BlockersSplit DEF Sound, Ahead, LaunchPcs, Launchable
  <1>5. c.way = "launch"
    BY <1>1, <1>2 DEF Holds, LaunchPcs
  <1> HIDE DEF c, valid
  <1>6. /\ r \in RequestRecord /\ r.pc = (IF valid THEN "begin" ELSE "refused") /\ r.way = "launch"
        /\ r.fresh = c.fresh /\ r.eligible = Eligible
    BY <1>2, <1>3, <1>5 DEF RequestRecord, LaunchPcs
  <1> HIDE DEF r
  <1>7. Holds(a, r) /\ Sound(r)
    BY <1>4, <1>6 DEF Holds, Sound, Ahead, Behind, LaunchPcs, WorkPcs
  <1> QED BY <1>1, <1>6, <1>7, UnmovedKeeps

(* A prefix that passed the second validation has the identity of its runner. *)
LEMMA ValidIsEligible ==
    ASSUME CheckInv, NoBlockers(TRUE)
    PROVE  Eligible
  <1>1. managed => HasManifest
    BY DEF NoBlockers, configured
  <1> QED BY <1>1 DEF Eligible, managed, HasManifest, stored_manifest_matches_runner, CheckInv, DiskLawful, Lawful

LEMMA BeginLaunchKeeps ==
    ASSUME CheckInv, NEW a \in Askers, BeginLaunch(a)
    PROVE  CheckInv'
  <1> DEFINE c == request[a]
             valid == /\ NoBlockers(c.eligible)
                      /\ selected.family = "Wine716" => HasManifest /\ "dxvk-2.6.2" \in disk.record.parts
             r == [c EXCEPT !.pc = IF valid THEN "playing" ELSE "refused"]
  <1>1. UNCHANGED <<surroundings, prefixState, workedBy>> /\ c.pc = "begin"
    BY DEF BeginLaunch, Unmoved, AskerAt
  <1>2. c \in RequestRecord /\ Sound(c) /\ Holds(a, c)
    BY RequestTyped
  <1>3. CASE GivesUp(a)
    BY <1>1, <1>3, GivesUpKeeps
  <1>4. CASE workedBy = Free /\ Steps(a, r)
    <2>1. c.fresh => valid
      <3>1. c.eligible \in BOOLEAN
        BY <1>2 DEF RequestRecord
      <3> QED BY <3>1, <1>1, <1>2 DEF Sound, Ahead, LaunchPcs, Launchable, NoBlockers
    <2>2. valid => Eligible /\ NoBlockers(TRUE)
      <3>1. valid => NoBlockers(TRUE)
        BY DEF NoBlockers
      <3> QED BY <3>1, ValidIsEligible
    <2>3. c.way = "launch"
      BY <1>1, <1>2 DEF Holds, LaunchPcs
    <2> HIDE DEF c, valid
    <2>4. /\ r \in RequestRecord /\ r.pc = (IF valid THEN "playing" ELSE "refused") /\ r.way = "launch"
          /\ r.fresh = c.fresh
      BY <1>2, <2>3 DEF RequestRecord
    <2> HIDE DEF r
    <2>5. Holds(a, r) /\ Sound(r)
      BY <1>4, <2>1, <2>2, <2>4 DEF Holds, Sound, Ahead, Behind, LaunchPcs, WorkPcs
    <2> QED BY <1>1, <1>4, <2>4, <2>5, UnmovedKeeps
  <1> QED BY <1>3, <1>4 DEF BeginLaunch, GoesOn

LEMMA LeavesKeep ==
    ASSUME CheckInv, NEW a \in Askers, Dismiss(a) \/ Plays(a)
    PROVE  CheckInv'
  BY GivesUpKeeps DEF Dismiss, Plays, Unmoved

(* What setup_prefix and reset_prefix decide is possible where an answer
   offered it, and is still allowed under the guard. *)
LEMMA DecisionIsPossible ==
    ASSUME CheckInv, NEW c \in RequestRecord, c.way \in {"setup", "reset"}, Recovered, Supports(c.seen.pending),
           Opens(c.way, c.seen.pending), c.way = "setup" => Claimed
    PROVE  /\ Way(c.way) = "refused" => MayRefuse(c)
           /\ Way(c.way) # "refused" => Supports(FALSE) /\ MayWork(Way(c.way)) /\ Eligible
  <1>1. setting.place /\ ensure_managed_path_safe
    BY SelectedTyped DEF ensure_managed_path_safe
  <1>2. ~RecoveryRefuses
    BY DEF Recovered, RecoveryRefuses
  <1>3. /\ ~validate_requirement_support => Way(c.way) = "refused"
        /\ validate_requirement_support /\ c.way = "setup" /\ RefusesSetup => Way(c.way) = "refused"
        /\ validate_requirement_support /\ c.way = "setup" /\ ~RefusesSetup /\ ~rebuild_managed => Way(c.way) = "setup"
        /\ validate_requirement_support /\ (c.way = "reset" \/ (c.way = "setup" /\ ~RefusesSetup /\ rebuild_managed))
             => Way(c.way) = IF ensure_managed_reset_allowed /\ ~game THEN "reset" ELSE "refused"
    BY DEF Way
  <1>4. ensure_managed_reset_allowed => managed /\ (disk.data # "none" => HasManifest \/ legacy_marker)
    BY DEF ensure_managed_reset_allowed
  <1>5. managed /\ (disk.data # "none" => HasManifest \/ legacy_marker) => Eligible
    BY DEF Eligible, HasManifest, legacy_marker, stored_manifest_matches_runner, CheckInv, DiskLawful, Lawful
  <1>6. ~managed => Eligible
    BY DEF managed, Eligible
  <1>7. CASE ~validate_requirement_support
    <2>1. c.seen.pending /\ missing_verbs # {}
      BY <1>7 DEF validate_requirement_support, Supports
    <2> QED BY <1>3, <1>7, <2>1 DEF MayRefuse
  <1>8. CASE validate_requirement_support /\ c.way = "setup" /\ RefusesSetup
    <2>1. ~ensure_custom_setup_allowed
      BY <1>1, <1>8 DEF RefusesSetup, Opens, Claimed
    <2>2. c.seen.pending
      BY <2>1, <1>8 DEF Opens
    <2> QED BY <1>3, <1>8, <2>1, <2>2 DEF MayRefuse
  <1>9. CASE validate_requirement_support /\ c.way = "setup" /\ ~RefusesSetup /\ ~rebuild_managed
    <2>1. Way(c.way) = "setup"
      BY <1>3, <1>9
    <2>2. managed => ensure_managed_reset_allowed
      <3> SUFFICES ASSUME managed, disk.data # "none" PROVE ensure_managed_reset_allowed
        BY <1>1 DEF ensure_managed_reset_allowed
      <3>1. HasManifest
        BY <1>9 DEF RefusesSetup, rebuild_managed
      <3>2. disk.record.here
        BY <3>1, <1>9 DEF rebuild_managed, HasManifest, manifest_matches_stored_location, CheckInv, DiskLawful, Lawful
      <3> QED BY <1>1, <3>1, <3>2 DEF ensure_managed_reset_allowed
    <2>3. ensure_custom_setup_allowed
      BY <1>9 DEF RefusesSetup
    <2>4. Eligible
      BY <1>4, <1>5, <1>6, <2>2
    <2> QED BY <1>2, <1>9, <2>1, <2>2, <2>3, <2>4 DEF MayWork, Supports, validate_requirement_support
  <1>10. CASE validate_requirement_support /\ (c.way = "reset" \/ (c.way = "setup" /\ ~RefusesSetup /\ rebuild_managed))
    <2>1. ensure_managed_reset_allowed
      BY <1>10 DEF Opens
    <2>2. Way(c.way) = IF ~game THEN "reset" ELSE "refused"
      BY <1>3, <1>10, <2>1
    <2>3. ensure_custom_setup_allowed /\ Eligible
      BY <2>1, <1>4, <1>5 DEF ensure_custom_setup_allowed
    <2> QED BY <1>2, <1>10, <2>1, <2>2, <2>3 DEF MayRefuse, MayWork, Supports, validate_requirement_support
  <1> QED BY <1>7, <1>8, <1>9, <1>10

LEMMA DecideWayKeeps ==
    ASSUME CheckInv, NEW a \in Askers, DecideWay(a)
    PROVE  CheckInv'
  <1> DEFINE c == request[a]
             way == Way(c.way)
             refused == [c EXCEPT !.pc = "refused"]
             decided == [c EXCEPT !.pc = "recover", !.way = way]
  <1>1. /\ UNCHANGED <<surroundings, prefixState, workedBy>> /\ c.pc = "decide"
        /\ IF way = "refused" THEN Steps(a, refused) ELSE Steps(a, decided)
    BY DEF DecideWay, Unmoved, AskerAt, GoesOn
  <1>2. c \in RequestRecord /\ Sound(c) /\ Holds(a, c)
    BY RequestTyped
  <1>3. c.way \in {"setup", "reset"}
    BY <1>1, <1>2 DEF Holds
  <1>4. way \in {"setup", "reset", "refused"} /\ (way = "reset" => managed)
    BY DEF Way, ensure_managed_reset_allowed
  <1>5. c.fresh => /\ Prepares /\ Recovered /\ (c.eligible <=> Eligible)
                   /\ way = "refused" => MayRefuse(c)
                   /\ way # "refused" => Supports(FALSE) /\ MayWork(way) /\ Eligible
    <2> SUFFICES ASSUME c.fresh PROVE <1>5!2
      OBVIOUS
    <2>1. /\ Recovered /\ Supports(c.seen.pending) /\ Opens(c.way, c.seen.pending)
          /\ (c.way = "setup" => Claimed) /\ (c.eligible <=> Eligible) /\ Prepares
      BY <1>1, <1>2 DEF Sound, Ahead
    <2> HIDE DEF c
    <2> QED BY <1>2, <1>3, <2>1, DecisionIsPossible
  <1> HIDE DEF c, way
  <1>6. CASE way = "refused"
    <2>1. refused \in RequestRecord /\ refused.pc = "refused" /\ refused.fresh = c.fresh /\ refused.way = c.way
          /\ refused.seen = c.seen
      BY <1>2 DEF RequestRecord
    <2>2. Steps(a, refused)
      BY <1>1, <1>6
    <2> HIDE DEF refused
    <2>3. Holds(a, refused) /\ Sound(refused)
      BY <1>3, <1>5, <1>6, <2>1 DEF Holds, Sound, Ahead, Behind, MayRefuse, LaunchPcs, WorkPcs
    <2> QED BY <1>1, <2>1, <2>2, <2>3, UnmovedKeeps
  <1>7. CASE way # "refused"
    <2>1. decided \in RequestRecord /\ decided.pc = "recover" /\ decided.fresh = c.fresh /\ decided.way = way
          /\ decided.eligible = c.eligible
      BY <1>2, <1>4, <1>7 DEF RequestRecord
    <2>2. Steps(a, decided)
      BY <1>1, <1>7
    <2> HIDE DEF decided
    <2>3. Holds(a, decided) /\ Sound(decided)
      BY <1>4, <1>5, <1>7, <2>1 DEF Holds, Sound, Ahead, Behind, LaunchPcs, WorkPcs
    <2> QED BY <1>1, <2>1, <2>2, <2>3, UnmovedKeeps
  <1> QED BY <1>6, <1>7

(* -------------------- the steps that change the prefix ------------------- *)

PrefixTyped == disk \in PrefixRecord /\ pendingMark \in {"none", "P", "C"} /\ resetBackup \in PrefixRecord \cup {NoBackup}

LEMMA MovedKeeps ==
    ASSUME CheckInv, NEW a \in Askers, NEW r \in RequestRecord, Steps(a, r),
           UNCHANGED <<setting, selected, hostState, game>>, installed' \in BOOLEAN, PrefixTyped', DiskLawful',
           Holds(a, r)', Sound(r)',
           \A k \in Askers \ {a} :
               request[k].pc \in WorkPcs \cup {"playing"} => UNCHANGED <<prefixState, workedBy>>
    PROVE  CheckInv'
  <1>1. request'[a] = r /\ request' = [k \in Askers |-> request'[k]]
    BY DEF Steps
  <1>2. \A k \in Askers \ {a} : request'[k] \in RequestRecord /\ Sound(request[k])' /\ Holds(k, request[k])'
    BY OthersSound, OthersHold
  <1>3. Sound(request[a])'
    BY <1>1 DEF Sound, Ahead, Behind, MayRefuse
  <1>4. Holds(a, request[a])'
    BY <1>1 DEF Holds
  <1>5. CheckTyped'
    <2>1. request' \in [Askers -> RequestRecord]
      BY <1>1, <1>2
    <2> QED BY <2>1 DEF CheckInv, CheckTyped, PrefixTyped
  <1> QED BY <1>2, <1>3, <1>4, <1>5 DEF CheckInv

(* Nobody else works, or plays, while the guard is held. *)
LEMMA AloneAtWork ==
    ASSUME CheckInv, NEW a \in Askers, workedBy = a
    PROVE  \A k \in Askers \ {a} : request[k].pc \notin WorkPcs \cup {"playing"}
  BY AskersAssumption, RequestTyped DEF Holds, Free

LEMMA NobodyBusy ==
    ASSUME CheckInv, ~Busy
    PROVE  \A k \in Askers : request[k].pc \notin WorkPcs \cup {"playing"}
  <1>1. ASSUME NEW k \in Askers PROVE request[k].pc # "playing"
    BY DEF Busy, Playing, AskerAt
  <1>2. ASSUME NEW k \in Askers PROVE request[k].pc \notin WorkPcs
    BY AskersAssumption, RequestTyped DEF Holds, Free, Busy
  <1> QED BY <1>1, <1>2

LEMMA NoRequestStaysSound ==
    ASSUME NEW a
    PROVE  Holds(a, NoRequest)' /\ Sound(NoRequest)'
  <1>1. NoRequest.pc = "idle"
    BY DEF NoRequest
  <1> QED BY <1>1 DEF Holds, Sound, Ahead, Behind, LaunchPcs, WorkPcs

(* What depends on the prefix, the setting and the runner only. *)
LEMMA DiskFrame ==
    ASSUME UNCHANGED <<setting, selected, disk>>
    PROVE  /\ (managed <=> managed') /\ (HasManifest <=> HasManifest') /\ (legacy_marker <=> legacy_marker')
           /\ (ensure_custom_setup_allowed <=> ensure_custom_setup_allowed')
           /\ (ensure_managed_reset_allowed <=> ensure_managed_reset_allowed')
           /\ (foreign_custom <=> foreign_custom') /\ (rebuild_managed <=> rebuild_managed')
           /\ \A way, unsure : Opens(way, unsure) <=> Opens(way, unsure)'
  <1>1. (managed <=> managed') /\ (HasManifest <=> HasManifest') /\ (legacy_marker <=> legacy_marker')
    BY DEF managed, HasManifest, legacy_marker
  <1>2. /\ ensure_custom_setup_allowed <=> ensure_custom_setup_allowed'
        /\ ensure_managed_reset_allowed <=> ensure_managed_reset_allowed'
    BY <1>1 DEF ensure_custom_setup_allowed, ensure_managed_reset_allowed, structure_ok
  <1>3. (foreign_custom <=> foreign_custom') /\ (rebuild_managed <=> rebuild_managed')
    BY <1>1 DEF foreign_custom, rebuild_managed, runner_unknown, stored_manifest_matches_runner,
       manifest_matches_stored_location
  <1>4. \A way, unsure : Opens(way, unsure) <=> Opens(way, unsure)'
    BY <1>2, <1>3 DEF Opens
  <1> QED BY <1>1, <1>2, <1>3, <1>4

(* What depends on the setting, the host and the runner only. *)
LEMMA RunnerFrame ==
    ASSUME UNCHANGED <<setting, selected, hostState>>
    PROVE  /\ (managed <=> managed') /\ (HostPrepares <=> HostPrepares')
           /\ missing_verbs' = missing_verbs /\ (runner_vkd3d_ok <=> runner_vkd3d_ok')
           /\ \A unsure : Supports(unsure) <=> Supports(unsure)'
  <1>1. (managed <=> managed') /\ (HostPrepares <=> HostPrepares')
    BY DEF managed, HostPrepares
  <1>2. missing_verbs' = missing_verbs /\ (runner_vkd3d_ok <=> runner_vkd3d_ok')
    BY DEF missing_verbs, required_verbs, runner_vkd3d_ok
  <1> QED BY <1>1, <1>2 DEF Supports

LEMMA EnsureRuntimeKeeps ==
    ASSUME CheckInv, NEW a \in Askers, EnsureRuntime(a)
    PROVE  CheckInv'
  <1>1. PICK c \in RequestRecord : c = request[a]
    BY RequestTyped
  <1>2. Sound(c) /\ Holds(a, c) /\ c.pc \in {"launch", "prepare"}
    BY <1>1, RequestTyped DEF EnsureRuntime
  <1>3. UNCHANGED <<setting, selected, hostState, game, prefixState, workedBy>> /\ PrefixUntouched
    BY DEF EnsureRuntime, prefixState, PrefixUntouched
  <1>4. /\ c.pc = "launch" => c.way = "launch"
        /\ c.pc = "prepare" => c.way \in {"setup", "reset"}
    BY <1>2 DEF Holds, LaunchPcs
  <1>5. /\ c.fresh /\ c.pc = "launch" => Launchable
        /\ c.fresh /\ c.pc = "prepare" => Offered(c.way, c.seen.pending)
    BY <1>2 DEF Sound, Ahead, LaunchPcs
  <1> DEFINE refuses == \/ host_errors(selected, hostState, c.pc = "prepare") # {}
                        \/ Pending /\ selected.source = "import"
             refused == [c EXCEPT !.pc = "refused"]
             ensured == [c EXCEPT !.pc = IF c.pc = "launch" THEN "validate" ELSE "resolve"]
  <1>6. \/ refuses /\ UNCHANGED installed /\ Steps(a, refused)
        \/ installed' = TRUE /\ Steps(a, ensured)
        \/ UNCHANGED installed /\ GivesUp(a)
    BY <1>1, Zenon DEF EnsureRuntime, AskerAt, GoesOn
  <1>7. CASE refuses /\ UNCHANGED installed /\ Steps(a, refused)
    <2>1. ~c.fresh
      <3>1. CASE c.pc = "launch"
        <4>1. (c.pc = "prepare") = FALSE
          BY <3>1
        <4> QED BY <4>1, <1>5, <1>7, <3>1, HostErrors DEF Launchable
      <3>2. CASE c.pc = "prepare"
        <4>1. (c.pc = "prepare") = TRUE
          BY <3>2
        <4> QED BY <4>1, <1>5, <1>7, <3>2 DEF Offered, HostPrepares
      <3> QED BY <1>2, <3>1, <3>2
    <2>2. refused \in RequestRecord /\ refused.pc = "refused" /\ refused.fresh = c.fresh
      BY DEF RequestRecord
    <2> HIDE DEF refused
    <2>3. Holds(a, refused) /\ Sound(refused)
      BY <2>1, <2>2 DEF Holds, Sound, LaunchPcs, WorkPcs
    <2>4. UNCHANGED <<surroundings, prefixState, workedBy>>
      BY <1>3, <1>7 DEF surroundings
    <2> QED BY <1>7, <2>2, <2>3, <2>4, UnmovedKeeps
  <1>8. CASE installed' = TRUE /\ Steps(a, ensured)
    <2>0. /\ ensured \in RequestRecord /\ ensured.pc = (IF c.pc = "launch" THEN "validate" ELSE "resolve")
          /\ ensured.fresh = c.fresh /\ ensured.way = c.way /\ ensured.seen = c.seen
      BY DEF RequestRecord, LaunchPcs
    <2> HIDE DEF ensured
    <2>1. PICK q \in RequestRecord : /\ q = ensured /\ q.pc = (IF c.pc = "launch" THEN "validate" ELSE "resolve")
                                     /\ q.fresh = c.fresh /\ q.way = c.way /\ q.seen = c.seen
      BY <2>0, Zenon
    <2>2. ~Pending'
      BY <1>8 DEF Pending
    <2>3. Holds(a, q)'
      BY <1>2, <1>4, <2>1 DEF Holds, LaunchPcs, WorkPcs
    <2>4. ASSUME c.pc = "launch" PROVE Sound(q)'
      <3>1. q.pc = "validate"
        BY <2>1, <2>4
      <3>2. c.fresh => Launchable'
        BY <1>3, <1>5, <2>2, <2>4, PrefixFrame DEF Launchable, PrefixUntouched
      <3>3. Sound(q)'
        BY <2>1, <3>1, <3>2 DEF Sound, Ahead, Behind, LaunchPcs, WorkPcs
      <3> QED BY <3>3
    <2>5. ASSUME c.pc = "prepare" PROVE Sound(q)'
      <3>1. q.pc = "resolve"
        BY <2>1, <2>5
      <3>2. c.fresh => Offered(q.way, q.seen.pending)' /\ Prepares'
        <4> SUFFICES ASSUME c.fresh PROVE Offered(q.way, q.seen.pending)' /\ Prepares'
          OBVIOUS
        <4>1. Offered(q.way, q.seen.pending)
          BY <1>5, <2>1, <2>5
        <4>2. /\ Supports(q.seen.pending) <=> Supports(q.seen.pending)'
              /\ HostPrepares <=> HostPrepares'
          BY <1>3, RunnerFrame
        <4>3. Opens(q.way, q.seen.pending) <=> Opens(q.way, q.seen.pending)'
          BY <1>3, DiskFrame DEF PrefixUntouched
        <4>4. managed_unclaimed <=> managed_unclaimed'
          BY <1>3, PrefixFrame
        <4> QED BY <4>1, <4>2, <4>3, <4>4, <2>2 DEF Offered, Prepares
      <3>3. Sound(q)'
        BY <2>1, <3>1, <3>2 DEF Sound, Ahead, Behind, LaunchPcs, WorkPcs
      <3> QED BY <3>3
    <2>6. PrefixTyped' /\ DiskLawful'
      BY <1>3, PrefixFrame DEF CheckInv, CheckTyped, PrefixTyped, DiskLawful, Lawful, Rebuildable, PrefixUntouched
    <2> QED BY <1>2, <1>3, <1>8, <2>1, <2>3, <2>4, <2>5, <2>6, MovedKeeps
  <1>9. CASE UNCHANGED installed /\ GivesUp(a)
    BY <1>3, <1>9, GivesUpKeeps DEF surroundings
  <1> QED BY <1>6, <1>7, <1>8, <1>9

(* What recover_prefix_transaction leaves, where it does not refuse. *)
LEMMA RecoveryLeaves ==
    ASSUME CheckInv, ~RecoveryRefuses, RecoverDisk, UNCHANGED <<setting, selected>>
    PROVE  /\ PrefixTyped' /\ DiskLawful' /\ Recovered'
           /\ ~RecoveryReplaces => disk' = disk
           /\ RecoveryReplaces => managed' /\ ensure_managed_reset_allowed'
                                  /\ (disk'.data # "none" => HasManifest' \/ legacy_marker')
  <1>1. NoPrefix \in PrefixRecord /\ NoPrefix.data = "none" /\ NoPrefix.record.form = "none"
    BY DEF NoPrefix, NoRecord, PrefixRecord, RecordForms, RunnerNames
  <1>2. disk \in PrefixRecord /\ resetBackup \in PrefixRecord \cup {NoBackup}
    BY DEF CheckInv, CheckTyped
  <1>3. Restored \in PrefixRecord /\ Lawful(Restored) /\ (Restored = NoPrefix \/ Rebuildable(Restored))
    <2>1. Lawful(NoPrefix)
      BY <1>1 DEF Lawful
    <2> QED BY <1>1, <1>2, <2>1 DEF Restored, CheckInv, DiskLawful
  <1>4. pendingMark' = "none" /\ resetBackup' = NoBackup /\ disk' = IF RecoveryReplaces THEN Restored ELSE disk
    BY DEF RecoverDisk
  <1>5. disk' \in PrefixRecord /\ Lawful(disk)'
    BY <1>2, <1>3, <1>4 DEF Lawful, CheckInv, DiskLawful
  <1>6. RecoveryReplaces => managed
    BY DEF RecoveryReplaces, CheckInv, DiskLawful
  <1>7. setting'.place /\ (managed <=> managed')
    BY SelectedTyped DEF managed
  <1>8. RecoveryReplaces => managed' /\ ensure_managed_reset_allowed'
                           /\ (disk'.data # "none" => HasManifest' \/ legacy_marker')
    <2> SUFFICES ASSUME RecoveryReplaces PROVE <1>8!2
      OBVIOUS
    <2>1. disk'.data = "none" \/ Rebuildable(disk')
      BY <1>1, <1>3, <1>4
    <2> QED BY <1>6, <1>7, <2>1 DEF Rebuildable, ensure_managed_reset_allowed, HasManifest, legacy_marker, structure_ok
  <1> QED BY <1>4, <1>5, <1>7, <1>8 DEF PrefixTyped, DiskLawful, Recovered

(* An asker that waits for nothing it could be refused. *)
LEMMA RefusedKeeps ==
    ASSUME CheckInv, NEW a \in Askers, GoesOn(a, "refused"), UNCHANGED <<surroundings, prefixState, workedBy>>,
           request[a].fresh => request[a].way # "launch" /\ MayRefuse(request[a])
    PROVE  CheckInv'
  <1>1. PICK c \in RequestRecord : c = request[a]
    BY RequestTyped
  <1> DEFINE r == [c EXCEPT !.pc = "refused"]
  <1>2. /\ r \in RequestRecord /\ r.pc = "refused" /\ r.fresh = c.fresh /\ r.way = c.way /\ r.seen = c.seen
        /\ Steps(a, r)
    BY <1>1 DEF RequestRecord, GoesOn
  <1> HIDE DEF r
  <1>3. Holds(a, r) /\ Sound(r)
    BY <1>1, <1>2 DEF Holds, Sound, Ahead, Behind, MayRefuse, LaunchPcs, WorkPcs
  <1> QED BY <1>2, <1>3, UnmovedKeeps

LEMMA ResolveRecoveredContextKeeps ==
    ASSUME CheckInv, NEW a \in Askers, ResolveRecoveredContext(a)
    PROVE  CheckInv'
  <1>1. PICK c \in RequestRecord : c = request[a]
    BY RequestTyped
  <1>2. Sound(c) /\ Holds(a, c) /\ c.pc = "resolve"
    BY <1>1, RequestTyped DEF ResolveRecoveredContext, AskerAt
  <1>3. UNCHANGED <<surroundings, workedBy>>
    BY DEF ResolveRecoveredContext
  <1>4. c.way \in {"setup", "reset"}
    BY <1>2 DEF Holds
  <1>5. c.fresh => Offered(c.way, c.seen.pending) /\ Prepares
    BY <1>2 DEF Sound, Ahead
  <1> DEFINE decided == [c EXCEPT !.pc = "decide", !.eligible = Eligible']
  <1>6. \/ UNCHANGED prefixState /\ GivesUp(a)
        \/ RecoveryRefuses /\ UNCHANGED prefixState /\ GoesOn(a, "refused")
        \/ ~Busy /\ ~RecoveryRefuses /\ RecoverDisk /\ Steps(a, decided)
    BY <1>1, Zenon DEF ResolveRecoveredContext
  <1>7. CASE RecoveryRefuses /\ UNCHANGED prefixState /\ GoesOn(a, "refused")
    <2>1. pendingMark = "C"
      BY <1>7 DEF RecoveryRefuses, CheckInv, DiskLawful
    <2> QED BY <1>1, <1>3, <1>4, <1>7, <2>1, RefusedKeeps DEF MayRefuse
  <1>8. CASE ~Busy /\ ~RecoveryRefuses /\ RecoverDisk /\ Steps(a, decided)
    <2>1. Eligible' \in BOOLEAN
      BY DEF Eligible
    <2>2. /\ decided \in RequestRecord /\ decided.pc = "decide" /\ decided.fresh = c.fresh /\ decided.way = c.way
          /\ decided.seen = c.seen /\ decided.eligible = Eligible'
      BY <2>1 DEF RequestRecord
    <2> HIDE DEF decided
    <2>3. PICK q \in RequestRecord : /\ q = decided /\ q.pc = "decide" /\ q.fresh = c.fresh /\ q.way = c.way
                                     /\ q.seen = c.seen /\ q.eligible = Eligible'
      BY <2>2, Zenon
    <2>4. UNCHANGED <<setting, selected, hostState, game, installed>>
      BY <1>3 DEF surroundings
    <2>5. PrefixTyped' /\ DiskLawful' /\ Recovered'
      BY <1>8, <2>4, RecoveryLeaves
    <2>6. Holds(a, q)'
      BY <1>4, <2>3 DEF Holds, LaunchPcs, WorkPcs
    <2>7. Sound(q)'
      <3> SUFFICES ASSUME c.fresh PROVE Ahead(q)' /\ Behind(q)'
        BY <2>3 DEF Sound
      <3>1. Supports(q.seen.pending)' /\ Prepares'
        <4>1. (Supports(q.seen.pending) <=> Supports(q.seen.pending)') /\ (HostPrepares <=> HostPrepares')
          BY <2>4, RunnerFrame
        <4>2. Pending <=> Pending'
          BY <2>4 DEF Pending
        <4> QED BY <1>5, <2>3, <4>1, <4>2 DEF Offered, Prepares
      <3>2. Opens(q.way, q.seen.pending)'
        <4>1. CASE RecoveryReplaces
          <5>1. managed' /\ ensure_managed_reset_allowed'
            BY <1>8, <2>4, <4>1, RecoveryLeaves
          <5> QED BY <5>1 DEF Opens, foreign_custom, ensure_custom_setup_allowed
        <4>2. CASE ~RecoveryReplaces
          <5>1. disk' = disk
            BY <1>8, <2>4, <4>2, RecoveryLeaves
          <5>2. Opens(q.way, q.seen.pending) <=> Opens(q.way, q.seen.pending)'
            BY <2>4, <5>1, DiskFrame
          <5> QED BY <1>5, <2>3, <5>2 DEF Offered
        <4> QED BY <4>1, <4>2
      <3>3. q.way = "setup" => Claimed'
        <4> SUFFICES ASSUME q.way = "setup", managed', disk'.data # "none" PROVE HasManifest' \/ legacy_marker'
          BY DEF Claimed
        <4>1. CASE RecoveryReplaces
          BY <1>8, <2>4, <4>1, RecoveryLeaves
        <4>2. CASE ~RecoveryReplaces
          <5>1. disk' = disk
            BY <1>8, <2>4, <4>2, RecoveryLeaves
          <5>2. ~managed_unclaimed
            BY <1>5, <2>3 DEF Offered
          <5>3. ~provisioning
            BY <1>8, <4>2 DEF provisioning, RecoveryReplaces, Committed
          <5> QED BY <2>4, <5>1, <5>2, <5>3, DiskFrame DEF managed_unclaimed
        <4> QED BY <4>1, <4>2
      <3> QED BY <2>3, <2>5, <3>1, <3>2, <3>3 DEF Ahead, Behind, LaunchPcs, WorkPcs
    <2>8. \A k \in Askers \ {a} : request[k].pc \notin WorkPcs \cup {"playing"}
      BY <1>8, NobodyBusy
    <2>9. Steps(a, q) /\ installed' \in BOOLEAN
      BY <1>8, <2>3, <2>4 DEF CheckInv, CheckTyped
    <2> QED BY <2>3, <2>4, <2>5, <2>6, <2>7, <2>8, <2>9, MovedKeeps
  <1> QED BY <1>3, <1>6, <1>7, <1>8, GivesUpKeeps

(* After a recovery nothing is left to recover. *)
LEMMA NothingToRecover == ASSUME Recovered PROVE ~RecoveryRefuses /\ ~RecoveryReplaces
  BY DEF Recovered, RecoveryRefuses, RecoveryReplaces

LEMMA RecoverBeforeKeeps ==
    ASSUME CheckInv, NEW a \in Askers, RecoverBefore(a)
    PROVE  CheckInv'
  <1>1. PICK c \in RequestRecord : c = request[a]
    BY RequestTyped
  <1>2. Sound(c) /\ Holds(a, c) /\ c.pc = "recover"
    BY <1>1, RequestTyped DEF RecoverBefore, AskerAt
  <1>3. UNCHANGED <<surroundings, workedBy>>
    BY DEF RecoverBefore
  <1>4. c.way \in {"setup", "reset"} /\ (c.way = "reset" => managed)
    BY <1>2 DEF Holds
  <1>5. c.fresh => /\ Prepares /\ Recovered /\ Supports(FALSE) /\ MayWork(c.way) /\ c.eligible
                   /\ ~RecoveryRefuses /\ ~RecoveryReplaces
    BY <1>2, NothingToRecover DEF Sound, Ahead
  <1> DEFINE refuses == RecoveryReplaces /\ c.way = "setup"
             next == [c EXCEPT !.pc = IF refuses THEN "refused" ELSE "work"]
  <1>6. \/ UNCHANGED prefixState /\ GivesUp(a)
        \/ RecoveryRefuses /\ UNCHANGED prefixState /\ GoesOn(a, "refused")
        \/ ~Busy /\ ~RecoveryRefuses /\ RecoverDisk /\ Steps(a, next)
    BY <1>1, Zenon DEF RecoverBefore, GoesOn
  <1>7. CASE RecoveryRefuses /\ UNCHANGED prefixState /\ GoesOn(a, "refused")
    BY <1>1, <1>3, <1>5, <1>7, RefusedKeeps
  <1>8. CASE ~Busy /\ ~RecoveryRefuses /\ RecoverDisk /\ Steps(a, next)
    <2>1. /\ next \in RequestRecord /\ next.pc = (IF refuses THEN "refused" ELSE "work") /\ next.fresh = c.fresh
          /\ next.way = c.way /\ next.eligible = c.eligible
      BY DEF RequestRecord
    <2> HIDE DEF next
    <2>2. PICK q \in RequestRecord : /\ q = next /\ q.pc = (IF refuses THEN "refused" ELSE "work")
                                     /\ q.fresh = c.fresh /\ q.way = c.way /\ q.eligible = c.eligible
      BY <2>1, Zenon
    <2>3. UNCHANGED <<setting, selected, hostState, game, installed>>
      BY <1>3 DEF surroundings
    <2>4. PrefixTyped' /\ DiskLawful'
      BY <1>8, <2>3, RecoveryLeaves
    <2>5. Holds(a, q)'
      BY <1>4, <2>2, <2>3, RunnerFrame DEF Holds, LaunchPcs, WorkPcs
    <2>6. Sound(q)'
      <3> SUFFICES ASSUME c.fresh PROVE Ahead(q)' /\ Behind(q)'
        BY <2>2 DEF Sound
      <3>1. PrefixUntouched
        <4>1. pendingMark' = "none" /\ resetBackup' = NoBackup /\ disk' = disk
          BY <1>5, <1>8 DEF RecoverDisk
        <4> QED BY <1>5, <2>3, <4>1 DEF PrefixUntouched, Recovered
      <3>2. Untouched
        BY <2>3, <3>1 DEF Untouched
      <3>3. Prepares' /\ Recovered'
        BY <1>5, <3>1, <3>2, HostFrame DEF Prepares, Recovered, PrefixUntouched
      <3>4. Supports(FALSE)'
        BY <1>5, <2>3, RunnerFrame
      <3>5. MayWork(q.way)'
        <4>1. game' = game
          BY <2>3
        <4> QED BY <1>5, <2>2, <3>1, <4>1, PrefixFrame DEF MayWork
      <3>6. q.pc = "work"
        BY <1>5, <2>2
      <3> QED BY <1>5, <2>2, <3>3, <3>4, <3>5, <3>6 DEF Ahead, Behind, LaunchPcs, WorkPcs
    <2>7. \A k \in Askers \ {a} : request[k].pc \notin WorkPcs \cup {"playing"}
      BY <1>8, NobodyBusy
    <2>8. Steps(a, q) /\ installed' \in BOOLEAN
      BY <1>8, <2>2, <2>3 DEF CheckInv, CheckTyped
    <2> QED BY <2>2, <2>3, <2>4, <2>5, <2>6, <2>7, <2>8, MovedKeeps
  <1> QED BY <1>3, <1>6, <1>7, <1>8, GivesUpKeeps

LEMMA BeginWorkKeeps ==
    ASSUME CheckInv, NEW a \in Askers, BeginWork(a)
    PROVE  CheckInv'
  <1>1. PICK c \in RequestRecord : c = request[a]
    BY RequestTyped
  <1>2. Sound(c) /\ Holds(a, c) /\ c.pc = "work"
    BY <1>1, RequestTyped DEF BeginWork, AskerAt
  <1>3. UNCHANGED <<setting, selected, hostState, game, installed>> /\ UNCHANGED surroundings
    BY DEF BeginWork, surroundings
  <1>4. c.way \in {"setup", "reset"} /\ (c.way = "reset" => managed)
    BY <1>2 DEF Holds
  <1>5. c.fresh => /\ Prepares /\ Recovered /\ Supports(FALSE) /\ MayWork(c.way) /\ c.eligible
                   /\ ~RecoveryRefuses /\ ~RecoveryReplaces
    BY <1>2, NothingToRecover DEF Sound, Ahead
  <1> DEFINE transaction == c.way = "reset" \/ (managed /\ disk.data = "none")
             begun == [c EXCEPT !.pc = "initialize", !.way = IF transaction THEN "transaction" ELSE "repair"]
             replaced == /\ resetBackup' = (IF disk.data = "none" THEN NoBackup ELSE disk)
                         /\ disk' = [NoPrefix EXCEPT !.data = "bare"] /\ pendingMark' = "P"
  <1>6. \/ UNCHANGED <<prefixState, workedBy>> /\ GivesUp(a)
        \/ /\ ~c.eligible \/ ~MayWork(c.way)
           /\ UNCHANGED <<prefixState, workedBy>> /\ GoesOn(a, "refused")
        \/ ~Busy /\ MayWork(c.way) /\ RecoveryReplaces /\ RecoverDisk /\ UNCHANGED workedBy /\ GoesOn(a, "refused")
        \/ /\ ~Busy /\ MayWork(c.way) /\ ~RecoveryReplaces /\ workedBy' = a /\ Steps(a, begun)
           /\ IF transaction THEN replaced ELSE RecoverDisk
    BY <1>1, Zenon DEF BeginWork
  <1>7. CASE /\ ~c.eligible \/ ~MayWork(c.way)
             /\ UNCHANGED <<prefixState, workedBy>> /\ GoesOn(a, "refused")
    BY <1>1, <1>3, <1>5, <1>7, RefusedKeeps
  <1>8. CASE ~Busy /\ RecoveryReplaces /\ RecoverDisk /\ UNCHANGED workedBy /\ GoesOn(a, "refused")
    <2> DEFINE refused == [c EXCEPT !.pc = "refused"]
    <2>1. refused \in RequestRecord /\ refused.pc = "refused" /\ refused.fresh = c.fresh
      BY DEF RequestRecord
    <2>2. Steps(a, refused)
      BY <1>1, <1>8 DEF GoesOn
    <2> HIDE DEF refused
    <2>3. PICK q \in RequestRecord : q = refused /\ q.pc = "refused" /\ ~q.fresh
      BY <1>5, <1>8, <2>1
    <2>4. Holds(a, q)' /\ Sound(q)'
      BY <2>3 DEF Holds, Sound, LaunchPcs, WorkPcs
    <2>5. PrefixTyped' /\ DiskLawful'
      BY <1>3, <1>8, RecoveryLeaves DEF RecoveryReplaces
    <2>6. \A k \in Askers \ {a} : request[k].pc \notin WorkPcs \cup {"playing"}
      BY <1>8, NobodyBusy
    <2>7. Steps(a, q) /\ installed' \in BOOLEAN
      BY <1>3, <2>2, <2>3 DEF CheckInv, CheckTyped
    <2> QED BY <1>3, <2>3, <2>4, <2>5, <2>6, <2>7, MovedKeeps
  <1>9. CASE /\ ~Busy /\ MayWork(c.way) /\ ~RecoveryReplaces /\ workedBy' = a /\ Steps(a, begun)
             /\ IF transaction THEN replaced ELSE RecoverDisk
    <2>1. /\ begun \in RequestRecord /\ begun.pc = "initialize" /\ begun.fresh = c.fresh
          /\ begun.way = IF transaction THEN "transaction" ELSE "repair"
      BY DEF RequestRecord, WorkPcs
    <2>2. Steps(a, begun)
      BY <1>9
    <2> HIDE DEF begun
    <2>3. PICK q \in RequestRecord : /\ q = begun /\ q.pc = "initialize" /\ q.fresh = c.fresh
                                     /\ q.way = IF transaction THEN "transaction" ELSE "repair"
      BY <2>1, Zenon
    <2>4. \A k \in Askers \ {a} : request[k].pc \notin WorkPcs \cup {"playing"}
      BY <1>9, NobodyBusy
    <2>5. Steps(a, q) /\ installed' \in BOOLEAN
      BY <1>3, <2>2, <2>3 DEF CheckInv, CheckTyped
    <2>6. Sound(q)'
      <3> SUFFICES ASSUME c.fresh PROVE Ahead(q)' /\ Behind(q)'
        BY <2>3 DEF Sound
      <3>1. Prepares' /\ runner_vkd3d_ok'
        <4>1. (HostPrepares <=> HostPrepares') /\ (runner_vkd3d_ok <=> runner_vkd3d_ok')
          BY <1>3, RunnerFrame
        <4>2. Pending <=> Pending'
          BY <1>3 DEF Pending
        <4> QED BY <1>5, <4>1, <4>2 DEF Prepares, Supports
      <3> QED BY <2>3, <3>1 DEF Ahead, Behind, LaunchPcs, WorkPcs
    <2>7. managed <=> managed'
      BY <1>3 DEF managed
    <2>8. ASSUME transaction PROVE PrefixTyped' /\ DiskLawful' /\ Holds(a, q)'
      <3>1. managed /\ ensure_managed_reset_allowed
        BY <1>4, <1>9, <2>8 DEF MayWork
      <3>2. replaced
        BY <1>9, <2>8
      <3>3. disk' \in PrefixRecord /\ disk'.data = "bare" /\ disk'.record.form = "none"
        BY <3>2 DEF NoPrefix, NoRecord, PrefixRecord, RecordForms, RunnerNames
      <3>4. disk.data # "none" => Rebuildable(disk)
        BY <3>1 DEF ensure_managed_reset_allowed, Rebuildable, HasManifest, legacy_marker, structure_ok
      <3>5. PrefixTyped'
        BY <3>2, <3>3 DEF PrefixTyped, CheckInv, CheckTyped
      <3>6. DiskLawful'
        <4>1. Lawful(disk)'
          BY <3>3 DEF Lawful
        <4>2. resetBackup' # NoBackup => resetBackup' = disk /\ Rebuildable(disk)
          BY <3>2, <3>4
        <4>3. Lawful(disk)
          BY DEF CheckInv, DiskLawful
        <4>4. (resetBackup # NoBackup => Lawful(resetBackup) /\ Rebuildable(resetBackup))'
          BY <1>3, <4>2, <4>3 DEF Lawful, Rebuildable
        <4> QED BY <2>7, <3>1, <3>2, <4>1, <4>4 DEF DiskLawful
      <3>7. Holds(a, q)'
        BY <1>9, <2>3, <2>7, <2>8, <3>1, <3>2, <3>3 DEF Holds, LaunchPcs, WorkPcs
      <3> QED BY <3>5, <3>6, <3>7
    <2>9. ASSUME ~transaction PROVE PrefixTyped' /\ DiskLawful' /\ Holds(a, q)'
      <3>1. RecoverDisk
        BY <1>9, <2>9
      <3>2. ~RecoveryRefuses
        <4>1. CASE managed
          BY <1>9, <4>1 DEF MayWork
        <4>2. CASE ~managed
          BY <4>2, NothingToRecover DEF CheckInv, DiskLawful, Recovered
        <4> QED BY <4>1, <4>2
      <3>3. PrefixTyped' /\ DiskLawful' /\ Recovered'
        BY <1>3, <3>1, <3>2, RecoveryLeaves
      <3>4. Holds(a, q)'
        BY <1>9, <2>3, <2>9, <3>3 DEF Holds, LaunchPcs, WorkPcs, Recovered
      <3> QED BY <3>3, <3>4
    <2> QED BY <1>3, <2>3, <2>4, <2>5, <2>6, <2>8, <2>9, MovedKeeps
  <1> QED BY <1>3, <1>6, <1>7, <1>8, <1>9, GivesUpKeeps

(* ------------------------------- at work --------------------------------- *)

WorkNext == {"graphics", "components", "revoke", "commit", "clean"}
RecordedWell(d) ==
    /\ d.record.form \in {"v2", "v3"} /\ d.record.here /\ d.record.runner = selected.name
    /\ GraphicsComponent(selected) \in d.record.parts

LEMMA WorkStepKeeps ==
    ASSUME CheckInv, NEW a \in Askers, NEW from \in WorkPcs, NEW next \in WorkNext, NEW d \in PrefixRecord,
           WorkStep(a, from, next, d), Lawful(d),
           next = "revoke" => request[a].way = "transaction",
           d.data = disk.data \/ pendingMark # "none" \/ resetBackup = NoBackup,
           request[a].fresh => d.data = "whole" /\ (next = "clean" => RecordedWell(d))
    PROVE  CheckInv'
  <1>1. PICK c \in RequestRecord : c = request[a]
    BY RequestTyped
  <1>2. Sound(c) /\ Holds(a, c) /\ c.pc = from
    BY <1>1, RequestTyped DEF WorkStep, AskerAt
  <1>3. /\ UNCHANGED <<setting, selected, hostState, game, installed>> /\ disk' = d
        /\ UNCHANGED <<pendingMark, resetBackup, workedBy>>
    BY DEF WorkStep, surroundings
  <1> DEFINE r == [c EXCEPT !.pc = next]
  <1>4. r \in RequestRecord /\ r.pc = next /\ r.way = c.way /\ r.fresh = c.fresh /\ Steps(a, r)
    BY <1>1 DEF RequestRecord, WorkNext, WorkPcs, WorkStep, GoesOn
  <1> HIDE DEF r
  <1>5. PICK q \in RequestRecord : q = r /\ q.pc = next /\ q.way = c.way /\ q.fresh = c.fresh
    BY <1>4
  <1>6. workedBy = a /\ c.way \in {"transaction", "repair"}
    BY <1>2 DEF Holds
  <1>7. \A k \in Askers \ {a} : request[k].pc \notin WorkPcs \cup {"playing"}
    BY <1>6, AloneAtWork
  <1>8. Holds(a, q)'
    <2>1. managed <=> managed'
      BY <1>3 DEF managed
    <2>2. /\ c.way = "transaction" => managed
          /\ c.way = "repair" => pendingMark = "none" /\ resetBackup = NoBackup
      BY <1>2 DEF Holds
    <2> QED BY <1>1, <1>3, <1>5, <1>6, <2>1, <2>2 DEF Holds, LaunchPcs, WorkPcs, WorkNext
  <1>9. Sound(q)'
    <2> SUFFICES ASSUME c.fresh PROVE Ahead(q)' /\ Behind(q)'
      BY <1>5 DEF Sound
    <2>1. Prepares /\ runner_vkd3d_ok
      BY <1>2 DEF Sound, Ahead, Behind
    <2>2. Prepares' /\ runner_vkd3d_ok'
      <3>1. (HostPrepares <=> HostPrepares') /\ (runner_vkd3d_ok <=> runner_vkd3d_ok')
        BY <1>3, RunnerFrame
      <3> QED BY <1>3, <2>1, <3>1 DEF Prepares, Pending
    <2>3. disk'.data = "whole"
      BY <1>1, <1>3
    <2>4. next = "clean" => WellRecorded'
      BY <1>1, <1>3 DEF WellRecorded, RecordedWell, HasManifest
    <2> QED BY <1>5, <2>2, <2>3, <2>4 DEF Ahead, Behind, LaunchPcs, WorkPcs, WorkNext
  <1>10. PrefixTyped'
    BY <1>3 DEF PrefixTyped, CheckInv, CheckTyped
  <1>11. DiskLawful'
    BY <1>3 DEF CheckInv, DiskLawful, Lawful, Rebuildable, managed
  <1>12. Steps(a, q) /\ installed' \in BOOLEAN
    BY <1>3, <1>4, <1>5 DEF CheckInv, CheckTyped
  <1> QED BY <1>3, <1>5, <1>7, <1>8, <1>9, <1>10, <1>11, <1>12, MovedKeeps

(* What a request at work knows of the prefix. *)
LEMMA AtWork ==
    ASSUME CheckInv, NEW a \in Askers, request[a].pc \in WorkPcs
    PROVE  /\ workedBy = a /\ disk \in PrefixRecord /\ Lawful(disk)
           /\ request[a].pc # "initialize" /\ request[a].fresh => disk.data = "whole"
           /\ request[a].pc = "initialize" => pendingMark # "none" \/ resetBackup = NoBackup
  BY RequestTyped DEF CheckInv, CheckTyped, DiskLawful, Holds, Sound, Behind

LEMMA InitializePrefixKeeps ==
    ASSUME CheckInv, NEW a \in Askers, InitializePrefix(a)
    PROVE  CheckInv'
  <1> DEFINE d == [disk EXCEPT !.data = "whole"]
  <1>1. WorkStep(a, "initialize", "graphics", d) /\ request[a].pc = "initialize"
    BY DEF InitializePrefix, WorkStep, AskerAt
  <1>2. disk \in PrefixRecord /\ Lawful(disk) /\ (pendingMark # "none" \/ resetBackup = NoBackup)
    BY <1>1, AtWork DEF WorkPcs
  <1>3. d \in PrefixRecord /\ d.data = "whole" /\ d.record = disk.record
    BY <1>2 DEF PrefixRecord
  <1> HIDE DEF d
  <1>4. Lawful(d)
    BY <1>2, <1>3 DEF Lawful
  <1>5. "initialize" \in WorkPcs /\ "graphics" \in WorkNext /\ "graphics" # "revoke" /\ "graphics" # "clean"
    BY DEF WorkPcs, WorkNext
  <1> QED BY <1>1, <1>2, <1>3, <1>4, <1>5, WorkStepKeeps

(* Another component in the prefix. *)
LEMMA HasMore ==
    ASSUME CheckInv, NEW a \in Askers, NEW from \in WorkPcs \ {"initialize"}, NEW next \in WorkNext \ {"clean"}, NEW d,
           WorkStep(a, from, next, d),
           d = disk \/ \E x \in {"dxvk", "webview2"} : d = [disk EXCEPT !.has = @ \union {x}],
           next = "revoke" => request[a].way = "transaction"
    PROVE  CheckInv'
  <1>1. request[a].pc = from
    BY DEF WorkStep, AskerAt
  <1>2. disk \in PrefixRecord /\ Lawful(disk) /\ (request[a].fresh => disk.data = "whole")
    BY <1>1, AtWork
  <1>3. d \in PrefixRecord /\ d.data = disk.data /\ d.record = disk.record
    BY <1>2 DEF PrefixRecord
  <1>4. Lawful(d)
    BY <1>2, <1>3 DEF Lawful
  <1> QED BY <1>2, <1>3, <1>4, WorkStepKeeps

LEMMA InstallGraphicsKeeps ==
    ASSUME CheckInv, NEW a \in Askers, InstallGraphics(a)
    PROVE  CheckInv'
  <1> DEFINE d == IF IsWine(selected) THEN [disk EXCEPT !.has = @ \union {"dxvk"}] ELSE disk
  <1>1. WorkStep(a, "graphics", "components", d)
    BY DEF InstallGraphics
  <1>2. "graphics" \in WorkPcs \ {"initialize"} /\ "components" \in WorkNext \ {"clean"} /\ "components" # "revoke"
    BY DEF WorkPcs, WorkNext
  <1>3. d = disk \/ \E x \in {"dxvk", "webview2"} : d = [disk EXCEPT !.has = @ \union {x}]
    OBVIOUS
  <1> HIDE DEF d
  <1> QED BY <1>1, <1>2, <1>3, HasMore

LEMMA InstallComponentsKeeps ==
    ASSUME CheckInv, NEW a \in Askers, InstallComponents(a)
    PROVE  CheckInv'
  <1> DEFINE next == IF AskerAt(a, "components") /\ request[a].way = "transaction" THEN "revoke" ELSE "commit"
             more == [disk EXCEPT !.has = @ \union {"webview2"}]
  <1>1. \/ WorkStep(a, "components", next, IF setting.webview2 THEN more ELSE disk)
        \/ WorkStep(a, "components", next, disk)
    BY Zenon DEF InstallComponents
  <1>2. "components" \in WorkPcs \ {"initialize"} /\ next \in WorkNext \ {"clean"}
        /\ (next = "revoke" => request[a].way = "transaction")
    BY DEF WorkPcs, WorkNext
  <1>3. more = disk \/ \E x \in {"dxvk", "webview2"} : more = [disk EXCEPT !.has = @ \union {x}]
    OBVIOUS
  <1>4. WorkStep(a, "components", next, more) \/ WorkStep(a, "components", next, disk)
    BY <1>1, Zenon
  <1> HIDE DEF next, more
  <1>5. CASE WorkStep(a, "components", next, more)
    BY <1>2, <1>3, <1>5, HasMore
  <1>6. CASE WorkStep(a, "components", next, disk)
    BY <1>2, <1>6, HasMore
  <1> QED BY <1>4, <1>5, <1>6

LEMMA WriteRuntimeManifestKeeps ==
    ASSUME CheckInv, NEW a \in Askers, WriteRuntimeManifest(a)
    PROVE  CheckInv'
  <1> DEFINE form == IF setting.scope = "isolated" THEN "v3" ELSE "v2"
             parts == {GraphicsComponent(selected)} \union (IF setting.webview2 THEN {"webview2"} ELSE {})
             record == [form |-> form, here |-> TRUE, runner |-> selected.name, parts |-> parts]
             d == [disk EXCEPT !.record = record]
  <1>1. WorkStep(a, "commit", "clean", d) /\ request[a].pc = "commit"
    BY Zenon DEF WriteRuntimeManifest, WorkStep, AskerAt
  <1>2. disk \in PrefixRecord /\ (request[a].fresh => disk.data = "whole")
    BY <1>1, AtWork DEF WorkPcs
  <1>3. parts \in SUBSET {"dxvk", "dxvk-2.6.2", "webview2"} /\ GraphicsComponent(selected) \in parts
    BY DEF GraphicsComponent
  <1>4. selected.name \in RunnerNames
    BY DEF CheckInv, CheckTyped, RunnerNames
  <1> HIDE DEF parts
  <1>5. record \in [form : RecordForms, here : BOOLEAN, runner : RunnerNames, parts : SUBSET {"dxvk", "dxvk-2.6.2", "webview2"}]
    BY <1>3, <1>4 DEF RecordForms
  <1>6. record.form = form /\ record.here = TRUE /\ record.runner = selected.name /\ record.parts = parts
    OBVIOUS
  <1> HIDE DEF record
  <1>7. d \in PrefixRecord /\ d.data = disk.data /\ d.record = record
    BY <1>2, <1>5 DEF PrefixRecord
  <1> HIDE DEF d
  <1>8. Lawful(d)
    BY <1>6, <1>7 DEF Lawful
  <1>9. RecordedWell(d)
    BY <1>3, <1>6, <1>7 DEF RecordedWell
  <1>10. "commit" \in WorkPcs /\ "clean" \in WorkNext /\ "clean" # "revoke"
    BY DEF WorkPcs, WorkNext
  <1> QED BY <1>1, <1>2, <1>7, <1>8, <1>9, <1>10, WorkStepKeeps

LEMMA RevokeRollbackKeeps ==
    ASSUME CheckInv, NEW a \in Askers, RevokeRollback(a)
    PROVE  CheckInv'
  <1>1. PICK c \in RequestRecord : c = request[a]
    BY RequestTyped
  <1>2. Sound(c) /\ Holds(a, c) /\ c.pc = "revoke"
    BY <1>1, RequestTyped DEF RevokeRollback, AskerAt
  <1>3. /\ UNCHANGED <<setting, selected, hostState, game, installed>>
        /\ UNCHANGED <<disk, resetBackup, workedBy>> /\ pendingMark' = "C"
    BY DEF RevokeRollback, surroundings
  <1> DEFINE r == [c EXCEPT !.pc = "commit"]
  <1>4. r \in RequestRecord /\ r.pc = "commit" /\ r.way = c.way /\ r.fresh = c.fresh /\ Steps(a, r)
    BY <1>1 DEF RequestRecord, WorkPcs, RevokeRollback, GoesOn
  <1> HIDE DEF r
  <1>5. PICK q \in RequestRecord : q = r /\ q.pc = "commit" /\ q.way = c.way /\ q.fresh = c.fresh
    BY <1>4
  <1>6. workedBy = a /\ c.way = "transaction" /\ managed
    BY <1>2 DEF Holds, WorkPcs
  <1>7. \A k \in Askers \ {a} : request[k].pc \notin WorkPcs \cup {"playing"}
    BY <1>6, AloneAtWork
  <1>8. managed <=> managed'
    BY <1>3 DEF managed
  <1>9. Holds(a, q)'
    BY <1>3, <1>5, <1>6, <1>8 DEF Holds, LaunchPcs, WorkPcs
  <1>10. Sound(q)'
    <2> SUFFICES ASSUME c.fresh PROVE Ahead(q)' /\ Behind(q)'
      BY <1>5 DEF Sound
    <2>1. Prepares /\ runner_vkd3d_ok /\ disk.data = "whole"
      BY <1>2 DEF Sound, Ahead, Behind, WorkPcs
    <2>2. Prepares' /\ runner_vkd3d_ok'
      <3>1. (HostPrepares <=> HostPrepares') /\ (runner_vkd3d_ok <=> runner_vkd3d_ok')
        BY <1>3, RunnerFrame
      <3> QED BY <1>3, <2>1, <3>1 DEF Prepares, Pending
    <2> QED BY <1>3, <1>5, <2>1, <2>2 DEF Ahead, Behind, LaunchPcs, WorkPcs
  <1>11. PrefixTyped'
    BY <1>3 DEF PrefixTyped, CheckInv, CheckTyped
  <1>12. DiskLawful'
    BY <1>3, <1>6, <1>8 DEF CheckInv, DiskLawful, Lawful, Rebuildable
  <1>13. Steps(a, q) /\ installed' \in BOOLEAN
    BY <1>3, <1>4, <1>5 DEF CheckInv, CheckTyped
  <1> QED BY <1>3, <1>5, <1>7, <1>9, <1>10, <1>11, <1>12, <1>13, MovedKeeps

(* Whose guard goes with its request. *)
LEMMA LeftKeeps ==
    ASSUME CheckInv, NEW a \in Askers, GivesUp(a), workedBy = a, PrefixTyped', DiskLawful', UNCHANGED surroundings
    PROVE  CheckInv'
  <1>1. \A k \in Askers \ {a} : request[k].pc \notin WorkPcs \cup {"playing"}
    BY AloneAtWork
  <1>2. NoRequest \in RequestRecord /\ Holds(a, NoRequest)' /\ Sound(NoRequest)'
    BY NoRequestIsSound, NoRequestStaysSound
  <1>3. PICK q \in RequestRecord : q = NoRequest
    BY <1>2
  <1>4. Holds(a, q)' /\ Sound(q)' /\ Steps(a, q)
    BY <1>2, <1>3 DEF GivesUp
  <1>5. UNCHANGED <<setting, selected, hostState, game>> /\ installed' \in BOOLEAN
    BY DEF surroundings, CheckInv, CheckTyped
  <1> QED BY <1>1, <1>4, <1>5, MovedKeeps

LEMMA EndWorkKeeps ==
    ASSUME CheckInv, NEW a \in Askers, EndWork(a)
    PROVE  CheckInv'
  <1>1. PICK c \in RequestRecord : c = request[a]
    BY RequestTyped
  <1>2. Sound(c) /\ Holds(a, c) /\ c.pc = "clean"
    BY <1>1, RequestTyped DEF EndWork, AskerAt
  <1>3. /\ UNCHANGED <<setting, selected, hostState, game, installed, disk>> /\ UNCHANGED surroundings
        /\ (pendingMark' = "none" /\ resetBackup' = NoBackup) \/ UNCHANGED <<pendingMark, resetBackup>>
    BY DEF EndWork, surroundings
  <1>4. workedBy = a
    BY <1>2 DEF Holds, WorkPcs
  <1>5. PrefixTyped'
    BY <1>3 DEF PrefixTyped, CheckInv, CheckTyped
  <1>6. DiskLawful'
    BY <1>3 DEF CheckInv, DiskLawful, Lawful, Rebuildable, managed
  <1>7. CASE GivesUp(a)
    BY <1>3, <1>4, <1>5, <1>6, <1>7, LeftKeeps
  <1>8. CASE GoesOn(a, "prepared")
    <2> DEFINE r == [c EXCEPT !.pc = "prepared"]
    <2>1. r \in RequestRecord /\ r.pc = "prepared" /\ r.fresh = c.fresh /\ Steps(a, r)
      BY <1>1, <1>8 DEF RequestRecord, GoesOn
    <2> HIDE DEF r
    <2>2. PICK q \in RequestRecord : q = r /\ q.pc = "prepared" /\ q.fresh = c.fresh
      BY <2>1
    <2>3. \A k \in Askers \ {a} : request[k].pc \notin WorkPcs \cup {"playing"}
      BY <1>4, AloneAtWork
    <2>4. Holds(a, q)'
      BY <2>2 DEF Holds, LaunchPcs, WorkPcs
    <2>5. Sound(q)'
      <3> SUFFICES ASSUME c.fresh PROVE Ahead(q)' /\ Behind(q)'
        BY <2>2 DEF Sound
      <3>1. Prepares /\ runner_vkd3d_ok /\ disk.data = "whole" /\ WellRecorded
        BY <1>2 DEF Sound, Ahead, Behind, WorkPcs
      <3>2. Prepares' /\ runner_vkd3d_ok'
        <4>1. (HostPrepares <=> HostPrepares') /\ (runner_vkd3d_ok <=> runner_vkd3d_ok')
          BY <1>3, RunnerFrame
        <4> QED BY <1>3, <3>1, <4>1 DEF Prepares, Pending
      <3>3. WellRecorded' /\ disk'.data = "whole"
        BY <1>3, <3>1 DEF WellRecorded, HasManifest
      <3> QED BY <2>2, <3>2, <3>3 DEF Ahead, Behind, LaunchPcs, WorkPcs
    <2>6. Steps(a, q) /\ installed' \in BOOLEAN
      BY <1>3, <2>1, <2>2 DEF CheckInv, CheckTyped
    <2> QED BY <1>3, <1>5, <1>6, <2>2, <2>3, <2>4, <2>5, <2>6, MovedKeeps
  <1> QED BY <1>7, <1>8 DEF EndWork

LEMMA WorkFailsKeeps ==
    ASSUME CheckInv, NEW a \in Askers, WorkFails(a)
    PROVE  CheckInv'
  <1>1. request[a].pc \in WorkPcs /\ GivesUp(a) /\ UNCHANGED surroundings
    BY DEF WorkFails, WorkPcs
  <1>2. workedBy = a
    BY <1>1, AtWork
  <1>3. UNCHANGED <<setting, selected>> /\ (managed <=> managed')
    BY <1>1 DEF surroundings, managed
  <1>4. \/ disk' = Restored /\ pendingMark' = "none" /\ resetBackup' = NoBackup
        \/ UNCHANGED <<disk, pendingMark, resetBackup>>
    BY DEF WorkFails, prefixState
  <1>5. Restored \in PrefixRecord /\ Lawful(Restored)
    <2>1. NoPrefix \in PrefixRecord /\ Lawful(NoPrefix)
      BY DEF NoPrefix, NoRecord, PrefixRecord, RecordForms, RunnerNames, Lawful
    <2> QED BY <2>1 DEF Restored, CheckInv, CheckTyped, DiskLawful
  <1>6. PrefixTyped'
    BY <1>4, <1>5 DEF PrefixTyped, CheckInv, CheckTyped
  <1>7. DiskLawful'
    BY <1>3, <1>4, <1>5 DEF CheckInv, DiskLawful, Lawful, Rebuildable
  <1> QED BY <1>1, <1>2, <1>6, <1>7, LeftKeeps

(* ------------------- the user, the launcher and the start ---------------- *)

LEMMA UserActsKeeps == ASSUME CheckInv, UserActs PROVE CheckInv'
  <1>1. /\ UNCHANGED <<setting, game, resetBackup, workedBy>> /\ (managed <=> managed')
        /\ request' = [a \in Askers |-> IF AskerAt(a, "idle") THEN request[a] ELSE Changes(a)]
    BY DEF UserActs, managed
  <1>2. ASSUME NEW a \in Askers
        PROVE  /\ request'[a] \in RequestRecord /\ request'[a].pc = request[a].pc /\ request'[a].way = request[a].way
               /\ request[a].pc # "idle" => request'[a].touched = TRUE /\ request'[a].fresh = FALSE
    <2>1. request[a] \in RequestRecord
      BY RequestTyped
    <2>2. CASE request[a].pc = "idle"
      BY <1>1, <2>1, <2>2 DEF AskerAt
    <2>3. CASE request[a].pc # "idle"
      <3>1. request'[a] = [request[a] EXCEPT !.fresh = FALSE, !.touched = TRUE]
        BY <1>1, <2>3 DEF AskerAt, Changes
      <3> QED BY <2>1, <3>1 DEF RequestRecord
    <2> QED BY <2>2, <2>3
  <1>3. /\ selected' \in Runners /\ selected'.name = selected.name /\ installed' \in BOOLEAN
        /\ hostState' \in {"ok", "tools", "broken"}
    <2>1. \/ hostState' \in {"ok", "tools", "broken"} \ {hostState} /\ UNCHANGED <<installed, selected>>
          \/ installed' = ~installed /\ UNCHANGED <<hostState, selected>>
          \/ selected' \in {r \in Runners \ {selected} : r.name = selected.name} /\ UNCHANGED <<hostState, installed>>
          \/ UNCHANGED <<hostState, installed, selected>>
      BY DEF UserActs
    <2> QED BY <2>1 DEF CheckInv, CheckTyped
  <1>4. \/ UNCHANGED <<disk, pendingMark>>
        \/ /\ disk.data = "whole" /\ disk' \in Damage(disk)
           /\ pendingMark' = IF disk' = NoPrefix THEN "none" ELSE pendingMark
    BY DEF UserActs
  <1>5. disk \in PrefixRecord /\ pendingMark \in {"none", "P", "C"} /\ Lawful(disk)
    BY DEF CheckInv, CheckTyped, DiskLawful
  <1>6. disk.data = "whole" /\ disk' \in Damage(disk) =>
            /\ disk' \in PrefixRecord
            /\ disk'.record.form \in {"none", "damaged"} \/ disk'.record = disk.record
            /\ disk' = NoPrefix => disk'.data = "none"
    <2> SUFFICES ASSUME disk.data = "whole", disk' \in Damage(disk) PROVE <1>6!2
      OBVIOUS
    <2>1. NoPrefix \in PrefixRecord /\ NoPrefix.data = "none" /\ NoPrefix.record.form = "none"
      BY DEF NoPrefix, NoRecord, PrefixRecord, RecordForms, RunnerNames
    <2>2. CASE disk' = NoPrefix
      BY <2>1, <2>2
    <2>3. CASE disk' = [disk EXCEPT !.data = "bare"]
      BY <1>5, <2>3, <2>1 DEF PrefixRecord
    <2>4. CASE disk' = [disk EXCEPT !.record = [NoRecord EXCEPT !.form = "damaged"]]
      BY <1>5, <2>4, <2>1 DEF PrefixRecord, NoRecord, RecordForms, RunnerNames
    <2>5. CASE disk' = [disk EXCEPT !.has = {}]
      BY <1>5, <2>5, <2>1 DEF PrefixRecord
    <2> QED BY <2>2, <2>3, <2>4, <2>5 DEF Damage
  <1>7. PrefixTyped'
    BY <1>1, <1>4, <1>5, <1>6 DEF PrefixTyped, CheckInv, CheckTyped
  <1>8. CheckTyped'
    <2>1. request' \in [Askers -> RequestRecord]
      <3> DEFINE R == [a \in Askers |-> IF AskerAt(a, "idle") THEN request[a] ELSE Changes(a)]
      <3>1. \A a \in Askers : R[a] \in RequestRecord
        BY <1>1, <1>2
      <3> HIDE DEF R
      <3>2. request' = [a \in Askers |-> R[a]]
        BY <1>1 DEF R
      <3> QED BY <3>1, <3>2
    <2> QED BY <1>1, <1>3, <1>7, <2>1 DEF CheckInv, CheckTyped, PrefixTyped
  <1>9. DiskLawful'
    <2>1. Lawful(disk)'
      BY <1>1, <1>3, <1>4, <1>5, <1>6 DEF Lawful
    <2>2. (resetBackup # NoBackup => Lawful(resetBackup) /\ Rebuildable(resetBackup))'
      BY <1>1, <1>3 DEF CheckInv, DiskLawful, Lawful, Rebuildable
    <2>3. (resetBackup # NoBackup /\ pendingMark = "none" => disk.data = "none")'
      BY <1>1, <1>4, <1>6 DEF CheckInv, DiskLawful
    <2>4. (~managed => pendingMark = "none" /\ resetBackup = NoBackup)'
      BY <1>1, <1>4 DEF CheckInv, DiskLawful
    <2> QED BY <2>1, <2>2, <2>3, <2>4 DEF DiskLawful
  <1>10. ASSUME NEW a \in Askers PROVE Holds(a, request[a])' /\ Sound(request[a])'
    <2>1. Holds(a, request[a])
      BY RequestTyped
    <2>2. pendingMark' = pendingMark \/ pendingMark' = "none"
      BY <1>4
    <2>3. request[a].pc = "initialize" /\ request[a].way = "transaction" => UNCHANGED <<disk, pendingMark>>
      BY <1>4, <2>1 DEF Holds
    <2>4. Holds(a, request[a])'
      BY <1>1, <1>2, <2>1, <2>2, <2>3 DEF Holds, LaunchPcs, WorkPcs
    <2>5. Sound(request[a])'
      <3>1. CASE request[a].pc = "idle"
        <4>1. request'[a].pc = "idle"
          BY <1>2, <3>1
        <4> QED BY <4>1 DEF Sound, Ahead, Behind, LaunchPcs, WorkPcs
      <3>2. CASE request[a].pc # "idle"
        <4>1. request'[a].fresh = FALSE
          BY <1>2, <3>2
        <4> QED BY <4>1 DEF Sound
      <3> QED BY <3>1, <3>2
    <2> QED BY <2>4, <2>5
  <1> QED BY <1>8, <1>9, <1>10 DEF CheckInv

LEMMA KilledKeeps == ASSUME CheckInv, Killed PROVE CheckInv'
  <1>1. UNCHANGED <<setting, selected, installed, hostState, game, disk, pendingMark, resetBackup>>
        /\ request' = [a \in Askers |-> NoRequest]
    BY DEF Killed, surroundings, prefixState
  <1>2. CheckTyped'
    BY <1>1, NoRequestIsSound DEF CheckInv, CheckTyped
  <1>3. DiskLawful'
    BY <1>1 DEF CheckInv, DiskLawful, Lawful, Rebuildable, managed
  <1>4. ASSUME NEW a \in Askers PROVE Holds(a, request[a])' /\ Sound(request[a])'
    <2>1. request'[a].pc = "idle"
      BY <1>1 DEF NoRequest
    <2> QED BY <2>1 DEF Holds, Sound, Ahead, Behind, LaunchPcs, WorkPcs
  <1> QED BY <1>2, <1>3, <1>4 DEF CheckInv

LEMMA CheckStutters == ASSUME CheckInv, UNCHANGED checkVars PROVE CheckInv'
  <1>1. UNCHANGED <<setting, selected, installed, hostState, game, disk, pendingMark, resetBackup, workedBy, request>>
    BY DEF checkVars, surroundings, prefixState
  <1>2. Untouched /\ PrefixUntouched
    BY <1>1 DEF Untouched, PrefixUntouched
  <1>3. CheckTyped' /\ DiskLawful'
    BY <1>1 DEF CheckInv, CheckTyped, DiskLawful, Lawful, Rebuildable, managed
  <1>4. ASSUME NEW a \in Askers PROVE Holds(a, request[a])' /\ Sound(request[a])'
    <2>1. PICK q \in RequestRecord : q = request[a]
      BY RequestTyped
    <2>2. Sound(q)' /\ request'[a] = q
      BY <1>1, <1>2, <2>1, SoundFrame, RequestTyped
    <2>3. Sound(request[a])'
      BY <2>2 DEF Sound, Ahead, Behind, MayRefuse
    <2>4. Holds(a, request[a])'
      BY <1>1, <1>2, RequestTyped, PrefixFrame DEF Holds
    <2> QED BY <2>3, <2>4
  <1> QED BY <1>3, <1>4 DEF CheckInv

LEMMA CheckInitInv == CheckInit => CheckInv
  <1> SUFFICES ASSUME CheckInit PROVE CheckInv
    OBVIOUS
  <1>1. /\ setting \in [scope : Scopes, webview2 : BOOLEAN, place : {TRUE}] /\ selected \in Runners
        /\ hostState = "ok" /\ installed \in BOOLEAN /\ game \in BOOLEAN
        /\ request = [a \in Askers |-> NoRequest]
    BY DEF CheckInit
  <1>2. NoPrefix \in PrefixRecord /\ Lawful(NoPrefix)
    BY DEF NoPrefix, NoRecord, PrefixRecord, RecordForms, RunnerNames, Lawful
  <1>3. [NoPrefix EXCEPT !.data = "bare"] \in PrefixRecord /\ Lawful([NoPrefix EXCEPT !.data = "bare"])
    BY DEF NoPrefix, NoRecord, PrefixRecord, RecordForms, RunnerNames, Lawful
  <1>4. ASSUME NEW r \in Records, setting.scope = "isolated" <=> r.form = "v3"
        PROVE  WholePrefix(r) \in PrefixRecord /\ Lawful(WholePrefix(r))
    <2>1. selected.name \in RunnerNames /\ "unknown" \in RunnerNames /\ "another" \in RunnerNames
      BY <1>1 DEF RunnerNames
    <2>2. GraphicsComponent(selected) \in {"dxvk", "dxvk-2.6.2"}
      BY DEF GraphicsComponent
    <2>3. /\ r \in [form : RecordForms, here : BOOLEAN, runner : RunnerNames, parts : SUBSET {"dxvk", "dxvk-2.6.2", "webview2"}]
          /\ r.form = "v3" => r.here /\ r.runner = selected.name
      <3> DEFINE Recordings == [form : RecordForms, here : BOOLEAN, runner : RunnerNames,
                                parts : SUBSET {"dxvk", "dxvk-2.6.2", "webview2"}]
                 g == {GraphicsComponent(selected)}
      <3>1. g \in SUBSET {"dxvk", "dxvk-2.6.2", "webview2"}
        BY <2>2
      <3> HIDE DEF g
      <3>2. ASSUME NEW here \in BOOLEAN, NEW runner \in RunnerNames, NEW parts \in {{}, {"dxvk"}, g},
                   r = V2Record(here, runner, parts)
            PROVE  r \in Recordings /\ r.form = "v2"
        BY <3>1, <3>2 DEF V2Record, RecordForms
      <3>3. ASSUME NEW form \in {"none", "damaged", "legacy"},
                   r = [form |-> form, here |-> FALSE, runner |-> "unknown", parts |-> {}]
            PROVE  r \in Recordings /\ r.form # "v3"
        BY <2>1, <3>3 DEF RecordForms
      <3>4. CASE r = [form |-> "v3", here |-> TRUE, runner |-> selected.name, parts |-> g]
        BY <2>1, <3>1, <3>4 DEF RecordForms
      <3>5. \/ \E form \in {"none", "damaged", "legacy"} :
                   r = [form |-> form, here |-> FALSE, runner |-> "unknown", parts |-> {}]
            \/ r = V2Record(FALSE, selected.name, {"dxvk"}) \/ r = V2Record(TRUE, "unknown", {"dxvk"})
            \/ r = V2Record(TRUE, "another", {"dxvk"}) \/ r = V2Record(TRUE, selected.name, {})
            \/ r = V2Record(TRUE, selected.name, g)
            \/ r = [form |-> "v3", here |-> TRUE, runner |-> selected.name, parts |-> g]
        BY <1>4 DEF Records, g, NoRecord
      <3> QED BY <2>1, <3>2, <3>3, <3>4, <3>5
    <2>4. WholePrefix(r).record = r /\ WholePrefix(r) \in PrefixRecord
      BY <2>3 DEF WholePrefix, PrefixRecord
    <2> QED BY <1>4, <2>3, <2>4 DEF Lawful
  <1>5. \A d \in Left : d \in PrefixRecord /\ Lawful(d)
    BY <1>2, <1>3, <1>4 DEF Left
  <1>6. \A d \in Kept : d \in PrefixRecord /\ Lawful(d) /\ Rebuildable(d)
    BY <1>5 DEF Kept, Rebuildable
  <1>7. \/ disk \in Left /\ pendingMark = "none" /\ resetBackup = NoBackup
        \/ /\ managed /\ disk = [NoPrefix EXCEPT !.data = "bare"] /\ pendingMark \in {"P", "C"}
           /\ resetBackup \in {NoBackup} \union Kept
        \/ managed /\ disk \in Kept /\ pendingMark = "C" /\ resetBackup = disk
    BY DEF CheckInit
  <1>8. CheckTyped
    BY <1>1, <1>3, <1>5, <1>6, <1>7, NoRequestIsSound DEF CheckTyped
  <1>9. DiskLawful
    BY <1>3, <1>5, <1>6, <1>7 DEF DiskLawful
  <1> QED BY <1>1, <1>8, <1>9, NoRequestIsSound DEF CheckInv

LEMMA CheckNextKeeps == ASSUME CheckInv, [CheckNext]_checkVars PROVE CheckInv'
  <1>1. ASSUME NEW a \in Askers,
               \/ Ask(a) \/ AskAgain(a) \/ Answer(a) \/ Proceed(a) \/ Dismiss(a) \/ EnsureRuntime(a)
               \/ ValidateRuntime(a) \/ BeginLaunch(a) \/ Plays(a)
        PROVE  CheckInv'
    BY <1>1, AskKeeps, AskAgainKeeps, AnswerKeeps, ProceedKeeps, LeavesKeep, EnsureRuntimeKeeps,
       ValidateRuntimeKeeps, BeginLaunchKeeps
  <1>2. ASSUME NEW a \in Askers,
               \/ ResolveRecoveredContext(a) \/ DecideWay(a) \/ RecoverBefore(a) \/ BeginWork(a)
               \/ InitializePrefix(a) \/ InstallGraphics(a) \/ InstallComponents(a) \/ RevokeRollback(a)
               \/ WriteRuntimeManifest(a) \/ EndWork(a) \/ WorkFails(a)
        PROVE  CheckInv'
    BY <1>2, ResolveRecoveredContextKeeps, DecideWayKeeps, RecoverBeforeKeeps, BeginWorkKeeps,
       InitializePrefixKeeps, InstallGraphicsKeeps, InstallComponentsKeeps, RevokeRollbackKeeps,
       WriteRuntimeManifestKeeps, EndWorkKeeps, WorkFailsKeeps
  <1>3. CASE UserActs \/ Killed \/ UNCHANGED checkVars
    BY <1>3, UserActsKeeps, KilledKeeps, CheckStutters
  <1> QED BY <1>1, <1>2, <1>3, Zenon DEF CheckNext

LEMMA CheckInvTells == ASSUME CheckInv PROVE ChecksAreTrue
  <1>1. ReadyIsLaunchable
    BY RequestTyped DEF ReadyIsLaunchable, AskerAt, Sound, Ahead
  <1>2. OfferedIsPossible
    BY RequestTyped DEF OfferedIsPossible, AskerAt, Sound, Ahead, MayRefuse
  <1>3. PreparedIsReady
    BY RequestTyped DEF PreparedIsReady, AskerAt, Sound, Ahead, StillLacks
  <1>4. PlayedIsPrepared
    BY RequestTyped, BlockersSplit DEF PlayedIsPrepared, Playing, AskerAt, Holds
  <1> QED BY <1>1, <1>2, <1>3, <1>4 DEF ChecksAreTrue

(* What the launcher says of an environment, offers for it and does with it
   holds of that environment as long as nothing else has changed it
   (check_dependencies of deps/check.rs, assessment.rs and the entries of
   commands/prefix.rs and launcher/session.rs), for every set of runners,
   scopes and callers. *)
THEOREM CheckInvariant == CheckInit /\ [][CheckNext]_checkVars => [](CheckInv /\ ChecksAreTrue)
  <1>1. CheckInit => CheckInv
    BY CheckInitInv
  <1>2. CheckInv /\ [CheckNext]_checkVars => CheckInv'
    BY CheckNextKeeps
  <1>3. CheckInv => ChecksAreTrue
    BY CheckInvTells
  <1> QED BY <1>1, <1>2, <1>3, PTL

(* ------------------------------- LaunchesAreTrue ------------------------- *)

(* A launch runs in the directory that belongs to its runner and where nobody's
   interrupted transaction is left behind (identity.rs, transaction_gate), in
   the environment its plan says and under the claim it needs (runtime/resolver.rs
   with launch_game), and when the check shown before it said so (deps/check.rs,
   assessment.rs): for every set of runners, builds, materials, commands,
   invocations and callers.  BindingIsSound excepts the `raced` directories, where
   another command ended the transaction that a stale binding was made for: there
   a setup can repair, and a launch can use, the prefix of another runner
   (commands/prefix.rs:286).  DecisionsAreCurrent says that this does not happen
   and is violated. *)
THEOREM LaunchesAreAlwaysTrue == PrefixesSpec => []LaunchesAreTrue
  <1>1. PrefixesInit => PlanInit /\ BindingInit /\ CheckInit
    BY DEF PrefixesInit
  <1>2. [PrefixesNext]_<<part, vars, planVars, bindingVars, checkVars>>
          => [PlanNext]_planVars /\ [BindingNext]_bindingVars /\ [CheckNext]_checkVars
    BY DEF PrefixesNext
  <1>3. LaunchIsTrue /\ BindingIsSound /\ ChecksAreTrue => LaunchesAreTrue
    BY DEF LaunchesAreTrue
  <1> QED BY <1>1, <1>2, <1>3, PlanInvariant, BindingInvariant, CheckInvariant, PTL DEF PrefixesSpec
=============================================================================
