------------------------------ MODULE Artifacts ------------------------------
(***************************************************************************)
(* tools/artifacts: one catalogue artifact under runtime/, from download   *)
(* or local import to activation, with its recovery and its cleanups.      *)
(* The owner holds OperationGuard("runtime") (module OperationLock) all    *)
(* along, so there is one owner at a time; it can be killed, or meet an    *)
(* I/O error, at every file system call, and the user can damage or place  *)
(* trees meanwhile.  A tree is its receipt, the files it still has and     *)
(* whether they come from the pinned archive.                              *)
(***************************************************************************)
EXTENDS Naturals, FiniteSets

CONSTANTS
    Files,          \* the essential files of the payload
    Policies,       \* ExistingTargetPolicy of the artifacts checked
    MaxDamages,     \* trees damaged or placed by the user
    MaxKills,       \* kills of the owner
    MaxErrors,      \* I/O errors
    MaxInstalls     \* operations begun

(* A payload has essential files, and none of them is what a wrapper holds. *)
ASSUME FilesAssumption == Files # {} /\ Files \intersect {"archive", "root"} = {}
ASSUME BoundsAssumption == {MaxDamages, MaxKills, MaxErrors, MaxInstalls} \subseteq Nat

Wrappers == {"download", "import", "staging"}       \* private work directories
Places == {"final", "slot", "extracted", "previous"} \union Wrappers

NoTree == [receipt |-> "absent", files |-> {}, pinned |-> FALSE]
Directory == [receipt |-> "none", files |-> {}, pinned |-> FALSE]

VARIABLES
    tree,           \* what is at each place
    policy,
    step,           \* where the owner stands; "free": the guard is free
    source,         \* "download" or "import"
    needed,         \* needs_install of import_archive_locked
    armed,          \* the wrappers its drops will clean
    failed,         \* the operation returns an error
    cleaning,       \* [place, next, error]: the cleanup_owned that runs, or NoCleanup
    sweeping,       \* the residues the sweep has not visited
    limits          \* what the bounds still allow

NoCleanup == [place |-> "none", next |-> "none", error |-> "none"]
artifactVars == <<tree, policy, step, source, needed, armed, failed, cleaning, sweeping, limits>>

Receipts == {"v1", "v2"}
(* payload_ready: every essential file of the artifact is there *)
PayloadReady(t) == t.files = Files
(* stored_identity_matches_descriptor over parse_stored_receipt; a receipt v1 names
   only the digest, and both identify the artifact *)
MatchingReceipt(t) == t.receipt \in Receipts
(* artifact_cache_state_at *)
CacheReady(t) == MatchingReceipt(t) /\ PayloadReady(t)
Classify(t) ==
    CASE t.receipt = "absent" -> "Absent"
      [] t.receipt = "tombstone" -> "Cleanup"
      [] CacheReady(t) -> "Ready"
      [] MatchingReceipt(t) /\ ~PayloadReady(t) -> "OwnedIncomplete"
      [] OTHER -> "Foreign"
State(p) == Classify(tree[p])

ArtifactsInit ==
    /\ policy \in Policies
    /\ \E final \in {NoTree, [receipt |-> "v1", files |-> Files, pinned |-> TRUE]} :
       \E previous \in {NoTree, [receipt |-> "v2", files |-> Files, pinned |-> TRUE]} :
           tree = [p \in Places |-> CASE p = "final" -> final
                                      [] p = "previous" -> previous
                                      [] OTHER -> NoTree]
    /\ step = "free" /\ source = "import" /\ needed = FALSE /\ armed = {} /\ failed = FALSE
    /\ cleaning = NoCleanup /\ sweeping = {}
    /\ limits = [damages |-> MaxDamages, kills |-> MaxKills, errors |-> MaxErrors,
                 installs |-> MaxInstalls]

Takes(what) == limits[what] > 0 /\ limits' = [limits EXCEPT ![what] = @ - 1]
(* the wrapper the operation makes next *)
NextWork ==
    CASE source = "download" /\ armed = {} -> "download"
      [] "import" \in armed -> "staging"
      [] OTHER -> "import"
Working(where) == step = where /\ cleaning = NoCleanup
Becomes(p, t) == tree' = [tree EXCEPT ![p] = t]

(* an error that `?` returns: the wrappers the operation armed are dropped *)
ReturnsError ==
    /\ Working("error") /\ step' = "drop staging" /\ failed' = TRUE
    /\ UNCHANGED <<tree, policy, source, needed, armed, cleaning, sweeping, limits>>
(* an I/O error of the step the owner stands at *)
StepFails ==
    /\ cleaning = NoCleanup /\ Takes("errors") /\ step' = "error"
    /\ UNCHANGED <<tree, policy, source, needed, armed, failed, cleaning, sweeping>>
    /\ step \in {"make", "mark", "fetch", "snapshot", "extract", "prepare", "activate", "reserve"}

(* ------------------------------- cleanup ------------------------------- *)

(* Mutant: a name is enough to remove a tree. *)
CleanupByName(p, next, error) ==
    IF State(p) = "Absent"
      THEN step' = next /\ cleaning' = NoCleanup /\ UNCHANGED tree
      ELSE /\ cleaning' = [place |-> p, next |-> next, error |-> error] /\ UNCHANGED step
           /\ Becomes(p, [tree[p] EXCEPT !.receipt = "tombstone"])
(* cleanup_owned up to the tombstone: the receipt leaves the Ready namespace first *)
CleanupOwned(p, next, error) ==
    CASE State(p) = "Absent" -> step' = next /\ cleaning' = NoCleanup /\ UNCHANGED tree
      [] State(p) = "Foreign" -> step' = error /\ cleaning' = NoCleanup /\ UNCHANGED tree
      [] OTHER -> /\ cleaning' = [place |-> p, next |-> next, error |-> error] /\ UNCHANGED step
                  /\ Becomes(p, [tree[p] EXCEPT !.receipt = "tombstone"])
(* entry by entry, then the tombstone, then the directory *)
CleanupEntry ==
    LET p == cleaning.place IN
    /\ cleaning # NoCleanup
    /\ \E f \in tree[p].files :
           tree' = IF p = "staging" THEN [tree EXCEPT !["staging"].files = @ \ {f}, !["extracted"] = NoTree]
                                    ELSE [tree EXCEPT ![p].files = @ \ {f}]
    /\ UNCHANGED <<policy, step, source, needed, armed, failed, cleaning, sweeping, limits>>
CleanupEvidence ==
    LET p == cleaning.place IN
    /\ cleaning # NoCleanup /\ tree[p].files = {} /\ tree[p].receipt = "tombstone"
    /\ Becomes(p, Directory)
    /\ UNCHANGED <<policy, step, source, needed, armed, failed, cleaning, sweeping, limits>>
CleanupDirectory ==
    LET p == cleaning.place IN
    /\ cleaning # NoCleanup /\ tree[p] = Directory
    /\ Becomes(p, NoTree) /\ step' = cleaning.next /\ cleaning' = NoCleanup
    /\ UNCHANGED <<policy, source, needed, armed, failed, sweeping, limits>>
CleanupFails ==
    /\ cleaning # NoCleanup /\ Takes("errors")
    /\ step' = cleaning.error /\ cleaning' = NoCleanup
    /\ UNCHANGED <<tree, policy, source, needed, armed, failed, sweeping>>

(* ------------------------------ recovery ------------------------------- *)

(* recover: the canonical tree always wins, the slot is only ever discarded *)
Recover(next, error) ==
    CASE State("final") \in {"Foreign", "Cleanup"} -> step' = error /\ UNCHANGED <<tree, cleaning>>
      [] State("final") \notin {"Foreign", "Cleanup"} /\ State("slot") = "Foreign" ->
             /\ step' = (IF State("final") = "Ready" THEN next ELSE error)
             /\ UNCHANGED <<tree, cleaning>>
      [] OTHER -> CleanupOwned("slot", next, error)

(* the guard is taken; needs_install recovers, sweeps and inspects *)
BeginInstall ==
    /\ step = "free" /\ Takes("installs")
    /\ source' \in {"download", "import"} /\ failed' = FALSE /\ armed' = {}
    /\ step' = "recover" /\ sweeping' = Wrappers \union {"previous"}
    /\ UNCHANGED <<tree, policy, needed, cleaning>>
RecoverFirst ==
    /\ Working("recover") /\ Recover("sweep", "refused")
    /\ UNCHANGED <<policy, source, needed, armed, failed, sweeping, limits>>
(* sweep_residue: old backups go only beside a Ready tree, errors are reported *)
SweepResidue ==
    /\ Working("sweep")
    /\ \/ /\ sweeping = {} /\ step' = "inspect" /\ UNCHANGED <<tree, cleaning, sweeping>>
       \/ \E p \in sweeping :
             /\ sweeping' = sweeping \ {p}
             /\ IF p = "previous" /\ State("final") # "Ready"
                  THEN UNCHANGED <<tree, cleaning, step>>
                  ELSE CleanupOwned(p, "sweep", "sweep")
    /\ UNCHANGED <<policy, source, needed, armed, failed, limits>>
(* inspect_target *)
Replaceable(t) ==
    \/ Classify(t) = "Absent"
    \/ Classify(t) = "OwnedIncomplete" /\ policy = "ReplaceNotReady"
(* elevate_v1 rewrites the receipt in one rename; its failure is reported *)
Elevated(t) == {t} \union (IF t.receipt = "v1" THEN {[t EXCEPT !.receipt = "v2"]} ELSE {})
Inspect ==
    /\ Working("inspect")
    /\ \/ /\ State("final") = "Ready" /\ \E t \in Elevated(tree["final"]) : Becomes("final", t)
          /\ step' = IF source = "download" THEN "free" ELSE "recover again"
       \/ /\ State("final") # "Ready" /\ Replaceable(tree["final"]) /\ UNCHANGED tree
          /\ step' = IF source = "download" THEN "make" ELSE "recover again"
       \/ /\ State("final") # "Ready" /\ ~Replaceable(tree["final"]) /\ UNCHANGED tree
          /\ step' = "refused"
    /\ UNCHANGED <<policy, source, needed, armed, failed, cleaning, sweeping, limits>>
(* an error before any wrapper was made *)
Refused ==
    /\ Working("refused") /\ step' = "free" /\ failed' = TRUE
    /\ UNCHANGED <<tree, policy, source, needed, armed, cleaning, sweeping, limits>>

(* ------------------------ acquisition and staging ----------------------- *)

(* create_work: a directory with a name of its own, then its receipt.  A wrapper
   without its receipt is not armed and nobody will prove it his; what an earlier
   operation left under another name is no longer looked at *)
MakeWork(p) ==
    /\ Working("make") /\ p = NextWork /\ step' = "mark"
    /\ tree' = IF p = "staging" THEN [tree EXCEPT ![p] = Directory, !["extracted"] = NoTree]
                                ELSE [tree EXCEPT ![p] = Directory]
    /\ UNCHANGED <<policy, source, needed, armed, failed, cleaning, sweeping, limits>>
MarkWork(p) ==
    /\ Working("mark") /\ p = NextWork /\ Becomes(p, [Directory EXCEPT !.receipt = "v2"])
    /\ armed' = armed \union {p}
    /\ step' = CASE p = "download" -> "fetch" [] p = "import" -> "snapshot" [] OTHER -> "extract"
    /\ UNCHANGED <<policy, source, needed, failed, cleaning, sweeping, limits>>
(* Mutant: the snapshot of a local file is trusted for its size. *)
VerifiedBySize(pinned) == TRUE
(* verify_archive_file: size and digest of the catalogue *)
Verified(pinned) == pinned
(* download_verified: the bytes the server sent, or a broken or oversized body *)
Fetch ==
    /\ Working("fetch")
    /\ \E pinned \in BOOLEAN :
           /\ Becomes("download", [tree["download"] EXCEPT !.files = {"archive"}, !.pinned = pinned])
           /\ step' = IF Verified(pinned) THEN "recover again" ELSE "error"
    /\ UNCHANGED <<policy, source, needed, armed, failed, cleaning, sweeping, limits>>
(* import_archive_locked: it recovers and inspects again, it does not sweep *)
RecoverAgain ==
    /\ Working("recover again") /\ Recover("inspect again", "error")
    /\ UNCHANGED <<policy, source, needed, armed, failed, sweeping, limits>>
InspectAgain ==
    /\ Working("inspect again")
    /\ needed' = Replaceable(tree["final"])
    /\ step' = IF State("final") = "Ready" \/ needed' THEN "make" ELSE "error"
    /\ UNCHANGED <<tree, policy, source, armed, failed, cleaning, sweeping, limits>>
(* snapshot_archive: a private copy of the download or of the user's file, which may
   have changed since it was opened; a Ready tree needs nothing more *)
SnapshotArchive ==
    /\ Working("snapshot")
    /\ \E pinned \in IF source = "download" THEN {tree["download"].pinned} ELSE BOOLEAN :
           /\ Becomes("import", [tree["import"] EXCEPT !.files = {"archive"}, !.pinned = pinned])
           /\ step' = CASE ~Verified(pinned) -> "error"
                        [] Verified(pinned) /\ needed -> "make"
                        [] OTHER -> "drop staging"
    /\ UNCHANGED <<policy, source, needed, armed, failed, cleaning, sweeping, limits>>
(* extract_created_archive: entries appear one by one; links that leave the tree,
   special files and an incomplete payload refuse the archive *)
ExtractEntries ==
    LET grown(f) == [receipt |-> "none", files |-> tree["extracted"].files \union {f},
                     pinned |-> tree["import"].pinned]
    IN  /\ Working("extract") /\ UNCHANGED <<policy, source, needed, armed, failed, cleaning, sweeping, limits>>
        /\ \/ \E f \in Files \ tree["extracted"].files :
                  /\ tree' = [tree EXCEPT !["extracted"] = grown(f), !["staging"].files = {"root"}]
                  /\ UNCHANGED step
           \/ PayloadReady(tree["extracted"]) /\ step' = "prepare" /\ UNCHANGED tree
(* prepare: the receipt goes into the private tree by one rename *)
PrepareTree ==
    /\ Working("prepare") /\ step' = "activate"
    /\ Becomes("extracted", [tree["extracted"] EXCEPT !.receipt = "v2"])
    /\ UNCHANGED <<policy, source, needed, armed, failed, cleaning, sweeping, limits>>

(* ------------------------------ activation ------------------------------ *)

ActivateRecovers ==
    /\ Working("activate") /\ Recover("reserve", "error")
    /\ UNCHANGED <<policy, source, needed, armed, failed, sweeping, limits>>
(* the prepared tree is moved to the slot, if nothing is there *)
ReserveSlot ==
    /\ Working("reserve")
    /\ \/ State("final") = "Ready" /\ step' = "drop staging" /\ UNCHANGED tree
       \/ /\ State("final") # "Ready" /\ Replaceable(tree["final"]) /\ tree["slot"] = NoTree
          /\ tree' = [tree EXCEPT !["slot"] = tree["extracted"], !["extracted"] = NoTree,
                                  !["staging"].files = {}]
          /\ step' = "commit"
       \/ /\ State("final") # "Ready" /\ (~Replaceable(tree["final"]) \/ tree["slot"] # NoTree)
          /\ step' = "error" /\ UNCHANGED tree
    /\ UNCHANGED <<policy, source, needed, armed, failed, cleaning, sweeping, limits>>
(* commit: one rename, or one exchange with an incomplete tree; from here on the new
   tree is the artifact, and an error of the parent's fsync changes nothing of it *)
Commit ==
    /\ Working("commit") /\ step' = "recover last"
    /\ \/ /\ CacheReady(tree["slot"]) /\ Replaceable(tree["final"]) /\ UNCHANGED <<failed, limits>>
          /\ tree' = [tree EXCEPT !["final"] = tree["slot"], !["slot"] = tree["final"]]
       \/ /\ CacheReady(tree["slot"]) /\ Replaceable(tree["final"]) /\ Takes("errors")
          /\ failed' = TRUE
          /\ \/ tree' = [tree EXCEPT !["final"] = tree["slot"], !["slot"] = tree["final"]]
             \/ UNCHANGED tree
       \/ /\ ~(CacheReady(tree["slot"]) /\ Replaceable(tree["final"]))
          /\ failed' = TRUE /\ UNCHANGED <<tree, limits>>
    /\ UNCHANGED <<policy, source, needed, armed, cleaning, sweeping>>
(* Mutant: a failed activation is undone. *)
RecoverLastUndoes ==
    /\ Working("recover last") /\ step' = "drop staging"
    /\ IF failed /\ State("slot") = "OwnedIncomplete"
         THEN tree' = [tree EXCEPT !["final"] = tree["slot"], !["slot"] = NoTree]
         ELSE UNCHANGED tree
    /\ UNCHANGED <<policy, source, needed, armed, failed, cleaning, sweeping, limits>>
(* the same recovery as the next process's, never an exchange back *)
RecoverLast ==
    /\ Working("recover last") /\ Recover("drop staging", "error")
    /\ UNCHANGED <<policy, source, needed, armed, failed, sweeping, limits>>

(* the drops of ImportCleanup and DownloadDirectory, then of the guard *)
DropArmed(p, next) ==
    IF p \in armed THEN CleanupOwned(p, next, next)
                   ELSE step' = next /\ UNCHANGED <<tree, cleaning>>
DropWork ==
    /\ \/ Working("drop staging") /\ DropArmed("staging", "drop import")
       \/ Working("drop import") /\ DropArmed("import", "drop download")
       \/ Working("drop download") /\ DropArmed("download", "free")
    /\ UNCHANGED <<policy, source, needed, armed, failed, sweeping, limits>>

(* -------------------------------- faults -------------------------------- *)

OwnerKilled ==
    /\ step # "free" /\ Takes("kills")
    /\ step' = "free" /\ cleaning' = NoCleanup /\ sweeping' = {}
    /\ UNCHANGED <<tree, policy, source, needed, armed, failed>>
(* the user removes a file of the runtime or puts a tree of his own in its place *)
UserMeddles ==
    /\ Takes("damages")
    /\ \/ \E f \in tree["final"].files : Becomes("final", [tree["final"] EXCEPT !.files = @ \ {f}])
       \/ \E p \in {"final", "slot", "previous"} :
             /\ tree[p] = NoTree
             /\ Becomes(p, [receipt |-> "other", files |-> Files, pinned |-> FALSE])
    /\ UNCHANGED <<policy, step, source, needed, armed, failed, cleaning, sweeping>>

InstallStep ==
    \/ BeginInstall \/ ReturnsError \/ RecoverFirst \/ SweepResidue \/ Inspect \/ Refused
    \/ \E p \in Wrappers : MakeWork(p) \/ MarkWork(p)
    \/ Fetch \/ RecoverAgain \/ InspectAgain \/ SnapshotArchive \/ ExtractEntries \/ PrepareTree
    \/ ActivateRecovers \/ ReserveSlot \/ Commit \/ RecoverLast \/ DropWork
    \/ CleanupEntry \/ CleanupEvidence \/ CleanupDirectory
ArtifactsNext == InstallStep \/ StepFails \/ CleanupFails \/ OwnerKilled \/ UserMeddles

(* ------------------------------ properties ------------------------------ *)

ArtifactsTypeOK ==
    /\ \A p \in Places : tree[p].receipt \in Receipts \union {"absent", "none", "tombstone", "other"}
    /\ failed \in BOOLEAN /\ source \in {"download", "import"}
    /\ cleaning = NoCleanup \/ cleaning.place \in Places

(* A tree that classifies as the artifact, or waits to become it, was extracted from
   bytes whose size and digest are the catalogue's, whatever the server sent or the
   user's file became while it was copied, and a tree half removed or half extracted
   never classifies as Ready again (snapshot_archive, prepare, cleanup_owned). *)
OnlyVerified ==
    \A p \in Places : CacheReady(tree[p]) => tree[p].pinned

(* What is whole stays: no step of the launcher, no error, no kill and no recovery
   takes a Ready runtime away or back to an older tree, and a tree that is not
   provably the launcher's is never touched (install.rs, module comment). *)
TreesSurvive ==
    [][ /\ (State("final") = "Ready" /\ limits'.damages = limits.damages) => State("final")' = "Ready"
        /\ limits'.damages = limits.damages =>
              \A p \in Places : tree[p].receipt = "other" => tree'[p] = tree[p]
      ]_artifactVars

(* An operation that returns Ok leaves the artifact Ready, unless the user took it
   away meanwhile; it never answers Ok over a refused or failed activation. *)
OkMeansReady ==
    (step = "drop download" /\ ~failed /\ limits.damages = MaxDamages) => State("final") = "Ready"

(* both promises of an activation *)
ActivationSound == OnlyVerified /\ OkMeansReady

ArtifactsSpec == ArtifactsInit /\ [][ArtifactsNext]_artifactVars
=============================================================================
