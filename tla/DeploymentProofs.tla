-------------------------- MODULE DeploymentProofs --------------------------
(* Proofs about what the launcher puts on the disk.                                      *)
(*                                                                                       *)
(* The runtime artifacts: what classifies as the artifact was extracted from the pinned  *)
(* archive, what is whole stays, and Ok means Ready, for any payload and any bound on    *)
(* kills, errors and damages.                                                            *)
(*                                                                                       *)
(* dgVoodoo: the files of the user survive, and a tool sees the wrapper whole, for any   *)
(* number of errors, kills, operations, launches and edits. The invariant says what each *)
(* phase of a job still has to do: a manifest is complete and keeps the backups it       *)
(* promises; an installation overwrites a file only after its backup; what a removal has *)
(* still to write restores what there was; and the snapshots, undone from the newest,    *)
(* lead back to it.                                                                      *)
EXTENDS Artifacts, ServerTools, SequenceTheorems, TLAPS

(* ----------------------------- the artifacts ------------------------------ *)

Trees == [receipt: Receipts \union {"absent", "none", "tombstone", "other"},
             files: SUBSET (Files \union {"archive", "root"}), pinned: BOOLEAN]
Payloads == {"final", "slot", "extracted", "previous"}
UserPlaces == {"final", "slot", "previous"}

(* From the step that cleans a place to where its end and its failure lead. *)
Routes == {<<"recover", "sweep", "refused">>, <<"sweep", "sweep", "sweep">>,
           <<"recover again", "inspect again", "error">>, <<"activate", "reserve", "error">>,
           <<"recover last", "drop staging", "error">>,
           <<"drop staging", "drop import", "drop import">>,
           <<"drop import", "drop download", "drop download">>,
           <<"drop download", "free", "free">>}

TreesInv ==
    /\ tree \in [Places -> Trees]
    /\ \A p \in Payloads : tree[p].files \subseteq Files
    /\ \A p \in Places : tree[p].receipt = "other" => p \in UserPlaces
    /\ armed \subseteq Wrappers /\ sweeping \subseteq Wrappers \union {"previous"}
    /\ limits \in [damages: Nat, kills: Nat, errors: Nat, installs: Nat]
    /\ limits.damages <= MaxDamages

(* What is being removed is marked as such, and is not the runtime itself. *)
CleaningInv ==
    \/ cleaning = NoCleanup
    \/ /\ cleaning.place \in Wrappers \union {"slot", "previous"}
       /\ tree[cleaning.place].receipt \in {"tombstone", "none"}
       /\ <<step, cleaning.next, cleaning.error>> \in Routes

(* Before the snapshot there is no wrapper for it. *)
Early == {"recover", "sweep", "inspect", "refused", "recover again", "inspect again", "fetch"}

(* What may become the artifact came from a verified archive. *)
SourceInv ==
    /\ OnlyVerified
    /\ tree["extracted"].files # {} => tree["extracted"].pinned
    /\ step \in {"make", "mark"} /\ "import" \in armed => tree["import"].pinned
    /\ step = "extract" => tree["import"].pinned
    /\ step \in Early => "import" \notin armed
    /\ step \in {"recover", "sweep", "inspect"} => armed = {}

(* The operation found the runtime Ready, or made it so. *)
Settled ==
    \/ step \in {"recover last", "drop staging", "drop import", "drop download"}
    \/ ~needed /\ step = "snapshot"
    \/ ~needed /\ step \in {"make", "mark"} /\ NextWork # "download"
ReadyInv ==
    Settled /\ ~failed /\ limits.damages = MaxDamages => State("final") = "Ready"

ArtifactsInv == TreesInv /\ CleaningInv /\ SourceInv /\ ReadyInv

(* ------------------------- what the operators say ------------------------- *)

(* artifact_cache_state_at, one value at a time. *)
LEMMA Classified ==
    ASSUME NEW t \in Trees
    PROVE  /\ Classify(t) = "Ready" <=> CacheReady(t)
           /\ Classify(t) = "Foreign" <=> t.receipt \in {"none", "other"}
           /\ Classify(t) = "Absent" <=> t.receipt = "absent"
           /\ Classify(t) = "Cleanup" <=> t.receipt = "tombstone"
           /\ Classify(t) = "OwnedIncomplete" <=> t.receipt \in Receipts /\ t.files # Files
           /\ CacheReady(t) <=> t.receipt \in Receipts /\ t.files = Files
  BY DEF Classify, CacheReady, MatchingReceipt, PayloadReady, Trees, Receipts

(* The state of the runtime itself, before and after a step. *)
LEMMA ReadyIs ==
    ASSUME TreesInv
    PROVE  State("final") = "Ready" <=> CacheReady(tree["final"])
  BY Classified DEF State, TreesInv, Places

(* After a step the component is Ready exactly when its tree passes the cache check. *)
LEMMA ReadyIsNext ==
    ASSUME TreesInv'
    PROVE  State("final")' = "Ready" <=> CacheReady(tree'["final"])
  BY Classified DEF State, TreesInv, Places

(* cleanup_owned leaves what is not the launcher's, and marks before it removes. *)
LEMMA CleanupEffect ==
    ASSUME TreesInv, NEW p \in Wrappers \union {"slot", "previous"}, NEW next, NEW error, CleanupOwned(p, next, error)
    PROVE  \/ /\ step' = next \/ (step' = error /\ tree[p].receipt \in {"none", "other"})
              /\ cleaning' = NoCleanup /\ tree' = tree
           \/ /\ cleaning' = [place |-> p, next |-> next, error |-> error] /\ step' = step
              /\ tree[p].receipt \in Receipts \union {"tombstone"}
              /\ tree' = [tree EXCEPT ![p] = [tree[p] EXCEPT !.receipt = "tombstone"]]
  <1>1. p \in Places /\ tree[p] \in Trees
    BY DEF TreesInv, Places, Wrappers
  <1>2. State(p) = Classify(tree[p])
    BY DEF State
  <1> QED BY <1>1, <1>2, Classified DEF CleanupOwned, Becomes, Receipts, Trees

(* What a step that neither arms nor sweeps nor counts leaves in its type. *)
LEMMA Frame ==
    ASSUME TreesInv, UNCHANGED <<armed, sweeping, limits>>
    PROVE  /\ armed' \subseteq Wrappers /\ sweeping' \subseteq Wrappers \union {"previous"}
           /\ limits' \in [damages: Nat, kills: Nat, errors: Nat, installs: Nat]
           /\ limits'.damages <= limits.damages /\ limits'.damages = limits.damages
  <1>1. armed' \subseteq Wrappers /\ sweeping' \subseteq Wrappers \union {"previous"}
    BY DEF TreesInv
  <1>2. limits' \in [damages: Nat, kills: Nat, errors: Nat, installs: Nat] /\ limits' = limits
    BY DEF TreesInv
  <1> QED BY <1>1, <1>2

(* A bound is spent, and only that one. *)
LEMMA Spent ==
    ASSUME TreesInv, NEW what \in {"damages", "kills", "errors", "installs"}, Takes(what)
    PROVE  /\ limits' \in [damages: Nat, kills: Nat, errors: Nat, installs: Nat]
           /\ limits'.damages <= limits.damages
           /\ what # "damages" => limits'.damages = limits.damages
           /\ what = "damages" => limits'.damages < limits.damages
  BY DEF TreesInv, Takes

(* One tree is replaced. *)
LEMMA Put ==
    ASSUME TreesInv, NEW p \in Places, NEW t \in Trees, Becomes(p, t),
           p \in Payloads => t.files \subseteq Files,
           t.receipt = "other" => p \in UserPlaces,
           armed' \subseteq Wrappers, sweeping' \subseteq Wrappers \union {"previous"},
           limits' \in [damages: Nat, kills: Nat, errors: Nat, installs: Nat],
           limits'.damages <= limits.damages
    PROVE  /\ TreesInv' /\ tree'[p] = t
           /\ \A q \in Places : q # p => tree'[q] = tree[q]
  <1>0. limits'.damages <= MaxDamages
    BY BoundsAssumption DEF TreesInv
  <1>1. tree' \in [Places -> Trees] /\ tree'[p] = t
    BY DEF TreesInv, Becomes
  <1>2. \A q \in Places : q # p => tree'[q] = tree[q]
    BY DEF TreesInv, Becomes
  <1>3. Payloads \subseteq Places
    BY DEF Payloads, Places
  <1>4. \A q \in Payloads : tree'[q].files \subseteq Files
    BY <1>1, <1>2, <1>3 DEF TreesInv
  <1>5. \A q \in Places : tree'[q].receipt = "other" => q \in UserPlaces
    BY <1>1, <1>2 DEF TreesInv
  <1> QED BY <1>0, <1>1, <1>2, <1>4, <1>5 DEF TreesInv

(* What a place may hold, two places written in one step, and the rest of such a step. *)
Fits(p, t) == /\ t \in Trees /\ (p \in Payloads => t.files \subseteq Files)
              /\ (t.receipt = "other" => p \in UserPlaces)
PutsTwo(p, q, t, u) == tree' = [tree EXCEPT ![p] = t, ![q] = u]
Steady == /\ UNCHANGED <<armed, sweeping>> /\ limits'.damages = limits.damages
          /\ limits' \in [damages: Nat, kills: Nat, errors: Nat, installs: Nat]

(* Two trees are replaced. *)
LEMMA PutTwo ==
    ASSUME TreesInv, NEW p \in Places, NEW q \in Places, p # q,
           NEW t, NEW u, Fits(p, t), Fits(q, u), PutsTwo(p, q, t, u), Steady
    PROVE  /\ TreesInv' /\ tree'[p] = t /\ tree'[q] = u
           /\ \A r \in Places : r \notin {p, q} => tree'[r] = tree[r]
  <1> USE DEF Fits, PutsTwo, Steady
  <1>1. tree' \in [Places -> Trees] /\ tree'[p] = t /\ tree'[q] = u
    BY DEF TreesInv
  <1>2. \A r \in Places : r \notin {p, q} => tree'[r] = tree[r]
    BY DEF TreesInv
  <1>3. Payloads \subseteq Places
    BY DEF Payloads, Places
  <1>4. \A r \in Payloads : tree'[r].files \subseteq Files
    BY <1>1, <1>2, <1>3 DEF TreesInv
  <1>5. \A r \in Places : tree'[r].receipt = "other" => r \in UserPlaces
    BY <1>1, <1>2 DEF TreesInv
  <1> QED BY <1>1, <1>2, <1>4, <1>5 DEF TreesInv

(* ------------------- steps that leave the trees alone -------------------- *)

(* A step along the routes of the cleanups, with nothing to remove. *)
LEMMA RouteKeeps ==
    ASSUME ArtifactsInv, cleaning' = NoCleanup, NEW next, NEW error,
           <<step, next, error>> \in Routes, step' = next \/ step' = error,
           UNCHANGED <<tree, source, needed, armed, failed, limits>>, sweeping' \subseteq sweeping
    PROVE  ArtifactsInv'
  <1>0. TreesInv /\ SourceInv /\ ReadyInv
    BY DEF ArtifactsInv
  <1>1. TreesInv'
    BY <1>0 DEF TreesInv
  <1>2. CleaningInv'
    BY DEF CleaningInv
  <1>3. SourceInv'
    <2>1. step' \in Early => step \in Early
      BY DEF Routes, Early
    <2>2. step' \notin {"make", "mark", "extract"}
      BY DEF Routes
    <2>3. step' \in {"recover", "sweep", "inspect"} => step \in {"recover", "sweep"}
      BY DEF Routes
    <2> QED BY <1>0, <2>1, <2>2, <2>3 DEF SourceInv, OnlyVerified
  <1>4. ReadyInv'
    <2>1. Settled' => Settled
      BY DEF Routes, Settled
    <2> QED BY <1>0, <2>1 DEF ReadyInv, State
  <1> QED BY <1>1, <1>2, <1>3, <1>4 DEF ArtifactsInv

(* The step may stay where it is. *)
LEMMA CleanupOwnedKeeps ==
    ASSUME ArtifactsInv, NEW p \in Wrappers \union {"slot", "previous"}, NEW next, NEW error,
           <<step, next, error>> \in Routes, CleanupOwned(p, next, error),
           UNCHANGED <<source, needed, armed, failed, limits>>, sweeping' \subseteq sweeping
    PROVE  ArtifactsInv'
  <1>0. TreesInv /\ SourceInv /\ ReadyInv
    BY DEF ArtifactsInv
  <1>1. CASE (step' = next \/ step' = error) /\ cleaning' = NoCleanup /\ tree' = tree
    BY <1>1, RouteKeeps
  <1>2. CASE /\ cleaning' = [place |-> p, next |-> next, error |-> error] /\ step' = step
             /\ Becomes(p, [tree[p] EXCEPT !.receipt = "tombstone"])
    <2> DEFINE t == [tree[p] EXCEPT !.receipt = "tombstone"]
    <2>1. p \in Places /\ p # "final" /\ p # "extracted"
      BY DEF Wrappers, Places
    <2>2. tree[p] \in Trees
      BY <1>0, <2>1 DEF TreesInv
    <2>3. /\ t \in Trees /\ t.files = tree[p].files /\ t.receipt = "tombstone"
          /\ t.pinned = tree[p].pinned
      BY <2>2 DEF Trees
    <2>4. p \in Payloads => t.files \subseteq Files
      BY <1>0, <2>3 DEF TreesInv
    <2>41. sweeping' \subseteq Wrappers \union {"previous"} /\ armed' \subseteq Wrappers
      BY <1>0 DEF TreesInv
    <2>42. limits' \in [damages: Nat, kills: Nat, errors: Nat, installs: Nat]
           /\ limits'.damages <= limits.damages
      <3>1. UNCHANGED limits
        OBVIOUS
      <3>2. limits \in [damages: Nat, kills: Nat, errors: Nat, installs: Nat]
        BY <1>0 DEF TreesInv
      <3> QED BY <3>1, <3>2
    <2>5. TreesInv' /\ tree'[p] = t /\ \A q \in Places : q # p => tree'[q] = tree[q]
      <3> HIDE DEF t
      <3> QED BY <1>0, <1>2, <2>1, <2>3, <2>4, <2>41, <2>42, Put DEF t
    <2> HIDE DEF t
    <2>6. CleaningInv'
      BY <1>2, <2>3, <2>5 DEF CleaningInv
    <2>7. SourceInv'
      <3>1. {"final", "extracted", "import"} \subseteq Places
        BY DEF Places, Wrappers
      <3>2. tree'["extracted"] = tree["extracted"] /\ tree'["import"].pinned = tree["import"].pinned
        BY <2>1, <2>3, <2>5, <3>1
      <3>3. OnlyVerified'
        BY <1>0, <2>3, <2>5 DEF SourceInv, OnlyVerified, CacheReady, MatchingReceipt, Receipts
      <3> QED BY <1>0, <1>2, <3>2, <3>3 DEF SourceInv
    <2>8. ReadyInv'
      <3>1. tree'["final"] = tree["final"]
        BY <2>1, <2>5 DEF Places
      <3> QED BY <1>0, <1>2, <3>1 DEF ReadyInv, Settled, NextWork, State
    <2> QED BY <2>5, <2>6, <2>7, <2>8 DEF ArtifactsInv
  <1> QED BY <1>0, <1>1, <1>2, CleanupEffect DEF Becomes

(* install_recovery::recover: the canonical tree wins, the slot is discarded. *)
LEMMA RecoverKeeps ==
    ASSUME ArtifactsInv, cleaning = NoCleanup, NEW next, NEW error,
           <<step, next, error>> \in Routes, Recover(next, error),
           UNCHANGED <<source, needed, armed, failed, sweeping, limits>>
    PROVE  ArtifactsInv'
  <1>1. CASE (step' = next \/ step' = error) /\ UNCHANGED <<tree, cleaning>>
    BY <1>1, RouteKeeps
  <1>2. CASE CleanupOwned("slot", next, error)
    BY <1>2, CleanupOwnedKeeps
  <1> QED BY <1>1, <1>2 DEF Recover

(* The recovery an installation begins with. *)
LEMMA RecoverFirstKeeps ==
    ASSUME ArtifactsInv, RecoverFirst
    PROVE  ArtifactsInv'
  <1>1. <<step, "sweep", "refused">> \in Routes /\ cleaning = NoCleanup
    BY DEF RecoverFirst, Working, Routes
  <1>2. Recover("sweep", "refused")
        /\ UNCHANGED <<source, needed, armed, failed, sweeping, limits>>
    BY DEF RecoverFirst
  <1> QED BY <1>1, <1>2, RecoverKeeps

(* import_archive_locked recovers once more. *)
LEMMA RecoverAgainKeeps ==
    ASSUME ArtifactsInv, RecoverAgain
    PROVE  ArtifactsInv'
  <1>1. <<step, "inspect again", "error">> \in Routes /\ cleaning = NoCleanup
    BY DEF RecoverAgain, Working, Routes
  <1>2. Recover("inspect again", "error")
        /\ UNCHANGED <<source, needed, armed, failed, sweeping, limits>>
    BY DEF RecoverAgain
  <1> QED BY <1>1, <1>2, RecoverKeeps

(* The recovery activate_component runs first. *)
LEMMA ActivateRecoversKeeps ==
    ASSUME ArtifactsInv, ActivateRecovers
    PROVE  ArtifactsInv'
  <1>1. <<step, "reserve", "error">> \in Routes /\ cleaning = NoCleanup
    BY DEF ActivateRecovers, Working, Routes
  <1>2. Recover("reserve", "error")
        /\ UNCHANGED <<source, needed, armed, failed, sweeping, limits>>
    BY DEF ActivateRecovers
  <1> QED BY <1>1, <1>2, RecoverKeeps

(* The recovery that follows an error. *)
LEMMA RecoverLastKeeps ==
    ASSUME ArtifactsInv, RecoverLast
    PROVE  ArtifactsInv'
  <1>1. <<step, "drop staging", "error">> \in Routes /\ cleaning = NoCleanup
    BY DEF RecoverLast, Working, Routes
  <1>2. Recover("drop staging", "error")
        /\ UNCHANGED <<source, needed, armed, failed, sweeping, limits>>
    BY DEF RecoverLast
  <1> QED BY <1>1, <1>2, RecoverKeeps

(* sweep_residue: old backups go only beside a Ready tree. *)
LEMMA SweepResidueKeeps ==
    ASSUME ArtifactsInv, SweepResidue
    PROVE  ArtifactsInv'
  <1>0. step = "sweep" /\ cleaning = NoCleanup /\ UNCHANGED <<source, needed, armed, failed, limits>>
    BY DEF SweepResidue, Working
  <1>1. <<step, "sweep", "sweep">> \in Routes
    BY <1>0 DEF Routes
  <1>2. CASE sweeping = {} /\ step' = "inspect" /\ UNCHANGED <<tree, cleaning, sweeping>>
    <2>0. TreesInv /\ SourceInv /\ ReadyInv
      BY DEF ArtifactsInv
    <2>1. TreesInv'
      BY <1>0, <1>2, <2>0 DEF TreesInv
    <2>2. CleaningInv'
      BY <1>0, <1>2 DEF CleaningInv
    <2>3. SourceInv'
      BY <1>0, <1>2, <2>0 DEF SourceInv, OnlyVerified, Early
    <2>4. ReadyInv'
      BY <1>2 DEF ReadyInv, Settled
    <2> QED BY <2>1, <2>2, <2>3, <2>4 DEF ArtifactsInv
  <1>3. CASE \E p \in sweeping :
                /\ sweeping' = sweeping \ {p}
                /\ IF p = "previous" /\ State("final") # "Ready"
                     THEN UNCHANGED <<tree, cleaning, step>>
                     ELSE CleanupOwned(p, "sweep", "sweep")
    <2>1. PICK p \in sweeping :
                /\ sweeping' = sweeping \ {p}
                /\ \/ UNCHANGED <<tree, cleaning, step>>
                   \/ CleanupOwned(p, "sweep", "sweep")
      BY <1>3
    <2>2. p \in Wrappers \union {"slot", "previous"} /\ sweeping' \subseteq sweeping
      BY <2>1 DEF ArtifactsInv, TreesInv
    <2>3. CASE UNCHANGED <<tree, cleaning, step>>
      BY <1>0, <1>1, <2>2, <2>3, RouteKeeps
    <2>4. CASE CleanupOwned(p, "sweep", "sweep")
      BY <1>0, <1>1, <2>2, <2>4, CleanupOwnedKeeps
    <2> QED BY <2>1, <2>3, <2>4
  <1> QED BY <1>2, <1>3 DEF SweepResidue

(* The wrappers the operation armed are dropped. *)
LEMMA DropWorkKeeps ==
    ASSUME ArtifactsInv, DropWork
    PROVE  ArtifactsInv'
  <1>0. cleaning = NoCleanup /\ UNCHANGED <<source, needed, armed, failed, sweeping, limits>>
    BY DEF DropWork, Working
  <1>1. PICK p \in Wrappers, next \in {"drop import", "drop download", "free"} :
            <<step, next, next>> \in Routes /\ DropArmed(p, next)
    BY DEF DropWork, Working, Routes, Wrappers
  <1>2. CASE p \in armed
    BY <1>0, <1>1, <1>2, CleanupOwnedKeeps DEF DropArmed
  <1>3. CASE p \notin armed
    BY <1>0, <1>1, <1>3, RouteKeeps DEF DropArmed
  <1> QED BY <1>2, <1>3

(* An installation begins. *)
LEMMA BeginInstallKeeps ==
    ASSUME ArtifactsInv, BeginInstall
    PROVE  ArtifactsInv'
  <1>0. TreesInv /\ CleaningInv /\ SourceInv /\ ReadyInv
    BY DEF ArtifactsInv
  <1>1. TreesInv'
    BY <1>0
       DEF BeginInstall, Takes, TreesInv, Wrappers
  <1>2. CleaningInv'
    BY <1>0
       DEF BeginInstall, CleaningInv, NoCleanup, Routes, Takes, Wrappers
  <1>3. SourceInv'
    BY <1>0
       DEF BeginInstall, CleaningInv, Early, NoCleanup, OnlyVerified, Routes, SourceInv,
           Takes, Wrappers
  <1>4. ReadyInv'
    BY <1>0
       DEF BeginInstall, CleaningInv, Early, NoCleanup, ReadyInv, Routes, Settled, State,
           Takes, Wrappers
  <1> QED BY <1>1, <1>2, <1>3, <1>4 DEF ArtifactsInv

(* An error that the operation returns. *)
LEMMA ReturnsErrorKeeps ==
    ASSUME ArtifactsInv, ReturnsError
    PROVE  ArtifactsInv'
  <1>0. TreesInv /\ CleaningInv /\ SourceInv /\ ReadyInv
    BY DEF ArtifactsInv
  <1>1. TreesInv'
    BY <1>0
       DEF NoCleanup, ReturnsError, TreesInv, Working
  <1>2. CleaningInv'
    BY <1>0
       DEF CleaningInv, NoCleanup, ReturnsError, Routes, Working
  <1>3. SourceInv'
    BY <1>0
       DEF CleaningInv, Early, NoCleanup, OnlyVerified, ReturnsError, Routes, SourceInv,
           Working
  <1>4. ReadyInv'
    BY <1>0
       DEF CleaningInv, Early, NoCleanup, ReadyInv, ReturnsError, Routes, Settled, State,
           Working
  <1> QED BY <1>1, <1>2, <1>3, <1>4 DEF ArtifactsInv

(* import_archive_locked inspects again. *)
LEMMA InspectAgainKeeps ==
    ASSUME ArtifactsInv, InspectAgain
    PROVE  ArtifactsInv'
  <1>0. TreesInv /\ CleaningInv /\ SourceInv /\ ReadyInv
    BY DEF ArtifactsInv
  <1>1. TreesInv'
    BY <1>0
       DEF InspectAgain, NoCleanup, TreesInv, Working
  <1>2. CleaningInv'
    BY <1>0
       DEF CleaningInv, InspectAgain, NoCleanup, Routes, Working
  <1>3. SourceInv'
    BY <1>0
       DEF CleaningInv, Early, InspectAgain, NoCleanup, OnlyVerified, Routes, SourceInv,
           Working
  <1>4. ReadyInv'
    BY <1>0
       DEF CleaningInv, Early, InspectAgain, NoCleanup, ReadyInv, Routes, Settled, State,
           Working
  <1> QED BY <1>1, <1>2, <1>3, <1>4 DEF ArtifactsInv

(* An error before any wrapper was made. *)
LEMMA RefusedKeeps ==
    ASSUME ArtifactsInv, Refused
    PROVE  ArtifactsInv'
  <1>0. TreesInv /\ CleaningInv /\ SourceInv /\ ReadyInv
    BY DEF ArtifactsInv
  <1>1. TreesInv'
    BY <1>0
       DEF NoCleanup, Refused, TreesInv, Working
  <1>2. CleaningInv'
    BY <1>0
       DEF CleaningInv, NoCleanup, Refused, Routes, Working
  <1>3. SourceInv'
    BY <1>0
       DEF CleaningInv, Early, NoCleanup, OnlyVerified, Refused, Routes, SourceInv, Working
  <1>4. ReadyInv'
    BY <1>0
       DEF CleaningInv, Early, NoCleanup, ReadyInv, Refused, Routes, Settled, State, Working
  <1> QED BY <1>1, <1>2, <1>3, <1>4 DEF ArtifactsInv

(* An I/O error of the step the owner stands at. *)
LEMMA StepFailsKeeps ==
    ASSUME ArtifactsInv, StepFails
    PROVE  ArtifactsInv'
  <1>0. TreesInv /\ CleaningInv /\ SourceInv /\ ReadyInv
    BY DEF ArtifactsInv
  <1>1. TreesInv'
    BY <1>0
       DEF NoCleanup, StepFails, Takes, TreesInv
  <1>2. CleaningInv'
    BY <1>0
       DEF CleaningInv, NoCleanup, Routes, StepFails, Takes
  <1>3. SourceInv'
    BY <1>0
       DEF CleaningInv, Early, NoCleanup, OnlyVerified, Routes, SourceInv, StepFails, Takes
  <1>4. ReadyInv'
    BY <1>0
       DEF CleaningInv, Early, NoCleanup, ReadyInv, Routes, Settled, State, StepFails, Takes
  <1> QED BY <1>1, <1>2, <1>3, <1>4 DEF ArtifactsInv

(* The launcher is killed. *)
LEMMA OwnerKilledKeeps ==
    ASSUME ArtifactsInv, OwnerKilled
    PROVE  ArtifactsInv'
  <1>0. TreesInv /\ CleaningInv /\ SourceInv /\ ReadyInv
    BY DEF ArtifactsInv
  <1>1. TreesInv'
    BY <1>0
       DEF NoCleanup, OwnerKilled, Takes, TreesInv
  <1>2. CleaningInv'
    BY <1>0
       DEF CleaningInv, NoCleanup, OwnerKilled, Routes, Takes
  <1>3. SourceInv'
    BY <1>0
       DEF CleaningInv, Early, NoCleanup, OnlyVerified, OwnerKilled, Routes, SourceInv,
           Takes
  <1>4. ReadyInv'
    BY <1>0
       DEF CleaningInv, Early, NoCleanup, OwnerKilled, ReadyInv, Routes, Settled, State,
           Takes
  <1> QED BY <1>1, <1>2, <1>3, <1>4 DEF ArtifactsInv

(* A deletion that fails. *)
LEMMA CleanupFailsKeeps ==
    ASSUME ArtifactsInv, CleanupFails
    PROVE  ArtifactsInv'
  <1>1. <<step, cleaning.next, cleaning.error>> \in Routes /\ cleaning' = NoCleanup
        /\ step' = cleaning.error
    BY DEF CleanupFails, ArtifactsInv, CleaningInv
  <1>0. TreesInv /\ SourceInv /\ ReadyInv
    BY DEF ArtifactsInv
  <1>2. UNCHANGED <<tree, source, needed, armed, failed, sweeping>> /\ Takes("errors")
    BY DEF CleanupFails
  <1>21. limits' \in [damages: Nat, kills: Nat, errors: Nat, installs: Nat]
         /\ limits'.damages = limits.damages
    BY <1>0, <1>2, Spent
  <1>3. TreesInv'
    BY <1>0, <1>2, <1>21 DEF TreesInv
  <1>4. CleaningInv'
    BY <1>1 DEF CleaningInv
  <1>5. SourceInv'
    <2>1. step' \in Early => step \in Early
      BY <1>1 DEF Routes, Early
    <2>2. step' \notin {"make", "mark", "extract"}
      BY <1>1 DEF Routes
    <2>3. step' \in {"recover", "sweep", "inspect"} => step \in {"recover", "sweep"}
      BY <1>1 DEF Routes
    <2> QED BY <1>0, <1>2, <2>1, <2>2, <2>3 DEF SourceInv, OnlyVerified
  <1>6. ReadyInv'
    <2>1. Settled' => Settled
      BY <1>1 DEF Routes, Settled
    <2> QED BY <1>0, <1>2, <1>21, <2>1 DEF ReadyInv, State
  <1> QED BY <1>3, <1>4, <1>5, <1>6 DEF ArtifactsInv

(* In a deletion the receipt goes after the files. *)
LEMMA CleanupEvidenceKeeps ==
    ASSUME ArtifactsInv, CleanupEvidence
    PROVE  ArtifactsInv'
  <1> DEFINE p == cleaning.place
  <1>0. TreesInv /\ CleaningInv /\ SourceInv /\ ReadyInv
    BY DEF ArtifactsInv
  <1>1. /\ p \in Wrappers \union {"slot", "previous"}
        /\ <<step, cleaning.next, cleaning.error>> \in Routes
    BY <1>0 DEF CleanupEvidence, CleaningInv
  <1>2. p \in Places /\ p # "final" /\ p # "extracted"
    BY <1>1 DEF Wrappers, Places
  <1>3. UNCHANGED <<step, source, needed, armed, failed, cleaning, sweeping, limits>>
        /\ Becomes(p, Directory)
    BY DEF CleanupEvidence
  <1>4. TreesInv' /\ tree'[p] = Directory /\ \A q \in Places : q # p => tree'[q] = tree[q]
    <2>1. Directory \in Trees /\ Directory.files = {} /\ Directory.receipt = "none"
      BY DEF Directory, Trees
    <2>2. armed' \subseteq Wrappers /\ sweeping' \subseteq Wrappers \union {"previous"}
          /\ limits' \in [damages: Nat, kills: Nat, errors: Nat, installs: Nat]
          /\ limits'.damages <= limits.damages
      BY <1>0, <1>3, Frame
    <2> QED BY <1>0, <1>2, <1>3, <2>1, <2>2, Put
  <1>5. CleaningInv'
    BY <1>1, <1>3, <1>4 DEF CleaningInv, Directory
  <1>6. OnlyVerified'
    BY <1>0, <1>4 DEF SourceInv, OnlyVerified, CacheReady, MatchingReceipt, Receipts, Directory
  <1>7. SourceInv'
    <2>1. step \notin {"make", "mark", "extract"}
      BY <1>1 DEF Routes
    <2> QED BY <1>0, <1>2, <1>3, <1>4, <1>6, <2>1 DEF SourceInv, Places
  <1>8. ReadyInv'
    BY <1>0, <1>2, <1>3, <1>4 DEF ReadyInv, State, Settled, NextWork, Places
  <1> QED BY <1>4, <1>5, <1>7, <1>8 DEF ArtifactsInv

(* A deletion ends with the directory. *)
LEMMA CleanupDirectoryKeeps ==
    ASSUME ArtifactsInv, CleanupDirectory
    PROVE  ArtifactsInv'
  <1> DEFINE p == cleaning.place
  <1>0. TreesInv /\ CleaningInv /\ SourceInv /\ ReadyInv
    BY DEF ArtifactsInv
  <1>1. /\ p \in Wrappers \union {"slot", "previous"}
        /\ <<step, cleaning.next, cleaning.error>> \in Routes
    BY <1>0 DEF CleanupDirectory, CleaningInv
  <1>2. p \in Places /\ p # "final" /\ p # "extracted"
    BY <1>1 DEF Wrappers, Places
  <1>3. UNCHANGED <<source, needed, armed, failed, sweeping, limits>> /\ cleaning' = NoCleanup
        /\ step' = cleaning.next /\ Becomes(p, NoTree)
    BY DEF CleanupDirectory
  <1>4. TreesInv' /\ tree'[p] = NoTree /\ \A q \in Places : q # p => tree'[q] = tree[q]
    <2>1. NoTree \in Trees /\ NoTree.files = {} /\ NoTree.receipt = "absent"
      BY DEF NoTree, Trees
    <2>2. armed' \subseteq Wrappers /\ sweeping' \subseteq Wrappers \union {"previous"}
          /\ limits' \in [damages: Nat, kills: Nat, errors: Nat, installs: Nat]
          /\ limits'.damages <= limits.damages
      BY <1>0, <1>3, Frame
    <2> QED BY <1>0, <1>2, <1>3, <2>1, <2>2, Put
  <1>5. CleaningInv'
    BY <1>3 DEF CleaningInv
  <1>6. OnlyVerified'
    BY <1>0, <1>4 DEF SourceInv, OnlyVerified, CacheReady, MatchingReceipt, Receipts, NoTree
  <1>7. SourceInv'
    <2>1. step' \notin {"make", "mark", "extract"} /\ (step' \in Early => step \in Early)
      BY <1>1, <1>3 DEF Routes, Early
    <2>2. step' \in {"recover", "sweep", "inspect"} => step \in {"recover", "sweep"}
      BY <1>1, <1>3 DEF Routes
    <2> QED BY <1>0, <1>2, <1>3, <1>4, <1>6, <2>1, <2>2 DEF SourceInv, Places
  <1>8. ReadyInv'
    <2>1. Settled' => Settled
      BY <1>1, <1>3 DEF Routes, Settled
    <2>2. tree'["final"] = tree["final"]
      BY <1>2, <1>4 DEF Places
    <2> QED BY <1>0, <1>3, <2>1, <2>2 DEF ReadyInv, State
  <1> QED BY <1>4, <1>5, <1>7, <1>8 DEF ArtifactsInv

(* The staging directory holds the extracted tree, which goes with its entry. *)
LEMMA CleanupEntryKeeps ==
    ASSUME ArtifactsInv, CleanupEntry
    PROVE  ArtifactsInv'
  <1> DEFINE p == cleaning.place
  <1>0. TreesInv /\ CleaningInv /\ SourceInv /\ ReadyInv
    BY DEF ArtifactsInv
  <1>1. /\ p \in Wrappers \union {"slot", "previous"}
        /\ tree[p].receipt \in {"tombstone", "none"}
        /\ <<step, cleaning.next, cleaning.error>> \in Routes
    BY <1>0 DEF CleanupEntry, CleaningInv
  <1>2. p \in Places /\ p # "final" /\ p # "extracted" /\ "extracted" \in Places
        /\ "final" \in Places /\ "import" \in Places
    BY <1>1 DEF Wrappers, Places
  <1>3. UNCHANGED <<step, source, needed, armed, failed, cleaning, sweeping, limits>>
    BY DEF CleanupEntry
  <1>4. PICK f \in tree[p].files :
            tree' = IF p = "staging"
                      THEN [tree EXCEPT !["staging"].files = @ \ {f}, !["extracted"] = NoTree]
                      ELSE [tree EXCEPT ![p].files = @ \ {f}]
    BY DEF CleanupEntry
  <1> DEFINE t == [tree[p] EXCEPT !.files = @ \ {f}]
  <1>5. tree[p] \in Trees
    BY <1>0, <1>2 DEF TreesInv
  <1>6. /\ t \in Trees /\ t.files \subseteq tree[p].files
        /\ t.receipt = tree[p].receipt /\ t.pinned = tree[p].pinned
    BY <1>5 DEF Trees
  <1>7. NoTree \in Trees /\ NoTree.files = {} /\ NoTree.receipt = "absent"
    BY DEF NoTree, Trees
  <1>8. p \in Payloads => t.files \subseteq Files
    BY <1>0, <1>6 DEF TreesInv
  <1>9. /\ TreesInv' /\ tree'[p] = t
        /\ \A q \in Places : q \notin {p, "extracted"} => tree'[q] = tree[q]
        /\ tree'["extracted"] \in {tree["extracted"], NoTree}
    <2>1. armed' \subseteq Wrappers /\ sweeping' \subseteq Wrappers \union {"previous"}
          /\ limits' \in [damages: Nat, kills: Nat, errors: Nat, installs: Nat]
          /\ limits'.damages = limits.damages
      BY <1>0, <1>3, Frame
    <2>2. CASE p = "staging"
      <3>1. tree' = [tree EXCEPT ![p] = t, !["extracted"] = NoTree]
        BY <1>4, <2>2
      <3>2. UNCHANGED <<armed, sweeping>> /\ limits'.damages = limits.damages
          /\ limits' \in [damages: Nat, kills: Nat, errors: Nat, installs: Nat]
        BY <1>0, <1>3, Frame
      <3>3. t.receipt # "other" /\ NoTree.receipt # "other" /\ NoTree.files \subseteq Files
        BY <1>1, <1>6, <1>7
      <3> HIDE DEF t, p
      <3>4. Fits(p, t) /\ Fits("extracted", NoTree)
        BY <1>2, <1>6, <1>7, <1>8, <3>3 DEF Fits
      <3>5. PutsTwo(p, "extracted", t, NoTree)
        BY <3>1 DEF PutsTwo
      <3>6. Steady
        BY <1>8, <3>2 DEF Steady
      <3> QED BY <1>0, <1>2, <3>4, <3>5, <3>6, PutTwo
    <2>3. CASE p # "staging"
      <3>1. Becomes(p, t)
        BY <1>4, <2>3 DEF Becomes
      <3>2. limits'.damages <= limits.damages
        BY <1>0, <1>3, Frame
      <3> HIDE DEF t
      <3>3. TreesInv' /\ tree'[p] = t /\ \A q \in Places : q # p => tree'[q] = tree[q]
        BY <1>0, <1>1, <1>2, <1>6, <1>8, <2>1, <3>1, <3>2, Put
      <3> QED BY <1>2, <3>3
    <2> QED BY <2>2, <2>3
  <1> HIDE DEF t
  <1>10. CleaningInv'
    BY <1>1, <1>3, <1>6, <1>9 DEF CleaningInv
  <1>11. OnlyVerified'
    BY <1>0, <1>1, <1>6, <1>7, <1>9
       DEF SourceInv, OnlyVerified, CacheReady, MatchingReceipt, PayloadReady, Receipts
  <1>12. SourceInv'
    <2>1. step \notin {"make", "mark", "extract"}
      BY <1>1 DEF Routes
    <2> QED BY <1>0, <1>3, <1>7, <1>9, <1>11, <2>1 DEF SourceInv
  <1>13. ReadyInv'
    <2>1. tree'["final"] = tree["final"]
      BY <1>2, <1>9
    <2> QED BY <1>0, <1>3, <2>1 DEF ReadyInv, State, Settled, NextWork
  <1> QED BY <1>9, <1>10, <1>12, <1>13 DEF ArtifactsInv

(* elevate_v1 changes the name of the receipt, and no more. *)
LEMMA InspectKeeps ==
    ASSUME ArtifactsInv, Inspect
    PROVE  ArtifactsInv'
  <1>0. TreesInv /\ CleaningInv /\ SourceInv /\ ReadyInv
    BY DEF ArtifactsInv
  <1>1. step = "inspect" /\ cleaning = NoCleanup
        /\ UNCHANGED <<source, needed, armed, failed, cleaning, sweeping, limits>>
        /\ step' \in {"free", "recover again", "make", "refused"}
    BY DEF Inspect, Working
  <1>2. PICK t : /\ Becomes("final", t) \/ (t = tree["final"] /\ UNCHANGED tree)
                 /\ t \in Elevated(tree["final"])
    BY DEF Inspect, Elevated
  <1>3. "final" \in Places /\ "import" \in Places /\ "extracted" \in Places
        /\ "final" \in Payloads /\ "final" \in UserPlaces
    BY DEF Places, Wrappers, Payloads, UserPlaces
  <1>4. tree["final"] \in Trees /\ tree["final"].files \subseteq Files
    BY <1>0, <1>3 DEF TreesInv
  <1>5. /\ t \in Trees /\ t.files = tree["final"].files /\ t.pinned = tree["final"].pinned
        /\ t.receipt \in Receipts => tree["final"].receipt \in Receipts
        /\ t.receipt = "other" => tree["final"].receipt = "other"
    BY <1>2, <1>4 DEF Elevated, Trees, Receipts
  <1>6. /\ TreesInv' /\ tree'["final"] = t
        /\ \A q \in Places : q # "final" => tree'[q] = tree[q]
    <2>1. armed' \subseteq Wrappers /\ sweeping' \subseteq Wrappers \union {"previous"}
          /\ limits' \in [damages: Nat, kills: Nat, errors: Nat, installs: Nat]
          /\ limits'.damages <= limits.damages
      BY <1>0, <1>1, Frame
    <2>2. CASE Becomes("final", t)
      <3>1. t.files \subseteq Files
        BY <1>4, <1>5
      <3> QED BY <1>0, <1>3, <1>5, <2>1, <2>2, <3>1, Put
    <2>3. CASE t = tree["final"] /\ UNCHANGED tree
      BY <1>0, <1>1, <2>3 DEF TreesInv
    <2> QED BY <1>2, <2>2, <2>3
  <1>7. CleaningInv'
    BY <1>1 DEF CleaningInv
  <1>8. OnlyVerified'
    BY <1>0, <1>3, <1>5, <1>6 DEF SourceInv, OnlyVerified, CacheReady, MatchingReceipt, PayloadReady
  <1>9. SourceInv'
    BY <1>0, <1>1, <1>3, <1>6, <1>8 DEF SourceInv, Early
  <1>10. ReadyInv'
    <2>1. step' = "make" => armed' = {} /\ source' = "download"
      <3>1. step' = "make" => source = "download"
        BY DEF Inspect
      <3>2. armed = {}
        BY <1>0, <1>1 DEF SourceInv
      <3> QED BY <1>1, <3>1, <3>2
    <2> QED BY <1>1, <2>1 DEF ReadyInv, Settled, NextWork
  <1> QED BY <1>6, <1>7, <1>9, <1>10 DEF ArtifactsInv

(* A wrapper is made empty, and a new staging directory holds no extracted tree. *)
LEMMA MakeWorkKeeps ==
    ASSUME ArtifactsInv, NEW p \in Wrappers, MakeWork(p)
    PROVE  ArtifactsInv'
  <1>0. TreesInv /\ CleaningInv /\ SourceInv /\ ReadyInv
    BY DEF ArtifactsInv
  <1>1. step = "make" /\ cleaning = NoCleanup /\ p = NextWork /\ step' = "mark"
        /\ UNCHANGED <<source, needed, armed, failed, cleaning, sweeping, limits>>
    BY DEF MakeWork, Working
  <1>2. p \in Places /\ p # "final" /\ p # "extracted" /\ "extracted" \in Places
        /\ "final" \in Places /\ "import" \in Places
    BY DEF Wrappers, Places
  <1>3. Directory \in Trees /\ Directory.files = {} /\ Directory.receipt = "none"
        /\ NoTree \in Trees /\ NoTree.files = {} /\ NoTree.receipt = "absent"
    BY DEF Directory, NoTree, Trees
  <1>4. /\ TreesInv' /\ tree'[p] = Directory
        /\ \A q \in Places : q \notin {p, "extracted"} => tree'[q] = tree[q]
        /\ tree'["extracted"] \in {tree["extracted"], NoTree}
    <2>1. armed' \subseteq Wrappers /\ sweeping' \subseteq Wrappers \union {"previous"}
          /\ limits' \in [damages: Nat, kills: Nat, errors: Nat, installs: Nat]
          /\ limits'.damages <= limits.damages
          /\ limits'.damages = limits.damages /\ UNCHANGED <<armed, sweeping>>
      BY <1>0, <1>1, Frame
    <2>2. CASE p = "staging"
      <3>1. tree' = [tree EXCEPT ![p] = Directory, !["extracted"] = NoTree]
        BY <2>2 DEF MakeWork
      <3>2. Fits(p, Directory) /\ Fits("extracted", NoTree)
        BY <1>3 DEF Fits
      <3>3. PutsTwo(p, "extracted", Directory, NoTree)
        BY <3>1 DEF PutsTwo
      <3>4. Steady
        BY <2>1 DEF Steady
      <3> QED BY <1>0, <1>2, <3>2, <3>3, <3>4, PutTwo
    <2>3. CASE p # "staging"
      <3>1. Becomes(p, Directory)
        BY <2>3 DEF MakeWork, Becomes
      <3>2. TreesInv' /\ tree'[p] = Directory /\ \A q \in Places : q # p => tree'[q] = tree[q]
        BY <1>0, <1>2, <1>3, <2>1, <3>1, Put
      <3> QED BY <1>2, <3>2
    <2> QED BY <2>2, <2>3
  <1>5. CleaningInv'
    BY <1>1 DEF CleaningInv
  <1>6. OnlyVerified'
    BY <1>0, <1>3, <1>4 DEF SourceInv, OnlyVerified, CacheReady, MatchingReceipt, Receipts
  <1>7. "import" \in armed => p # "import"
    BY <1>1 DEF NextWork
  <1>8. SourceInv'
    BY <1>0, <1>1, <1>2, <1>3, <1>4, <1>6, <1>7 DEF SourceInv, Early
  <1>9. ReadyInv'
    BY <1>0, <1>1, <1>2, <1>4 DEF ReadyInv, State, Settled, NextWork
  <1> QED BY <1>4, <1>5, <1>8, <1>9 DEF ArtifactsInv

(* The staging wrapper comes after a snapshot that was verified. *)
LEMMA MarkWorkKeeps ==
    ASSUME ArtifactsInv, NEW p \in Wrappers, MarkWork(p)
    PROVE  ArtifactsInv'
  <1> DEFINE t == [Directory EXCEPT !.receipt = "v2"]
  <1>0. TreesInv /\ CleaningInv /\ SourceInv /\ ReadyInv
    BY DEF ArtifactsInv
  <1>1. step = "mark" /\ cleaning = NoCleanup /\ p = NextWork /\ armed' = armed \union {p}
        /\ UNCHANGED <<source, needed, failed, cleaning, sweeping, limits>>
        /\ Becomes(p, t)
    BY DEF MarkWork, Working
  <1>2. p \in Places /\ p # "final" /\ p # "extracted" /\ "extracted" \in Places
        /\ "final" \in Places /\ "import" \in Places /\ p \notin Payloads
    BY DEF Wrappers, Places, Payloads
  <1>3. t \in Trees /\ t.files = {} /\ t.receipt = "v2"
    BY DEF Directory, Trees, Receipts
  <1>4. TreesInv' /\ tree'[p] = t /\ \A q \in Places : q # p => tree'[q] = tree[q]
    <2>1. armed' \subseteq Wrappers /\ sweeping' \subseteq Wrappers \union {"previous"}
          /\ limits' \in [damages: Nat, kills: Nat, errors: Nat, installs: Nat]
          /\ limits'.damages <= limits.damages
      BY <1>0, <1>1 DEF TreesInv
    <2> HIDE DEF t
    <2> QED BY <1>0, <1>1, <1>2, <1>3, <2>1, Put
  <1> HIDE DEF t
  <1>5. CleaningInv'
    BY <1>1 DEF CleaningInv
  <1>6. OnlyVerified'
    BY <1>0, <1>3, <1>4, FilesAssumption DEF SourceInv, OnlyVerified, CacheReady, PayloadReady
  <1>7. \/ p = "download" /\ armed = {} /\ step' = "fetch"
        \/ p = "import" /\ step' = "snapshot"
        \/ p = "staging" /\ "import" \in armed /\ step' = "extract"
    BY <1>1 DEF MarkWork, NextWork
  <1>8. SourceInv'
    BY <1>0, <1>1, <1>2, <1>4, <1>6, <1>7 DEF SourceInv, Early
  <1>9. ReadyInv'
    BY <1>0, <1>1, <1>2, <1>4, <1>7 DEF ReadyInv, State, Settled
  <1> QED BY <1>4, <1>5, <1>8, <1>9 DEF ArtifactsInv

(* An archive is no payload, so its wrapper is never Ready. *)
LEMMA FetchKeeps ==
    ASSUME ArtifactsInv, Fetch
    PROVE  ArtifactsInv'
  <1>0. TreesInv /\ CleaningInv /\ SourceInv /\ ReadyInv
    BY DEF ArtifactsInv
  <1>1. step = "fetch" /\ cleaning = NoCleanup /\ step' \in {"recover again", "error"}
        /\ UNCHANGED <<source, needed, armed, failed, cleaning, sweeping, limits>>
    BY DEF Fetch, Working
  <1>2. PICK pinned \in BOOLEAN :
            Becomes("download", [tree["download"] EXCEPT !.files = {"archive"}, !.pinned = pinned])
    BY DEF Fetch
  <1> DEFINE t == [tree["download"] EXCEPT !.files = {"archive"}, !.pinned = pinned]
  <1>3. "download" \in Places /\ "extracted" \in Places
        /\ "final" \in Places /\ "import" \in Places /\ "download" \notin Payloads
        /\ "download" \notin UserPlaces
    BY DEF Wrappers, Places, Payloads, UserPlaces
  <1>4. tree["download"] \in Trees /\ tree["download"].receipt # "other"
    BY <1>0, <1>3 DEF TreesInv
  <1>5. t \in Trees /\ t.files = {"archive"} /\ t.receipt # "other"
    BY <1>4 DEF Trees
  <1>6. TreesInv' /\ tree'["download"] = t
        /\ \A q \in Places : q # "download" => tree'[q] = tree[q]
    <2>1. armed' \subseteq Wrappers /\ sweeping' \subseteq Wrappers \union {"previous"}
          /\ limits' \in [damages: Nat, kills: Nat, errors: Nat, installs: Nat]
          /\ limits'.damages <= limits.damages
      BY <1>0, <1>1, Frame
    <2>2. Becomes("download", t)
      BY <1>2
    <2> HIDE DEF t
    <2> QED BY <1>0, <1>3, <1>5, <2>1, <2>2, Put
  <1> HIDE DEF t
  <1>7. CleaningInv'
    BY <1>1 DEF CleaningInv
  <1>8. OnlyVerified'
    BY <1>0, <1>5, <1>6, FilesAssumption DEF SourceInv, OnlyVerified, CacheReady, PayloadReady
  <1>9. SourceInv'
    BY <1>0, <1>1, <1>3, <1>6, <1>8 DEF SourceInv, Early
  <1>10. ReadyInv'
    BY <1>1 DEF ReadyInv, Settled
  <1> QED BY <1>6, <1>7, <1>9, <1>10 DEF ArtifactsInv

(* Only a snapshot with the catalogue's digest is extracted. *)
LEMMA SnapshotArchiveKeeps ==
    ASSUME ArtifactsInv, SnapshotArchive
    PROVE  ArtifactsInv'
  <1>0. TreesInv /\ CleaningInv /\ SourceInv /\ ReadyInv
    BY DEF ArtifactsInv
  <1>1. step = "snapshot" /\ cleaning = NoCleanup
        /\ UNCHANGED <<source, needed, armed, failed, cleaning, sweeping, limits>>
    BY DEF SnapshotArchive, Working
  <1>2. "download" \in Places /\ "extracted" \in Places
        /\ "final" \in Places /\ "import" \in Places /\ "import" \notin Payloads
        /\ "import" \notin UserPlaces
    BY DEF Wrappers, Places, Payloads, UserPlaces
  <1>3. tree["import"] \in Trees /\ tree["import"].receipt # "other"
        /\ tree["download"].pinned \in BOOLEAN
    BY <1>0, <1>2 DEF TreesInv, Trees
  <1>4. PICK pinned \in BOOLEAN :
           /\ Becomes("import", [tree["import"] EXCEPT !.files = {"archive"}, !.pinned = pinned])
           /\ step' = CASE ~Verified(pinned) -> "error"
                        [] Verified(pinned) /\ needed -> "make"
                        [] OTHER -> "drop staging"
    BY <1>3 DEF SnapshotArchive
  <1>5. \/ step' = "error" \/ (step' = "make" /\ pinned = TRUE /\ needed)
        \/ (step' = "drop staging" /\ ~needed)
    BY <1>4 DEF Verified
  <1> DEFINE t == [tree["import"] EXCEPT !.files = {"archive"}, !.pinned = pinned]
  <1>6. t \in Trees /\ t.files = {"archive"} /\ t.receipt # "other" /\ t.pinned = pinned
    BY <1>3 DEF Trees
  <1>7. TreesInv' /\ tree'["import"] = t /\ \A q \in Places : q # "import" => tree'[q] = tree[q]
    <2>1. armed' \subseteq Wrappers /\ sweeping' \subseteq Wrappers \union {"previous"}
          /\ limits' \in [damages: Nat, kills: Nat, errors: Nat, installs: Nat]
          /\ limits'.damages <= limits.damages
      BY <1>0, <1>1, Frame
    <2>2. Becomes("import", t)
      BY <1>4
    <2> HIDE DEF t
    <2> QED BY <1>0, <1>2, <1>6, <2>1, <2>2, Put
  <1> HIDE DEF t
  <1>8. CleaningInv'
    BY <1>1 DEF CleaningInv
  <1>9. OnlyVerified'
    BY <1>0, <1>6, <1>7, FilesAssumption DEF SourceInv, OnlyVerified, CacheReady, PayloadReady
  <1>10. SourceInv'
    BY <1>0, <1>1, <1>2, <1>5, <1>6, <1>7, <1>9 DEF SourceInv, Early
  <1>11. ReadyInv'
    BY <1>0, <1>1, <1>2, <1>5, <1>7 DEF ReadyInv, State, Settled
  <1> QED BY <1>7, <1>8, <1>10, <1>11 DEF ArtifactsInv

(* The archive is extracted into the work directory. *)
LEMMA ExtractEntriesKeeps ==
    ASSUME ArtifactsInv, ExtractEntries
    PROVE  ArtifactsInv'
  <1>0. TreesInv /\ CleaningInv /\ SourceInv /\ ReadyInv
    BY DEF ArtifactsInv
  <1>1. step = "extract" /\ cleaning = NoCleanup
        /\ UNCHANGED <<source, needed, armed, failed, cleaning, sweeping, limits>>
    BY DEF ExtractEntries, Working
  <1>2. "extracted" \in Places /\ "staging" \in Places /\ "final" \in Places /\ "import" \in Places
        /\ "extracted" \in Payloads /\ "staging" \notin Payloads /\ "staging" \notin UserPlaces
    BY DEF Wrappers, Places, Payloads, UserPlaces
  <1>3. tree["import"].pinned = TRUE
    <2>1. tree["import"].pinned \in BOOLEAN
      BY <1>0, <1>2 DEF TreesInv, Trees
    <2> QED BY <1>0, <1>1, <2>1 DEF SourceInv
  <1>4. CASE step' = "prepare" /\ UNCHANGED tree
    <2>1. TreesInv'
      BY <1>0, <1>1, <1>4 DEF TreesInv
    <2>2. CleaningInv'
      BY <1>1 DEF CleaningInv
    <2>3. SourceInv'
      BY <1>0, <1>1, <1>4 DEF SourceInv, OnlyVerified, Early
    <2>4. ReadyInv'
      BY <1>4 DEF ReadyInv, Settled
    <2> QED BY <2>1, <2>2, <2>3, <2>4 DEF ArtifactsInv
  <1>5. CASE /\ step' = step
             /\ \E f \in Files \ tree["extracted"].files :
                   tree' = [tree EXCEPT !["extracted"] = [receipt |-> "none",
                                                           files |-> tree["extracted"].files \union {f},
                                                           pinned |-> tree["import"].pinned],
                                        !["staging"].files = {"root"}]
    <2>1. PICK f \in Files :
              tree' = [tree EXCEPT !["extracted"] = [receipt |-> "none",
                                                      files |-> tree["extracted"].files \union {f},
                                                      pinned |-> tree["import"].pinned],
                                   !["staging"].files = {"root"}]
      BY <1>5
    <2> DEFINE t == [receipt |-> "none", files |-> tree["extracted"].files \union {f},
                     pinned |-> tree["import"].pinned]
               u == [tree["staging"] EXCEPT !.files = {"root"}]
    <2>2. tree["staging"] \in Trees /\ tree["staging"].receipt # "other"
          /\ tree["extracted"].files \subseteq Files
      BY <1>0, <1>2 DEF TreesInv
    <2>3. t \in Trees /\ t.files \subseteq Files /\ t.receipt = "none" /\ t.pinned = TRUE
      BY <1>3, <2>2 DEF Trees
    <2>4. u \in Trees /\ u.files = {"root"} /\ u.receipt # "other"
      BY <2>2 DEF Trees
    <2>5. tree' = [tree EXCEPT !["extracted"] = t, !["staging"] = u]
      BY <2>1
    <2> HIDE DEF t, u
    <2>6. UNCHANGED <<armed, sweeping>> /\ limits'.damages = limits.damages
          /\ limits' \in [damages: Nat, kills: Nat, errors: Nat, installs: Nat]
      BY <1>0, <1>1, Frame
    <2>61. /\ "staging" \in Payloads => u.files \subseteq Files
           /\ t.receipt = "other" => "extracted" \in UserPlaces
           /\ u.receipt = "other" => "staging" \in UserPlaces
      BY <1>2, <2>3, <2>4
    <2>7. /\ TreesInv' /\ tree'["extracted"] = t /\ tree'["staging"] = u
          /\ \A r \in Places : r \notin {"extracted", "staging"} => tree'[r] = tree[r]
      <3>1. Fits("extracted", t) /\ Fits("staging", u)
        BY <2>3, <2>4, <2>61 DEF Fits, Payloads
      <3>2. PutsTwo("extracted", "staging", t, u)
        BY <2>5 DEF PutsTwo
      <3>3. Steady
        BY <2>6 DEF Steady
      <3> QED BY <1>0, <1>2, <3>1, <3>2, <3>3, PutTwo
    <2>8. CleaningInv'
      BY <1>1 DEF CleaningInv
    <2>9. OnlyVerified'
      BY <1>0, <2>3, <2>4, <2>7, FilesAssumption
         DEF SourceInv, OnlyVerified, CacheReady, MatchingReceipt, PayloadReady, Receipts
    <2>10. SourceInv'
      BY <1>0, <1>1, <1>2, <1>5, <2>3, <2>7, <2>9 DEF SourceInv, Early
    <2>11. ReadyInv'
      BY <1>1, <1>5 DEF ReadyInv, Settled
    <2> QED BY <2>7, <2>8, <2>10, <2>11 DEF ArtifactsInv
  <1> QED BY <1>4, <1>5 DEF ExtractEntries

(* The receipt is written beside a payload that came from the verified snapshot. *)
LEMMA PrepareTreeKeeps ==
    ASSUME ArtifactsInv, PrepareTree
    PROVE  ArtifactsInv'
  <1> DEFINE t == [tree["extracted"] EXCEPT !.receipt = "v2"]
  <1>0. TreesInv /\ CleaningInv /\ SourceInv /\ ReadyInv
    BY DEF ArtifactsInv
  <1>1. step = "prepare" /\ cleaning = NoCleanup /\ step' = "activate" /\ Becomes("extracted", t)
        /\ UNCHANGED <<source, needed, armed, failed, cleaning, sweeping, limits>>
    BY DEF PrepareTree, Working
  <1>2. "extracted" \in Places /\ "final" \in Places /\ "import" \in Places /\ "extracted" \in Payloads
    BY DEF Wrappers, Places, Payloads
  <1>3. tree["extracted"] \in Trees /\ tree["extracted"].files \subseteq Files
    BY <1>0, <1>2 DEF TreesInv
  <1>4. /\ t \in Trees /\ t.files = tree["extracted"].files /\ t.receipt = "v2"
        /\ t.pinned = tree["extracted"].pinned
    BY <1>3 DEF Trees, Receipts
  <1>5. /\ TreesInv' /\ tree'["extracted"] = t
        /\ \A q \in Places : q # "extracted" => tree'[q] = tree[q]
    <2>1. armed' \subseteq Wrappers /\ sweeping' \subseteq Wrappers \union {"previous"}
          /\ limits' \in [damages: Nat, kills: Nat, errors: Nat, installs: Nat]
          /\ limits'.damages <= limits.damages
      BY <1>0, <1>1, Frame
    <2>2. t.files \subseteq Files /\ t.receipt # "other"
      BY <1>3, <1>4
    <2> HIDE DEF t
    <2> QED BY <1>0, <1>1, <1>2, <1>4, <2>1, <2>2, Put
  <1> HIDE DEF t
  <1>6. CleaningInv'
    BY <1>1 DEF CleaningInv
  <1>7. OnlyVerified'
    BY <1>0, <1>4, <1>5, FilesAssumption DEF SourceInv, OnlyVerified, CacheReady, PayloadReady
  <1>8. SourceInv'
    BY <1>0, <1>1, <1>4, <1>5, <1>7 DEF SourceInv, Early
  <1>9. ReadyInv'
    BY <1>1 DEF ReadyInv, Settled
  <1> QED BY <1>5, <1>6, <1>8, <1>9 DEF ArtifactsInv

(* The prepared tree goes to an empty slot, and never beside a runtime that is Ready. *)
LEMMA ReserveSlotKeeps ==
    ASSUME ArtifactsInv, ReserveSlot
    PROVE  ArtifactsInv'
  <1>0. TreesInv /\ CleaningInv /\ SourceInv /\ ReadyInv
    BY DEF ArtifactsInv
  <1>1. step = "reserve" /\ cleaning = NoCleanup
        /\ UNCHANGED <<source, needed, armed, failed, cleaning, sweeping, limits>>
    BY DEF ReserveSlot, Working
  <1>2. CleaningInv'
    BY <1>1 DEF CleaningInv
  <1>3. CASE State("final") = "Ready" /\ step' = "drop staging" /\ UNCHANGED tree
    <2>1. TreesInv'
      BY <1>0, <1>1, <1>3 DEF TreesInv
    <2>2. SourceInv'
      BY <1>0, <1>1, <1>3 DEF SourceInv, OnlyVerified, Early
    <2>3. ReadyInv'
      BY <1>3 DEF ReadyInv, State
    <2> QED BY <1>2, <2>1, <2>2, <2>3 DEF ArtifactsInv
  <1>4. CASE step' = "error" /\ UNCHANGED tree
    <2>1. TreesInv'
      BY <1>0, <1>1, <1>4 DEF TreesInv
    <2>2. SourceInv'
      BY <1>0, <1>1, <1>4 DEF SourceInv, OnlyVerified, Early
    <2>3. ReadyInv'
      BY <1>4 DEF ReadyInv, Settled
    <2> QED BY <1>2, <2>1, <2>2, <2>3 DEF ArtifactsInv
  <1>5. CASE /\ tree' = [tree EXCEPT !["slot"] = tree["extracted"], !["extracted"] = NoTree,
                                     !["staging"].files = {}]
             /\ step' = "commit"
    <2> DEFINE u == [tree["staging"] EXCEPT !.files = {}]
    <2>1. {"slot", "extracted", "staging", "import", "final"} \subseteq Places
          /\ {"slot", "extracted"} \subseteq Payloads /\ "staging" \notin Payloads
          /\ "staging" \notin UserPlaces /\ "extracted" \notin UserPlaces /\ "slot" \in UserPlaces
      BY DEF Places, Wrappers, Payloads, UserPlaces
    <2>2. tree["staging"] \in Trees /\ tree["extracted"] \in Trees
          /\ tree["staging"].receipt # "other" /\ tree["extracted"].files \subseteq Files
      BY <1>0, <2>1 DEF TreesInv
    <2>3. u \in Trees /\ u.files = {} /\ u.receipt = tree["staging"].receipt
      BY <2>2 DEF Trees
    <2>4. NoTree \in Trees /\ NoTree.files = {} /\ NoTree.receipt = "absent"
      BY DEF NoTree, Trees
    <2>5. tree' = [tree EXCEPT !["slot"] = tree["extracted"], !["extracted"] = NoTree,
                               !["staging"] = u]
      BY <1>5
    <2> HIDE DEF u
    <2>6. /\ tree' \in [Places -> Trees] /\ tree'["slot"] = tree["extracted"]
          /\ tree'["extracted"] = NoTree /\ tree'["staging"] = u
          /\ \A q \in Places : q \notin {"slot", "extracted", "staging"} => tree'[q] = tree[q]
      BY <1>0, <2>1, <2>2, <2>3, <2>4, <2>5 DEF TreesInv
    <2>7. TreesInv'
      <3>1. \A q \in Payloads : tree'[q].files \subseteq Files
        <4>1. Payloads \subseteq Places
          BY DEF Payloads, Places
        <4> QED BY <1>0, <2>1, <2>2, <2>4, <2>6, <4>1 DEF TreesInv
      <3>2. \A q \in Places : tree'[q].receipt = "other" => q \in UserPlaces
        BY <1>0, <2>1, <2>2, <2>3, <2>4, <2>6 DEF TreesInv
      <3> QED BY <1>0, <1>1, <2>6, <3>1, <3>2 DEF TreesInv
    <2>8. OnlyVerified'
      <3>1. CacheReady(tree["extracted"]) => tree["extracted"].pinned
        BY <1>0, <2>1 DEF SourceInv, OnlyVerified
      <3>2. ~CacheReady(NoTree) /\ ~CacheReady(u)
        BY <2>3, <2>4, FilesAssumption DEF CacheReady, PayloadReady
      <3> QED BY <1>0, <2>6, <3>1, <3>2 DEF SourceInv, OnlyVerified
    <2>9. SourceInv'
      BY <1>0, <1>1, <1>5, <2>1, <2>4, <2>6, <2>8 DEF SourceInv, Early
    <2>10. ReadyInv'
      BY <1>5 DEF ReadyInv, Settled
    <2> QED BY <1>2, <2>7, <2>9, <2>10 DEF ArtifactsInv
  <1> QED BY <1>3, <1>4, <1>5 DEF ReserveSlot

(* The exchange makes Ready what was complete in the slot, or the operation fails. *)
LEMMA CommitKeeps ==
    ASSUME ArtifactsInv, Commit
    PROVE  ArtifactsInv'
  <1>0. TreesInv /\ CleaningInv /\ SourceInv /\ ReadyInv
    BY DEF ArtifactsInv
  <1>1. step = "commit" /\ cleaning = NoCleanup /\ step' = "recover last"
        /\ UNCHANGED <<source, needed, armed, cleaning, sweeping>>
    BY DEF Commit, Working
  <1>11. limits' \in [damages: Nat, kills: Nat, errors: Nat, installs: Nat]
         /\ limits'.damages = limits.damages
    <2>1. limits' = limits \/ Takes("errors")
      BY DEF Commit
    <2> QED BY <1>0, <2>1, Spent DEF TreesInv
  <1>2. \/ /\ tree' = [tree EXCEPT !["final"] = tree["slot"], !["slot"] = tree["final"]]
           /\ CacheReady(tree["slot"])
        \/ failed' = TRUE /\ UNCHANGED tree
    BY DEF Commit
  <1>3. {"slot", "extracted", "import", "final"} \subseteq Places /\ {"slot", "final"} \subseteq Payloads
        /\ {"slot", "final"} \subseteq UserPlaces
    BY DEF Places, Wrappers, Payloads, UserPlaces
  <1>4. CleaningInv'
    BY <1>1 DEF CleaningInv
  <1>5. CASE failed' = TRUE /\ UNCHANGED tree
    <2>1. TreesInv'
      BY <1>0, <1>1, <1>11, <1>5 DEF TreesInv
    <2>2. SourceInv'
      BY <1>0, <1>1, <1>5 DEF SourceInv, OnlyVerified, Early
    <2>3. ReadyInv'
      BY <1>5 DEF ReadyInv
    <2> QED BY <1>4, <2>1, <2>2, <2>3 DEF ArtifactsInv
  <1>6. CASE /\ tree' = [tree EXCEPT !["final"] = tree["slot"], !["slot"] = tree["final"]]
             /\ CacheReady(tree["slot"])
    <2>1. tree["slot"] \in Trees /\ tree["final"] \in Trees
          /\ tree["slot"].files \subseteq Files /\ tree["final"].files \subseteq Files
      BY <1>0, <1>3 DEF TreesInv
    <2>2. UNCHANGED <<armed, sweeping>>
      BY <1>1
    <2>3. "final" # "slot" /\ "final" \in Places /\ "slot" \in Places
          /\ "final" \in UserPlaces /\ "slot" \in UserPlaces
      BY <1>3
    <2>4. /\ TreesInv' /\ tree'["final"] = tree["slot"] /\ tree'["slot"] = tree["final"]
          /\ \A q \in Places : q \notin {"final", "slot"} => tree'[q] = tree[q]
      <3>1. Fits("final", tree["slot"]) /\ Fits("slot", tree["final"])
        BY <2>1, <2>3 DEF Fits
      <3>2. PutsTwo("final", "slot", tree["slot"], tree["final"])
        BY <1>6 DEF PutsTwo
      <3>3. Steady
        BY <1>11, <2>2 DEF Steady
      <3> QED BY <1>0, <2>3, <3>1, <3>2, <3>3, PutTwo
    <2>5. OnlyVerified'
      BY <1>0, <2>3, <2>4 DEF SourceInv, OnlyVerified
    <2>6. SourceInv'
      BY <1>0, <1>1, <1>3, <2>4, <2>5 DEF SourceInv, Early
    <2>7. ReadyInv'
      BY <1>6, <2>4, ReadyIsNext DEF ReadyInv
    <2> QED BY <1>4, <2>4, <2>6, <2>7 DEF ArtifactsInv
  <1> QED BY <1>2, <1>5, <1>6

(* What the user takes or places is never Ready, nor what is being removed. *)
LEMMA UserMeddlesKeeps ==
    ASSUME ArtifactsInv, UserMeddles
    PROVE  ArtifactsInv'
  <1>0. TreesInv /\ CleaningInv /\ SourceInv /\ ReadyInv
    BY DEF ArtifactsInv
  <1>1. UNCHANGED <<step, source, needed, armed, failed, cleaning, sweeping>>
    BY DEF UserMeddles
  <1>2. {"slot", "extracted", "import", "final", "previous"} \subseteq Places
        /\ UserPlaces \subseteq Places /\ UserPlaces \subseteq Payloads /\ "extracted" \notin UserPlaces
        /\ "import" \notin UserPlaces /\ UserPlaces = {"final", "slot", "previous"}
    BY DEF Places, Wrappers, Payloads, UserPlaces
  <1>3. armed' \subseteq Wrappers /\ sweeping' \subseteq Wrappers \union {"previous"}
    BY <1>0, <1>1 DEF TreesInv
  <1>4. limits' \in [damages: Nat, kills: Nat, errors: Nat, installs: Nat]
        /\ limits'.damages <= limits.damages /\ limits'.damages < limits.damages
    <2>1. Takes("damages")
      BY DEF UserMeddles
    <2> QED BY <1>0, <2>1, Spent
  <1>5. PICK p \in UserPlaces, t \in Trees :
            /\ Becomes(p, t) /\ t.files \subseteq Files
            /\ \/ p = "final" /\ t.files # Files
               \/ tree[p] = NoTree /\ t.receipt = "other"
    <2>1. tree["final"] \in Trees /\ tree["final"].files \subseteq Files
      BY <1>0, <1>2 DEF TreesInv, Payloads
    <2>2. CASE \E f \in tree["final"].files : Becomes("final", [tree["final"] EXCEPT !.files = @ \ {f}])
      <3>1. PICK f \in tree["final"].files : Becomes("final", [tree["final"] EXCEPT !.files = @ \ {f}])
        BY <2>2
      <3> DEFINE t == [tree["final"] EXCEPT !.files = @ \ {f}]
      <3>2. t \in Trees /\ t.files \subseteq Files /\ t.files # Files
        BY <2>1 DEF Trees
      <3>3. Becomes("final", t)
        BY <3>1
      <3> HIDE DEF t
      <3> QED BY <1>2, <3>2, <3>3
    <2>3. CASE \E p \in {"final", "slot", "previous"} :
             /\ tree[p] = NoTree
             /\ Becomes(p, [receipt |-> "other", files |-> Files, pinned |-> FALSE])
      <3>1. PICK p \in {"final", "slot", "previous"} :
               /\ tree[p] = NoTree
               /\ Becomes(p, [receipt |-> "other", files |-> Files, pinned |-> FALSE])
        BY <2>3
      <3> DEFINE t == [receipt |-> "other", files |-> Files, pinned |-> FALSE]
      <3>2. t \in Trees /\ t.files \subseteq Files /\ t.receipt = "other"
        BY DEF Trees
      <3>3. tree[p] = NoTree /\ Becomes(p, t)
        BY <3>1
      <3> HIDE DEF t
      <3> QED BY <1>2, <3>2, <3>3
    <2> QED BY <2>2, <2>3 DEF UserMeddles
  <1>6. TreesInv' /\ tree'[p] = t /\ \A q \in Places : q # p => tree'[q] = tree[q]
    <2>1. p \in Places
      BY <1>2
    <2> QED BY <1>0, <1>3, <1>4, <1>5, <2>1, Put
  <1>7. CleaningInv'
    <2>1. CASE cleaning = NoCleanup
      BY <1>1, <2>1 DEF CleaningInv
    <2>2. CASE cleaning # NoCleanup
      <3>1. /\ cleaning.place \in Wrappers \union {"slot", "previous"}
            /\ tree[cleaning.place].receipt \in {"tombstone", "none"}
            /\ <<step, cleaning.next, cleaning.error>> \in Routes
        BY <1>0, <2>2 DEF CleaningInv
      <3>2. cleaning.place \in Places /\ cleaning.place # p
        BY <1>5, <3>1 DEF Wrappers, Places, NoTree
      <3> QED BY <1>1, <1>6, <3>1, <3>2 DEF CleaningInv
    <2> QED BY <2>1, <2>2
  <1>8. OnlyVerified'
    <2>1. ~CacheReady(t)
      BY <1>5 DEF CacheReady, MatchingReceipt, PayloadReady, Receipts
    <2> QED BY <1>0, <1>6, <2>1 DEF SourceInv, OnlyVerified
  <1>9. SourceInv'
    BY <1>0, <1>1, <1>2, <1>6, <1>8 DEF SourceInv
  <1>10. ReadyInv'
    <2>1. limits'.damages # MaxDamages
      <3>1. limits.damages \in Nat /\ limits'.damages \in Nat /\ limits.damages <= MaxDamages
        BY <1>0, <1>4 DEF TreesInv
      <3> QED BY <1>4, <3>1, BoundsAssumption
    <2> QED BY <2>1 DEF ReadyInv
  <1> QED BY <1>6, <1>7, <1>9, <1>10 DEF ArtifactsInv

(* -------------------------------- theorems -------------------------------- *)

(* The initial states. *)
LEMMA InitHolds ==
    ASSUME ArtifactsInit
    PROVE  ArtifactsInv
  <1> DEFINE Whole(receipt) == [receipt |-> receipt, files |-> Files, pinned |-> TRUE]
  <1>1. PICK final \in {NoTree, Whole("v1")}, previous \in {NoTree, Whole("v2")} :
            tree = [p \in Places |-> CASE p = "final" -> final
                                       [] p = "previous" -> previous
                                       [] OTHER -> NoTree]
    BY DEF ArtifactsInit
  <1>2. /\ step = "free" /\ armed = {} /\ sweeping = {} /\ cleaning = NoCleanup
        /\ limits.damages = MaxDamages /\ limits \in [damages: Nat, kills: Nat, errors: Nat, installs: Nat]
    BY BoundsAssumption DEF ArtifactsInit
  <1>3. \A p \in Places : tree[p] \in {NoTree, Whole("v1"), Whole("v2")}
    BY <1>1 DEF Places
  <1>4. /\ NoTree \in Trees /\ Whole("v1") \in Trees /\ Whole("v2") \in Trees
        /\ NoTree.files = {} /\ NoTree.receipt = "absent"
    BY DEF NoTree, Trees, Receipts
  <1>5. TreesInv
    <2>1. tree \in [Places -> Trees]
      BY <1>1, <1>3, <1>4
    <2>2. \A p \in Payloads : tree[p].files \subseteq Files
      BY <1>3, <1>4 DEF Payloads, Places
    <2>3. \A p \in Places : tree[p].receipt # "other"
      BY <1>3, <1>4
    <2> QED BY <1>2, <2>1, <2>2, <2>3, BoundsAssumption DEF TreesInv
  <1>6. SourceInv
    <2>1. \A p \in Places : tree[p].files # {} => tree[p].pinned
      BY <1>3, <1>4
    <2>2. "extracted" \in Places
      BY DEF Places
    <2> QED BY <1>2, <2>1, <2>2, FilesAssumption
            DEF SourceInv, OnlyVerified, CacheReady, PayloadReady, Early
  <1>7. CleaningInv /\ ReadyInv
    BY <1>2 DEF CleaningInv, ReadyInv, Settled
  <1> QED BY <1>5, <1>6, <1>7 DEF ArtifactsInv

(* Every step keeps the invariant. *)
LEMMA NextKeeps ==
    ASSUME ArtifactsInv, [ArtifactsNext]_artifactVars
    PROVE  ArtifactsInv'
  <1>1. CASE UNCHANGED artifactVars
    <2>1. UNCHANGED <<tree, policy, step, source, needed, armed, failed, cleaning, sweeping, limits>>
      BY <1>1 DEF artifactVars
    <2>2. TreesInv' /\ CleaningInv'
      BY <2>1 DEF ArtifactsInv, TreesInv, CleaningInv
    <2>3. SourceInv'
      BY <2>1 DEF ArtifactsInv, SourceInv, OnlyVerified
    <2>4. ReadyInv'
      BY <2>1 DEF ArtifactsInv, ReadyInv, Settled, NextWork, State
    <2> QED BY <2>2, <2>3, <2>4 DEF ArtifactsInv
  <1>2. CASE \E p \in Wrappers : MakeWork(p) \/ MarkWork(p)
    BY <1>2, MakeWorkKeeps, MarkWorkKeeps
  <1>3. CASE BeginInstall \/ ReturnsError \/ RecoverFirst \/ SweepResidue \/ Inspect \/ Refused
    BY <1>3, BeginInstallKeeps, ReturnsErrorKeeps, RecoverFirstKeeps, SweepResidueKeeps,
       InspectKeeps, RefusedKeeps
  <1>4. CASE \/ Fetch \/ RecoverAgain \/ InspectAgain \/ SnapshotArchive \/ ExtractEntries
             \/ PrepareTree
    BY <1>4, FetchKeeps, RecoverAgainKeeps, InspectAgainKeeps, SnapshotArchiveKeeps,
       ExtractEntriesKeeps, PrepareTreeKeeps
  <1>5. CASE \/ ActivateRecovers \/ ReserveSlot \/ Commit \/ RecoverLast \/ DropWork
             \/ CleanupEntry \/ CleanupEvidence \/ CleanupDirectory
    BY <1>5, ActivateRecoversKeeps, ReserveSlotKeeps, CommitKeeps, RecoverLastKeeps, DropWorkKeeps,
       CleanupEntryKeeps, CleanupEvidenceKeeps, CleanupDirectoryKeeps
  <1>6. CASE StepFails \/ CleanupFails \/ OwnerKilled \/ UserMeddles
    BY <1>6, StepFailsKeeps, CleanupFailsKeeps, OwnerKilledKeeps, UserMeddlesKeeps
  <1> QED BY <1>1, <1>2, <1>3, <1>4, <1>5, <1>6 DEF ArtifactsNext, InstallStep

(* The inductive invariant. *)
THEOREM ArtifactsInvariant == ArtifactsSpec => []ArtifactsInv
  BY InitHolds, NextKeeps, PTL DEF ArtifactsSpec

(* Whatever the server sends, and whatever the user's file becomes while it is     *)
(* copied, what classifies as the artifact was extracted from bytes with the       *)
(* catalogue's digest, and an operation that answers Ok leaves the artifact Ready. *)
THEOREM ActivationAlwaysSound == ArtifactsSpec => []ActivationSound
  <1>1. ArtifactsInv => ActivationSound
    <2>1. ArtifactsInv => OnlyVerified
      BY DEF ArtifactsInv, SourceInv
    <2>2. ArtifactsInv => OkMeansReady
      BY DEF ArtifactsInv, ReadyInv, Settled, OkMeansReady
    <2> QED BY <2>1, <2>2 DEF ActivationSound
  <1> QED BY <1>1, ArtifactsInvariant, PTL

(* ----------------------------- what is whole stays ------------------------ *)

(* What TreesSurvive asks of one step. *)
Survives ==
    /\ (State("final") = "Ready" /\ limits'.damages = limits.damages) => State("final")' = "Ready"
    /\ limits'.damages = limits.damages =>
          \A p \in Places : tree[p].receipt = "other" => tree'[p] = tree[p]

(* A step that keeps off the places where the user's trees can be. *)
LEMMA ElsewhereSurvives ==
    ASSUME TreesInv, \A q \in UserPlaces : tree'[q] = tree[q]
    PROVE  Survives
  <1>1. "final" \in UserPlaces
    BY DEF UserPlaces
  <1>2. State("final")' = State("final")
    BY <1>1 DEF State
  <1>3. \A p \in Places : tree[p].receipt = "other" => tree'[p] = tree[p]
    BY DEF TreesInv
  <1> QED BY <1>2, <1>3 DEF Survives

(* A step of one place that is neither the runtime nor the user's. *)
LEMMA OnePlaceSurvives ==
    ASSUME TreesInv, NEW p \in Places, p # "final", tree[p].receipt # "other",
           \A q \in Places : q # p => tree'[q] = tree[q]
    PROVE  Survives
  <1>1. tree'["final"] = tree["final"]
    BY DEF Places
  <1> QED BY <1>1 DEF Survives, State

(* Deletions touch only trees the installation owns. *)
LEMMA CleanupOwnedSurvives ==
    ASSUME TreesInv, NEW p \in Wrappers \union {"slot", "previous"}, NEW next, NEW error,
           CleanupOwned(p, next, error)
    PROVE  Survives
  <1>1. CASE tree' = tree
    BY <1>1, ElsewhereSurvives
  <1>2. CASE /\ tree[p].receipt \in Receipts \union {"tombstone"}
             /\ tree' = [tree EXCEPT ![p] = [tree[p] EXCEPT !.receipt = "tombstone"]]
    <2>1. p \in Places /\ p # "final"
      BY DEF Places, Wrappers
    <2>2. \A q \in Places : q # p => tree'[q] = tree[q]
      BY <1>2 DEF TreesInv
    <2>3. tree[p].receipt # "other"
      BY <1>2 DEF Receipts
    <2> QED BY <2>1, <2>2, <2>3, OnePlaceSurvives
  <1> QED BY <1>1, <1>2, CleanupEffect

(* A recovery restores or removes only what it can prove. *)
LEMMA RecoverSurvives ==
    ASSUME TreesInv, NEW next, NEW error, Recover(next, error)
    PROVE  Survives
  <1>1. CASE UNCHANGED tree
    BY <1>1, ElsewhereSurvives
  <1>2. CASE CleanupOwned("slot", next, error)
    BY <1>2, CleanupOwnedSurvives
  <1> QED BY <1>1, <1>2 DEF Recover

(* The steps of a cleanup. *)
LEMMA CleaningSurvives ==
    ASSUME TreesInv, CleaningInv, CleanupEntry \/ CleanupEvidence \/ CleanupDirectory
    PROVE  Survives
  <1> DEFINE p == cleaning.place
  <1>1. p \in Wrappers \union {"slot", "previous"} /\ tree[p].receipt \in {"tombstone", "none"}
    BY DEF CleaningInv, CleanupEntry, CleanupEvidence, CleanupDirectory
  <1>2. p \in Places /\ p # "final" /\ tree[p].receipt # "other"
    BY <1>1 DEF Places, Wrappers
  <1>3. CASE p = "staging" /\ CleanupEntry
    <2>1. \A q \in UserPlaces : tree'[q] = tree[q]
      BY <1>3 DEF CleanupEntry, UserPlaces, TreesInv, Places
    <2> QED BY <2>1, ElsewhereSurvives
  <1>4. CASE p # "staging" /\ CleanupEntry
    <2>1. \A q \in Places : q # p => tree'[q] = tree[q]
      BY <1>4 DEF CleanupEntry, TreesInv
    <2> HIDE DEF p
    <2> QED BY <1>2, <2>1, OnePlaceSurvives
  <1>5. CASE CleanupEvidence \/ CleanupDirectory
    <2>1. \A q \in Places : q # p => tree'[q] = tree[q]
      BY <1>5 DEF CleanupEvidence, CleanupDirectory, Becomes, TreesInv
    <2> HIDE DEF p
    <2> QED BY <1>2, <2>1, OnePlaceSurvives
  <1> QED BY <1>3, <1>4, <1>5

(* The steps that write the work directory. *)
LEMMA WorkSurvives ==
    ASSUME TreesInv,
           \/ \E p \in Wrappers : MakeWork(p) \/ MarkWork(p)
           \/ Fetch \/ SnapshotArchive \/ ExtractEntries \/ PrepareTree
    PROVE  Survives
  <1>0. UserPlaces \subseteq Places /\ UserPlaces \intersect Wrappers = {} /\ "extracted" \notin UserPlaces
        /\ {"staging", "import", "download"} \subseteq Wrappers
    BY DEF UserPlaces, Places, Wrappers
  <1>1. ASSUME NEW p \in Wrappers, MakeWork(p) PROVE \A q \in UserPlaces : tree'[q] = tree[q]
    BY <1>0, <1>1 DEF MakeWork, TreesInv
  <1>2. ASSUME NEW p \in Wrappers, MarkWork(p) PROVE \A q \in UserPlaces : tree'[q] = tree[q]
    BY <1>0, <1>2 DEF MarkWork, Becomes, TreesInv
  <1>3. ASSUME Fetch PROVE \A q \in UserPlaces : tree'[q] = tree[q]
    BY <1>0, <1>3 DEF Fetch, Becomes, TreesInv
  <1>4. ASSUME SnapshotArchive PROVE \A q \in UserPlaces : tree'[q] = tree[q]
    BY <1>0, <1>4 DEF SnapshotArchive, Becomes, TreesInv
  <1>5. ASSUME ExtractEntries PROVE \A q \in UserPlaces : tree'[q] = tree[q]
    BY <1>0, <1>5 DEF ExtractEntries, TreesInv
  <1>6. ASSUME PrepareTree PROVE \A q \in UserPlaces : tree'[q] = tree[q]
    BY <1>0, <1>6 DEF PrepareTree, Becomes, TreesInv
  <1> QED BY <1>1, <1>2, <1>3, <1>4, <1>5, <1>6, ElsewhereSurvives

(* An inspection leaves the trees that must survive. *)
LEMMA InspectSurvives ==
    ASSUME TreesInv, TreesInv', Inspect
    PROVE  Survives
  <1>1. CASE UNCHANGED tree
    BY <1>1, ElsewhereSurvives
  <1>2. CASE State("final") = "Ready" /\ \E t \in Elevated(tree["final"]) : Becomes("final", t)
    <2>1. PICK t \in Elevated(tree["final"]) : Becomes("final", t)
      BY <1>2
    <2>2. "final" \in Places /\ CacheReady(tree["final"])
      BY <1>2, ReadyIs DEF Places
    <2>3. tree'["final"] = t /\ \A q \in Places : q # "final" => tree'[q] = tree[q]
      BY <2>1, <2>2 DEF Becomes, TreesInv
    <2>4. tree["final"] \in Trees
      BY <2>2 DEF TreesInv
    <2>5. CacheReady(t)
      BY <2>1, <2>2, <2>4
         DEF Elevated, CacheReady, MatchingReceipt, PayloadReady, Receipts, Trees
    <2>6. State("final")' = "Ready"
      BY <2>3, <2>5, ReadyIsNext
    <2>7. tree["final"].receipt # "other"
      BY <2>2 DEF CacheReady, MatchingReceipt, Receipts
    <2> QED BY <2>3, <2>6, <2>7 DEF Survives
  <1> QED BY <1>1, <1>2 DEF Inspect

(* A tree that activation may replace is neither Ready nor of another owner. *)
LEMMA ReplaceableIs ==
    ASSUME TreesInv, Replaceable(tree["final"])
    PROVE  ~CacheReady(tree["final"]) /\ tree["final"].receipt # "other"
  <1>1. tree["final"] \in Trees
    BY DEF TreesInv, Places
  <1> QED BY <1>1, Classified DEF Replaceable, Receipts

(* The renames of activation. *)
LEMMA ActivationSurvives ==
    ASSUME TreesInv, ReserveSlot \/ Commit
    PROVE  Survives
  <1>0. {"slot", "final", "extracted", "staging"} \subseteq Places /\ UserPlaces \subseteq Places
        /\ "extracted" \notin UserPlaces /\ "staging" \notin UserPlaces
    BY DEF Places, Wrappers, UserPlaces
  <1>1. CASE UNCHANGED tree
    BY <1>1, ElsewhereSurvives
  <1>2. CASE /\ tree["slot"] = NoTree
             /\ tree' = [tree EXCEPT !["slot"] = tree["extracted"], !["extracted"] = NoTree,
                                     !["staging"].files = {}]
    <2>1. \A q \in Places : q \notin {"slot", "extracted", "staging"} => tree'[q] = tree[q]
      BY <1>2 DEF TreesInv
    <2>2. \A p \in {"slot", "extracted", "staging"} : tree[p].receipt # "other"
      BY <1>0, <1>2 DEF TreesInv, NoTree
    <2>3. tree'["final"] = tree["final"]
      BY <1>0, <2>1
    <2> QED BY <2>1, <2>2, <2>3 DEF Survives, State
  <1>3. CASE /\ CacheReady(tree["slot"]) /\ Replaceable(tree["final"])
             /\ tree' = [tree EXCEPT !["final"] = tree["slot"], !["slot"] = tree["final"]]
    <2>1. \A q \in Places : q \notin {"final", "slot"} => tree'[q] = tree[q]
      BY <1>3 DEF TreesInv
    <2>2. tree["slot"].receipt # "other"
      BY <1>3 DEF CacheReady, MatchingReceipt, Receipts
    <2>3. State("final") # "Ready" /\ tree["final"].receipt # "other"
      BY <1>3, ReadyIs, ReplaceableIs
    <2> QED BY <2>1, <2>2, <2>3 DEF Survives
  <1> QED BY <1>1, <1>2, <1>3 DEF ReserveSlot, Commit

(* Every step keeps the trees that must survive. *)
LEMMA NextSurvives ==
    ASSUME ArtifactsInv, ArtifactsInv', [ArtifactsNext]_artifactVars
    PROVE  Survives
  <1>0. TreesInv /\ CleaningInv /\ TreesInv'
    BY DEF ArtifactsInv
  <1>1. CASE UNCHANGED tree
    BY <1>0, <1>1, ElsewhereSurvives
  <1>2. CASE RecoverFirst \/ RecoverAgain \/ ActivateRecovers \/ RecoverLast
    BY <1>0, <1>2, RecoverSurvives DEF RecoverFirst, RecoverAgain, ActivateRecovers, RecoverLast
  <1>3. CASE SweepResidue
    <2>1. UNCHANGED tree \/ \E p \in sweeping : CleanupOwned(p, "sweep", "sweep")
      BY <1>3 DEF SweepResidue
    <2>2. sweeping \subseteq Wrappers \union {"slot", "previous"}
      BY <1>0 DEF TreesInv
    <2> QED BY <1>0, <1>1, <2>1, <2>2, CleanupOwnedSurvives
  <1>4. CASE DropWork
    <2>1. \/ UNCHANGED tree
          \/ \E p \in Wrappers, next \in {"drop import", "drop download", "free"} :
                 CleanupOwned(p, next, next)
      BY <1>4 DEF DropWork, DropArmed, Wrappers
    <2> QED BY <1>0, <1>1, <2>1, CleanupOwnedSurvives
  <1>5. CASE Inspect
    BY <1>0, <1>5, InspectSurvives
  <1>6. CASE \/ \E p \in Wrappers : MakeWork(p) \/ MarkWork(p)
             \/ Fetch \/ SnapshotArchive \/ ExtractEntries \/ PrepareTree
    BY <1>0, <1>6, WorkSurvives
  <1>7. CASE ReserveSlot \/ Commit
    BY <1>0, <1>7, ActivationSurvives
  <1>8. CASE CleanupEntry \/ CleanupEvidence \/ CleanupDirectory
    BY <1>0, <1>8, CleaningSurvives
  <1>9. CASE UserMeddles
    <2>1. limits'.damages < limits.damages /\ limits'.damages \in Nat /\ limits.damages \in Nat
      BY <1>0, <1>9, Spent DEF UserMeddles, TreesInv
    <2>2. limits'.damages # limits.damages
      BY <2>1
    <2> QED BY <2>2 DEF Survives
  <1>10. CASE BeginInstall \/ ReturnsError \/ Refused \/ InspectAgain \/ StepFails \/ CleanupFails
              \/ OwnerKilled
    BY <1>1, <1>10 DEF BeginInstall, ReturnsError, Refused, InspectAgain, StepFails, CleanupFails,
       OwnerKilled
  <1> QED BY <1>1, <1>2, <1>3, <1>4, <1>5, <1>6, <1>7, <1>8, <1>9, <1>10
          DEF ArtifactsNext, InstallStep, artifactVars

(* No step of the launcher, no error, no kill and no recovery takes a Ready runtime *)
(* away, or touches a tree that is not provably the launcher's.                     *)
THEOREM TreesAlwaysSurvive == ArtifactsSpec => TreesSurvive
  <1>1. ArtifactsInv /\ ArtifactsInv' /\ [ArtifactsNext]_artifactVars =>
            [ /\ (State("final") = "Ready" /\ limits'.damages = limits.damages)
                     => State("final")' = "Ready"
              /\ limits'.damages = limits.damages =>
                    \A p \in Places : tree[p].receipt = "other" => tree'[p] = tree[p]
            ]_artifactVars
    BY NextSurvives DEF Survives
  <1> QED BY <1>1, ArtifactsInvariant, PTL DEF ArtifactsSpec, TreesSurvive

(* ------------------------------- the wrapper ------------------------------ *)

(* What the user's directory held before dgVoodoo came. *)
Base(n) == IF n \in had THEN "original" ELSE "none"
FileContents == {"none", "original", "wrapper", "edited"}
Trusted == lost \in {"no", "killed", "cut"}   \* no rollback failed, no installation was repeated blindly
EditTrusted == lost \in {"no", "killed"}       \* nor was a rollback killed that had the edit in memory
Writing == job \in {"install", "uninstall", "rollback"}

ToolsShape ==
    /\ had \subseteq Names
    /\ disk \in [Paths -> FileContents]
    /\ manifest \in [Names -> {NoRecord, "bare", "kept"}]
    /\ records \in [Names -> {NoRecord, "bare", "kept"}]
    /\ job \in {"none", "install", "uninstall", "rollback", "discard"}
    /\ unvisited \in {NameOrder, <<"conf">>, <<>>}
    /\ pending \in Seq(Paths \X FileContents)
    /\ snapshots \in Seq(Paths \X FileContents)
    /\ lost \in {"no", "killed", "cut", "redone", "rollback"}
    /\ edited \in BOOLEAN

(* The guard of a job excludes the tools that use the wrapper. *)
GuardInv ==
    /\ job # "none" <=> toolGuard = "job"
    /\ tool.at # "none" => tool.kind \in {"setup", "patcher", "cpl"}
    /\ tool.at \in {"none", "scanned", "locked", "running"}
    /\ tool.at \in {"locked", "running"} /\ tool.kind # "patcher"
         => toolGuard = LockMode(tool.kind)
    /\ tool.at = "running" /\ tool.overrides => tool.kind # "patcher"
    /\ tool.at = "running" /\ tool.overrides /\ ~tool.touched => Configured

(* A manifest is complete, and keeps the backup of every file the user had. *)
Recorded(m) ==
    \A n \in Names : m[n] # NoRecord /\ (m[n] = "kept" <=> n \in had)
ManifestInv ==
    /\ manifest # NoManifest => Recorded(manifest) /\ \A n \in had : disk[Backup(n)] = "original"
    /\ job = "uninstall" => manifest # NoManifest
    /\ job = "discard" => manifest = NoManifest
    /\ manifest = NoManifest /\ job \in {"install", "rollback"} => lost = "no"
    /\ manifest = NoManifest /\ (job = "discard" \/ (job = "none" /\ lost = "no"))
         => \A n \in Names : disk[Game(n)] = Base(n)
    /\ manifest = NoManifest /\ job = "none"
         => \A n \in had : "original" \in {disk[Game(n)], disk[Backup(n)]}

(* An installation: a file is overwritten only after its backup is in place. *)
Left == {unvisited[i] : i \in DOMAIN unvisited}
InstallInv ==
    job = "install" =>
        /\ Len(pending) <= 2
        /\ \A i \in DOMAIN pending : \E n \in Names \ Left :
              \/ pending[i] = <<Game(n), "wrapper">> /\ i = Len(pending)
              \/ pending[i] = <<Backup(n), "original">> /\ n \in had /\ manifest = NoManifest /\ i < Len(pending)
        /\ \A n \in Names \ Left :
              /\ records[n] # NoRecord /\ (records[n] = "kept" <=> n \in had)
              /\ n \in had => \/ disk[Backup(n)] = "original"
                              \/ \E i \in DOMAIN pending : pending[i] = <<Backup(n), "original">>
        /\ \A i \in DOMAIN pending :
              pending[i][1] = Game("conf") => disk[Game("conf")] # "edited"
        /\ \A i \in DOMAIN pending, n \in Names : pending[i][1] = Backup(n) => Game(n) \notin Remembered
        /\ \A n \in Left : Game(n) \notin Remembered

(* A removal: what it has still to write restores what there was; the first write of a
   file only takes its snapshot, and the preserved copy is written before any other
   content of the configuration. *)
Restores(i) == \E n \in Names : pending[i] = <<Game(n), Base(n)>>
Remembers(i) ==
    \E n \in Names : /\ pending[i] = <<Game(n), disk[Game(n)]>>
                     /\ \A j \in DOMAIN pending : pending[j][1] = Game(n) => i <= j
Preserves(i) ==
    /\ pending[i] = <<Preserved, disk[Game("conf")]>> /\ disk[Preserved] # "edited"
    /\ \A j \in DOMAIN pending :
          /\ pending[j][1] = Preserved => i = j
          /\ pending[j][1] = Game("conf") /\ j < i => pending[j][2] = disk[Game("conf")]
UninstallInv ==
    job = "uninstall" =>
        /\ \A i \in DOMAIN pending : Restores(i) \/ Remembers(i) \/ Preserves(i)
        /\ \A n \in Names : disk[Game(n)] = Base(n) \/ \E i \in DOMAIN pending : pending[i] = <<Game(n), Base(n)>>
        /\ disk[Game("conf")] = "edited" /\ disk[Preserved] # "edited" =>
              \E i \in DOMAIN pending : pending[i][1] = Preserved

(* The snapshots lead back: the newest is undone first. *)
RollbackInv ==
    Writing =>
        /\ manifest = NoManifest =>
              /\ \A n \in Names : Game(n) \notin Remembered => disk[Game(n)] = Base(n)
              /\ \A i \in DOMAIN snapshots, n \in Names : snapshots[i][1] = Game(n) => snapshots[i][2] = Base(n)
              /\ \A i, j \in DOMAIN snapshots, n \in Names :
                    snapshots[i][1] = Backup(n) /\ snapshots[j][1] = Game(n) => i < j
              /\ \A n \in had : Game(n) \in Remembered => disk[Backup(n)] = "original"
        /\ manifest # NoManifest => \A n \in Names : Backup(n) \notin Remembered

(* The edit: whatever is undone, it comes back in place or stays preserved. *)
EditInPlace == Game("conf") \notin Remembered /\ disk[Game("conf")] = "edited"
EditRemembered ==
    /\ Game("conf") \in Remembered
    /\ \A i \in DOMAIN snapshots : snapshots[i][1] = Game("conf") => snapshots[i][2] = "edited"
EditPreserved == Preserved \notin Remembered /\ disk[Preserved] = "edited"
EditInv ==
    edited =>
        /\ job # "rollback" => "edited" \in {disk[Game("conf")], disk[Preserved]}
        /\ Writing => EditInPlace \/ EditRemembered \/ EditPreserved

ToolsState == ManifestInv /\ InstallInv /\ UninstallInv /\ RollbackInv
ToolsInv ==
    /\ ToolsShape /\ GuardInv
    /\ Trusted => ManifestInv /\ InstallInv /\ UninstallInv /\ RollbackInv
    /\ EditTrusted => EditInv

-----------------------------------------------------------------------------
(* The places of a name are different paths. *)
LEMMA PathFacts ==
    /\ Preserved \in Paths
    /\ \A n \in Names : Game(n) \in Paths /\ Backup(n) \in Paths
    /\ \A m, n \in Names : Game(m) # Backup(n) /\ Preserved # Backup(n)
    /\ \A n \in Names : Preserved # Game(n)
    /\ \A m, n \in Names : (Game(m) = Game(n) => m = n) /\ (Backup(m) = Backup(n) => m = n)
  BY DEF Paths, Names, Game, Backup, Preserved

(* The list without its first element. *)
LEMMA RestOfList ==
    ASSUME NEW T, NEW s \in Seq(T), s # <<>>
    PROVE  /\ Len(s) \in Nat /\ Len(s) > 0 /\ DOMAIN s = 1..Len(s)
           /\ Head(s) = s[1] /\ s[1] \in T /\ 1 \in DOMAIN s
           /\ Tail(s) \in Seq(T) /\ Len(Tail(s)) = Len(s) - 1 /\ DOMAIN Tail(s) = 1..(Len(s) - 1)
           /\ \A i \in DOMAIN Tail(s) : i \in Nat /\ i + 1 \in DOMAIN s /\ Tail(s)[i] = s[i + 1]
           /\ \A i \in DOMAIN s : i # 1 => i - 1 \in DOMAIN Tail(s) /\ Tail(s)[i - 1] = s[i]
  <1>1. Len(s) \in Nat /\ Len(s) > 0 /\ DOMAIN s = 1..Len(s) /\ Head(s) = s[1] /\ s[1] \in T
    OBVIOUS
  <1>2. Tail(s) \in Seq(T) /\ Len(Tail(s)) = Len(s) - 1 /\ DOMAIN Tail(s) = 1..(Len(s) - 1)
    BY <1>1
  <1>3. \A i \in 1..(Len(s) - 1) : Tail(s)[i] = s[i + 1]
    BY <1>1
  <1> QED BY <1>1, <1>2, <1>3

(* The list without its last element. *)
LEMMA FrontOfList ==
    ASSUME NEW T, NEW s \in Seq(T), s # <<>>
    PROVE  /\ Len(s) \in Nat /\ Len(s) \in DOMAIN s /\ DOMAIN s = 1..Len(s)
           /\ Last(s) = s[Len(s)] /\ Last(s) \in T
           /\ Front(s) \in Seq(T)
           /\ DOMAIN Front(s) = 1..(Len(s) - 1)
           /\ \A i \in DOMAIN Front(s) : i \in DOMAIN s /\ Front(s)[i] = s[i] /\ i < Len(s)
           /\ \A i \in DOMAIN s : i # Len(s) => i \in DOMAIN Front(s)
  <1>1. Len(s) \in Nat /\ Len(s) > 0 /\ DOMAIN s = 1..Len(s) /\ s[Len(s)] \in T
    OBVIOUS
  <1>2. Front(s) = SubSeq(s, 1, Len(s) - 1) /\ Last(s) = s[Len(s)]
    BY DEF Front, Last
  <1>3. /\ Front(s) \in Seq(T) /\ Len(Front(s)) = Len(s) - 1
        /\ \A i \in 1..(Len(s) - 1) : Front(s)[i] = s[i]
    BY <1>1, <1>2
  <1> QED BY <1>1, <1>2, <1>3

(* The list with one more element. *)
LEMMA LongerList ==
    ASSUME NEW T, NEW s \in Seq(T), NEW x \in T
    PROVE  /\ Append(s, x) \in Seq(T) /\ Len(s) \in Nat /\ DOMAIN s = 1..Len(s)
           /\ DOMAIN Append(s, x) = 1..(Len(s) + 1)
           /\ Append(s, x)[Len(s) + 1] = x
           /\ \A i \in DOMAIN s : i \in DOMAIN Append(s, x) /\ Append(s, x)[i] = s[i] /\ i < Len(s) + 1
           /\ \A i \in DOMAIN Append(s, x) : i # Len(s) + 1 => i \in DOMAIN s
  <1>1. Len(s) \in Nat /\ DOMAIN s = 1..Len(s)
    OBVIOUS
  <1>2. /\ Append(s, x) \in Seq(T) /\ Len(Append(s, x)) = Len(s) + 1
        /\ Append(s, x)[Len(s) + 1] = x
        /\ \A i \in 1..Len(s) : Append(s, x)[i] = s[i]
    BY <1>1
  <1> QED BY <1>1, <1>2

(* One path is written. *)
LEMMA DiskWritten ==
    ASSUME ToolsShape, NEW p \in Paths, NEW c \in FileContents, disk' = [disk EXCEPT ![p] = c]
    PROVE  /\ disk'[p] = c /\ \A q \in Paths : q # p => disk'[q] = disk[q]
           /\ disk' \in [Paths -> FileContents]
  BY DEF ToolsShape

-----------------------------------------------------------------------------
(* The guard: no tool that depends on the wrapper runs while a job writes. *)
LEMMA GuardKept == ASSUME ToolsShape, GuardInv, [ServerToolsNext]_toolVars PROVE GuardInv'
  <1>1. CASE \/ BeginInstallFiles \/ InstallFile \/ WritePending \/ InstallCommit
             \/ BeginUninstallFiles \/ UninstallCommit \/ DiscardBackup
             \/ WriteFailsAndRollsBack \/ Rollback
    <2>1. tool' = tool /\ (job = "none" => disk' = disk /\ toolGuard = "free")
      BY <1>1 DEF BeginInstallFiles, InstallFile, WritePending, InstallCommit,
         BeginUninstallFiles, UninstallCommit, DiscardBackup, WriteFailsAndRollsBack, Rollback
    <2>2. /\ job' # "none" <=> toolGuard' = "job"
          /\ toolGuard \in {"free", "job"}
      BY <1>1 DEF BeginInstallFiles, InstallFile, WritePending, InstallCommit, GuardInv, ToolsShape,
         BeginUninstallFiles, UninstallCommit, DiscardBackup, WriteFailsAndRollsBack, Rollback
    <2>3. ~(tool.at \in {"locked", "running"} /\ tool.kind # "patcher")
      BY <2>2 DEF GuardInv, LockMode
    <2> QED BY <2>1, <2>2, <2>3 DEF GuardInv
  <1>2. CASE \E kind \in {"setup", "patcher", "cpl"} : LaunchTool(kind)
    BY <1>2 DEF LaunchTool, GuardInv, jobVars, NoTool, Configured, Matches
  <1>3. CASE AcquireToolGuard
    <2>1. CASE /\ tool' = [tool EXCEPT !.at = "locked"]
               /\ IF LockMode(tool.kind) = "none" THEN UNCHANGED toolGuard
                  ELSE toolGuard = "free" /\ toolGuard' = LockMode(tool.kind)
      <3>1. /\ tool'.kind = tool.kind /\ tool'.at = "locked" /\ job' = job
            /\ tool.kind \in {"setup", "patcher", "cpl"} /\ LockMode(tool.kind) # "job"
        BY <1>3, <2>1 DEF AcquireToolGuard, jobVars, GuardInv, LockMode
      <3> QED BY <2>1, <3>1 DEF GuardInv, LockMode
    <2>2. CASE tool' = NoTool /\ UNCHANGED toolGuard
      BY <1>3, <2>2 DEF AcquireToolGuard, jobVars, GuardInv, NoTool
    <2> QED BY <1>3, <2>1, <2>2 DEF AcquireToolGuard
  <1>4. CASE Rescan \/ ToolExits
    <2>1. CASE tool' = NoTool /\ Unlocked
      BY <1>4, <2>1 DEF Rescan, ToolExits, Unlocked, jobVars, GuardInv, NoTool, LockMode
    <2>2. CASE Configured = tool.saw /\ tool' = Spawned(tool) /\ UNCHANGED toolGuard /\ tool.at = "locked"
      <3>1. /\ tool'.kind = tool.kind /\ tool'.at = "running"
            /\ tool'.overrides = (tool.saw /\ tool.kind # "patcher")
        BY <2>2 DEF Spawned
      <3>2. Configured' = Configured /\ job' = job
        BY <1>4 DEF Rescan, ToolExits, jobVars, Configured, Matches
      <3> QED BY <2>2, <3>1, <3>2 DEF GuardInv
    <2> QED BY <1>4, <2>1, <2>2 DEF Rescan, ToolExits
  <1>5. CASE UserEdits
    <2>1. tool' = [tool EXCEPT !.touched = TRUE] /\ UNCHANGED <<job, toolGuard>>
      BY <1>5 DEF UserEdits, jobVars
    <2>2. tool'.touched = TRUE \/ tool' = tool
      BY <2>1
    <2> QED BY <2>1 DEF GuardInv
  <1>6. CASE LauncherKilled
    BY <1>6 DEF LauncherKilled, GuardInv, NoTool
  <1>7. CASE UNCHANGED toolVars
    BY <1>7 DEF toolVars, GuardInv, Configured, Matches
  <1> QED BY <1>1, <1>2, <1>3, <1>4, <1>5, <1>6, <1>7 DEF ServerToolsNext

-----------------------------------------------------------------------------
(* What is remembered by its index. *)
LEMMA RememberedBy ==
    ASSUME NEW p
    PROVE  p \in Remembered <=> \E i \in DOMAIN snapshots : snapshots[i][1] = p
  BY DEF Remembered

(* The template files are visited in their order. *)
LEMMA TailOfOrder ==
    /\ NameOrder # <<>> /\ Head(NameOrder) = "dll" /\ Tail(NameOrder) = <<"conf">>
    /\ <<"conf">> # <<>> /\ Head(<<"conf">>) = "conf" /\ Tail(<<"conf">>) = <<>>
    /\ NameOrder # <<"conf">>
  <1>1. Tail(<<"dll", "conf">>) = <<"conf">>
    OBVIOUS
  <1>2. Tail(<<"conf">>) = <<>>
    OBVIOUS
  <1> QED BY <1>1, <1>2 DEF NameOrder

(* A manifest with a record for every file is not the empty one. *)
LEMMA WholeManifest == ASSUME NEW m, Recorded(m) PROVE m # NoManifest
  BY DEF Recorded, NoManifest, Names

(* Files are not touched, and whatever was going on is over or rolled back. *)
LEMMA BeginInstallFilesKeeps ==
    ASSUME ToolsInv, BeginInstallFiles PROVE ToolsShape' /\ (Trusted' => ToolsState')
  <1>1. ToolsShape'
    BY DEF ToolsInv, ToolsShape, BeginInstallFiles, NoManifest, NameOrder
  <1>2. ASSUME Trusted' PROVE ToolsState'
    <2>1. Trusted /\ lost' = lost /\ (manifest = NoManifest => lost = "no")
      BY <1>2 DEF BeginInstallFiles, Trusted
    <2>2. /\ job = "none" /\ job' = "install" /\ pending' = <<>> /\ snapshots' = <<>>
          /\ unvisited' = NameOrder /\ UNCHANGED <<had, disk, manifest, edited>>
      BY DEF BeginInstallFiles
    <2>3. Left' = Names
      <3>1. unvisited' = <<"dll", "conf">> /\ Left' = {unvisited'[i] : i \in DOMAIN unvisited'}
        BY <2>2 DEF Left, NameOrder
      <3> QED BY <3>1 DEF Names
    <2>4. Remembered' = {}
      BY <2>2 DEF Remembered
    <2>5. ManifestInv'
      BY <2>1, <2>2 DEF ToolsInv, ManifestInv, Recorded
    <2>6. InstallInv'
      BY <2>2, <2>3, <2>4 DEF InstallInv
    <2>7. UninstallInv'
      BY <2>2 DEF UninstallInv
    <2>8. RollbackInv'
      BY <2>1, <2>2, <2>4 DEF ToolsInv, ManifestInv, RollbackInv, Base
    <2> QED BY <2>5, <2>6, <2>7, <2>8 DEF ToolsState
  <1> QED BY <1>1, <1>2

(* An installation that has visited every file has a complete manifest. *)
LEMMA InstallCommitKeeps ==
    ASSUME ToolsInv, InstallCommit PROVE ToolsShape' /\ (Trusted' => ToolsState')
  <1>1. ToolsShape'
    BY DEF ToolsInv, ToolsShape, InstallCommit
  <1>2. ASSUME Trusted' PROVE ToolsState'
    <2>1. /\ Trusted /\ job = "install" /\ job' = "none" /\ pending = <<>> /\ unvisited = <<>>
          /\ manifest' = records /\ UNCHANGED <<had, disk, edited, lost>>
      BY <1>2 DEF InstallCommit, Trusted
    <2>2. Left = {}
      BY <2>1 DEF Left
    <2>3. /\ \A n \in Names : records[n] # NoRecord /\ (records[n] = "kept" <=> n \in had)
          /\ \A n \in Names : n \in had => disk[Backup(n)] = "original"
      BY <2>1, <2>2 DEF ToolsInv, InstallInv
    <2>4. Recorded(manifest)' /\ \A n \in had' : disk'[Backup(n)] = "original"
      BY <2>1, <2>3 DEF Recorded, ToolsInv, ToolsShape
    <2>5. manifest' # NoManifest
      BY <2>1, <2>3 DEF NoManifest, Names
    <2>6. ManifestInv'
      BY <2>1, <2>4, <2>5 DEF ManifestInv
    <2> QED BY <2>1, <2>6 DEF ToolsState, InstallInv, UninstallInv, RollbackInv, Writing
  <1> QED BY <1>1, <1>2

(* Everything a removal had to write is written: the directory is as it was. *)
LEMMA UninstallCommitKeeps ==
    ASSUME ToolsInv, UninstallCommit PROVE ToolsShape' /\ (Trusted' => ToolsState')
  <1>1. ToolsShape'
    BY DEF ToolsInv, ToolsShape, UninstallCommit, NoManifest
  <1>2. ASSUME Trusted' PROVE ToolsState'
    <2>1. /\ Trusted /\ job = "uninstall" /\ job' = "discard" /\ pending = <<>>
          /\ manifest' = NoManifest /\ UNCHANGED <<had, disk, edited, lost>>
      BY <1>2 DEF UninstallCommit, Trusted
    <2>2. \A n \in Names : disk[Game(n)] = Base(n)
      BY <2>1 DEF ToolsInv, UninstallInv
    <2>3. ManifestInv'
      BY <2>1, <2>2 DEF ToolsInv, ManifestInv, Base
    <2> QED BY <2>1, <2>3 DEF ToolsState, InstallInv, UninstallInv, RollbackInv, Writing
  <1> QED BY <1>1, <1>2

(* A backup that nobody needs any more is removed, or not. *)
LEMMA DiscardBackupKeeps ==
    ASSUME ToolsInv, DiscardBackup PROVE ToolsShape' /\ (Trusted' => ToolsState')
  <1>0. /\ job = "discard" /\ job' \in {"discard", "none"}
        /\ UNCHANGED <<had, manifest, edited, lost, snapshots, pending, records>>
    BY DEF DiscardBackup
  <1>1. \/ disk' = disk
        \/ \E n \in Names : disk' = [disk EXCEPT ![Backup(n)] = "none"]
    <2>1. unvisited # <<>> => Head(unvisited) \in Names
      BY DEF ToolsInv, ToolsShape, NameOrder, Names
    <2> QED BY <2>1 DEF DiscardBackup
  <1>2. /\ disk' \in [Paths -> FileContents] /\ disk'[Preserved] = disk[Preserved]
        /\ \A n \in Names : disk'[Game(n)] = disk[Game(n)]
    BY <1>1, DiskWritten, PathFacts DEF ToolsInv, ToolsShape, FileContents
  <1>3. unvisited' \in {NameOrder, <<"conf">>, <<>>}
    <2>1. unvisited' = unvisited \/ (unvisited # <<>> /\ unvisited' = Tail(unvisited))
      BY DEF DiscardBackup
    <2> QED BY <2>1, TailOfOrder DEF ToolsInv, ToolsShape
  <1>4. ToolsShape'
    BY <1>0, <1>2, <1>3 DEF ToolsInv, ToolsShape
  <1>5. ASSUME Trusted' PROVE ToolsState'
    <2>1. Trusted
      BY <1>0, <1>5 DEF Trusted
    <2>2. ManifestInv'
      BY <1>0, <1>2, <2>1, PathFacts DEF ToolsInv, ManifestInv, Base, Names, ToolsShape
    <2> QED BY <1>0, <2>2 DEF ToolsState, InstallInv, UninstallInv, RollbackInv, Writing
  <1> QED BY <1>4, <1>5

(* The first error changes nothing but what happens next. *)
LEMMA WriteFailsAndRollsBackKeeps ==
    ASSUME ToolsInv, WriteFailsAndRollsBack PROVE ToolsShape' /\ (Trusted' => ToolsState')
  <1>0. /\ job \in {"install", "uninstall"} /\ job' = "rollback"
        /\ UNCHANGED <<had, disk, manifest, unvisited, pending, records, snapshots, lost, edited>>
    BY DEF WriteFailsAndRollsBack
  <1>1. ToolsShape'
    BY <1>0 DEF ToolsInv, ToolsShape
  <1>2. ASSUME Trusted' PROVE ToolsState'
    <2>1. Trusted
      BY <1>0, <1>2 DEF Trusted
    <2>2. ManifestInv'
      BY <1>0, <2>1 DEF ToolsInv, ManifestInv, Recorded
    <2>3. RollbackInv'
      BY <1>0, <2>1 DEF ToolsInv, RollbackInv, Writing, Remembered, Base
    <2> QED BY <1>0, <2>2, <2>3 DEF ToolsState, InstallInv, UninstallInv
  <1> QED BY <1>1, <1>2

(* The user can change only a wrapper; what is not the wrapper is not touched. *)
LEMMA UserEditsKeeps ==
    ASSUME ToolsInv, UserEdits PROVE ToolsShape' /\ (Trusted' => ToolsState')
  <1>0. job = "none" /\ UNCHANGED <<jobVars, lost>>
    BY DEF UserEdits
  <1>1. PICK n \in Names, c \in {"edited", "none"} :
          /\ disk[Game(n)] = "wrapper" /\ disk' = [disk EXCEPT ![Game(n)] = c]
          /\ edited' = (edited \/ (n = "conf" /\ c = "edited"))
    BY DEF UserEdits, Matches
  <1>2. /\ disk' \in [Paths -> FileContents] /\ disk'[Game(n)] = c
        /\ \A q \in Paths : q # Game(n) => disk'[q] = disk[q]
    BY <1>1, DiskWritten, PathFacts DEF ToolsInv, FileContents
  <1>3. ToolsShape'
    BY <1>0, <1>1, <1>2 DEF ToolsInv, ToolsShape, jobVars
  <1>4. ASSUME Trusted' PROVE ToolsState'
    <2>1. Trusted
      BY <1>0, <1>4 DEF Trusted
    <2>2. \A m \in Names : disk[Backup(m)] = disk'[Backup(m)]
      BY <1>2, PathFacts
    <2>3. \A m \in Names : disk'[Game(m)] = disk[Game(m)] \/ disk[Game(m)] = "wrapper"
      BY <1>1, <1>2, PathFacts
    <2>4. ManifestInv'
      BY <1>0, <2>1, <2>2, <2>3 DEF ToolsInv, ManifestInv, Recorded, Base, jobVars, ToolsShape
    <2> QED BY <1>0, <2>4 DEF ToolsState, InstallInv, UninstallInv, RollbackInv, Writing, jobVars
  <1> QED BY <1>3, <1>4

-----------------------------------------------------------------------------
(* Short lists are joined. *)
LEMMA Joins ==
    /\ <<>> \o <<>> = <<>>
    /\ \A a : <<>> \o <<a>> = <<a>> /\ <<a>> \o <<>> = <<a>>
    /\ \A a, b : <<a>> \o <<b>> = <<a, b>> /\ <<>> \o <<a, b>> = <<a, b>>
    /\ \A a, b, c : <<a>> \o <<b, c>> = <<a, b, c>>
  <1>1. ASSUME NEW a, NEW b
        PROVE  /\ <<>> \o <<>> = <<>> /\ <<>> \o <<a>> = <<a>> /\ <<a>> \o <<>> = <<a>>
               /\ <<>> \o <<a, b>> = <<a, b>>
    <2>1. <<>> \in Seq({a, b}) /\ <<a>> \in Seq({a, b}) /\ <<a, b>> \in Seq({a, b})
      OBVIOUS
    <2> QED BY <2>1, ConcatEmptySeq
  <1>2. ASSUME NEW a, NEW b PROVE <<a>> \o <<b>> = <<a, b>>
    <2> DEFINE T == {a, b}
               s == <<a>> \o <<b>>
    <2>0. <<a>> \in Seq(T) /\ <<b>> \in Seq(T) /\ <<a, b>> \in Seq(T)
      OBVIOUS
    <2>1. /\ s \in Seq(T) /\ Len(s) = Len(<<a>>) + Len(<<b>>)
          /\ \A i \in 1 .. Len(<<a>>) + Len(<<b>>) :
                s[i] = IF i <= Len(<<a>>) THEN <<a>>[i] ELSE <<b>>[i - Len(<<a>>)]
      BY <2>0, ConcatProperties
    <2> HIDE DEF s
    <2>2. Len(s) = 2 /\ s[1] = a /\ s[2] = b
      BY <2>1
    <2>3. Len(<<a, b>>) = 2 /\ <<a, b>>[1] = a /\ <<a, b>>[2] = b
      OBVIOUS
    <2>4. \A i \in 1 .. Len(s) : s[i] = <<a, b>>[i]
      BY <2>2, <2>3
    <2>5. s = <<a, b>>
      BY <2>0, <2>1, <2>2, <2>3, <2>4, SeqEqual
    <2> QED BY <2>5 DEF s
  <1>3. ASSUME NEW a, NEW b, NEW c PROVE <<a>> \o <<b, c>> = <<a, b, c>>
    <2> DEFINE T == {a, b, c}
               s == <<a>> \o <<b, c>>
    <2>0. <<a>> \in Seq(T) /\ <<b, c>> \in Seq(T) /\ <<a, b, c>> \in Seq(T)
      OBVIOUS
    <2>1. /\ s \in Seq(T) /\ Len(s) = Len(<<a>>) + Len(<<b, c>>)
          /\ \A i \in 1 .. Len(<<a>>) + Len(<<b, c>>) :
                s[i] = IF i <= Len(<<a>>) THEN <<a>>[i] ELSE <<b, c>>[i - Len(<<a>>)]
      BY <2>0, ConcatProperties
    <2> HIDE DEF s
    <2>2. Len(s) = 3 /\ s[1] = a /\ s[2] = b /\ s[3] = c
      BY <2>1
    <2>3. Len(<<a, b, c>>) = 3 /\ <<a, b, c>>[1] = a /\ <<a, b, c>>[2] = b /\ <<a, b, c>>[3] = c
      OBVIOUS
    <2>4. \A i \in 1 .. Len(s) : s[i] = <<a, b, c>>[i]
      BY <2>2, <2>3
    <2>5. s = <<a, b, c>>
      BY <2>0, <2>1, <2>2, <2>3, <2>4, SeqEqual
    <2> QED BY <2>5 DEF s
  <1> QED BY <1>1, <1>2, <1>3

(* Short lists of writes. *)
LEMMA Lists ==
    ASSUME NEW a, NEW b
    PROVE  /\ DOMAIN <<>> = {} /\ Len(<<>>) = 0
           /\ DOMAIN <<a>> = {1} /\ Len(<<a>>) = 1 /\ <<a>>[1] = a
           /\ DOMAIN <<a, b>> = {1, 2} /\ Len(<<a, b>>) = 2 /\ <<a, b>>[1] = a /\ <<a, b>>[2] = b
  OBVIOUS

(* A short list of writes is a list of writes. *)
LEMMA ListsTyped ==
    ASSUME NEW T, NEW a \in T, NEW b \in T, NEW c \in T
    PROVE  <<>> \in Seq(T) /\ <<a>> \in Seq(T) /\ <<a, b>> \in Seq(T) /\ <<a, b, c>> \in Seq(T)
  OBVIOUS

(* The files not visited yet. *)
LEMMA LeftFacts ==
    ASSUME ToolsShape
    PROVE  /\ unvisited = NameOrder => Left = Names
           /\ unvisited = <<"conf">> => Left = {"conf"}
           /\ unvisited = <<>> => Left = {}
  <1>1. CASE unvisited = NameOrder
    BY <1>1, TailOfOrder DEF Left, NameOrder, Names
  <1>2. CASE unvisited = <<"conf">>
    BY <1>2, TailOfOrder DEF Left
  <1>3. CASE unvisited = <<>>
    BY <1>3, TailOfOrder DEF Left, NameOrder
  <1> QED BY <1>1, <1>2, <1>3, TailOfOrder DEF ToolsShape

(* One more file is visited. *)
LEMMA NextFile ==
    ASSUME ToolsShape, unvisited # <<>>, unvisited' = Tail(unvisited)
    PROVE  /\ Head(unvisited) \in Names /\ Head(unvisited) \in Left
           /\ Left' = Left \ {Head(unvisited)}
           /\ unvisited' \in {NameOrder, <<"conf">>, <<>>}
  <1>1. CASE unvisited = NameOrder
    <2>1. unvisited' = <<"conf">> /\ Left' = {unvisited'[i] : i \in DOMAIN unvisited'}
      BY <1>1, TailOfOrder DEF Left
    <2>2. Left' = {"conf"}
      BY <2>1
    <2> QED BY <1>1, <2>1, <2>2, LeftFacts, TailOfOrder DEF Names
  <1>2. CASE unvisited = <<"conf">>
    <2>1. unvisited' = <<>> /\ Left' = {unvisited'[i] : i \in DOMAIN unvisited'}
      BY <1>2, TailOfOrder DEF Left
    <2>2. Left' = {}
      BY <2>1
    <2> QED BY <1>2, <2>1, <2>2, LeftFacts, TailOfOrder DEF Names
  <1> QED BY <1>1, <1>2 DEF ToolsShape

(* The decision for one file: its writes, the backup first. *)
LEMMA InstallFileKeeps ==
    ASSUME ToolsInv, InstallFile PROVE ToolsShape' /\ (Trusted' => ToolsState')
  <1> DEFINE n == Head(unvisited)
  <1>0. /\ job = "install" /\ pending = <<>> /\ unvisited # <<>> /\ ToolsShape
        /\ UNCHANGED <<had, disk, manifest, snapshots, lost, edited>>
    BY DEF InstallFile, ToolsInv
  <1>1. CASE Refuses(n) /\ job' = "rollback" /\ UNCHANGED <<unvisited, pending, records>>
    <2>1. ToolsShape'
      BY <1>0, <1>1 DEF ToolsShape
    <2>2. ASSUME Trusted' PROVE ToolsState'
      <3>1. Trusted
        BY <1>0, <2>2 DEF Trusted
      <3>2. ManifestInv'
        BY <1>0, <1>1, <3>1 DEF ToolsInv, ManifestInv, Recorded
      <3>3. RollbackInv'
        BY <1>0, <1>1, <3>1 DEF ToolsInv, RollbackInv, Writing, Remembered, Base
      <3> QED BY <1>1, <3>2, <3>3 DEF ToolsState, InstallInv, UninstallInv
    <2> QED BY <2>1, <2>2
  <1>2. CASE /\ ~Refuses(n) /\ unvisited' = Tail(unvisited) /\ UNCHANGED job
             /\ pending' = IF KeepsEdit(n) THEN <<>> ELSE FileWrites(n)
             /\ records' = [records EXCEPT ![n] = FileRecord(n)]
    <2>1. /\ n \in Names /\ n \in Left /\ Left' = Left \ {n}
          /\ unvisited' \in {NameOrder, <<"conf">>, <<>>}
      BY <1>0, <1>2, NextFile
    <2> HIDE DEF n
    <2>2. \/ pending' = <<>> /\ KeepsEdit(n)
          \/ /\ pending' = << <<Game(n), "wrapper">> >> /\ ~KeepsEdit(n)
             /\ manifest[n] # NoRecord \/ disk[Game(n)] = "none"
          \/ /\ pending' = << <<Backup(n), disk[Game(n)]>>, <<Game(n), "wrapper">> >>
             /\ manifest[n] = NoRecord /\ disk[Game(n)] # "none"
      <3> DEFINE g == <<Game(n), "wrapper">>
                 b == <<Backup(n), disk[Game(n)]>>
      <3> HIDE DEF g, b
      <3>1. <<>> \o <<g>> = <<g>>
        BY Joins
      <3>2. <<b>> \o <<g>> = <<b, g>>
        BY Joins
      <3> QED BY <1>2, <3>1, <3>2 DEF FileWrites, g, b
    <2>3. ToolsShape'
      <3>1. disk[Game(n)] \in FileContents /\ <<Game(n), "wrapper">> \in Paths \X FileContents
            /\ <<Backup(n), disk[Game(n)]>> \in Paths \X FileContents
        BY <1>0, <2>1, PathFacts DEF ToolsShape, FileContents
      <3>2. pending' \in Seq(Paths \X FileContents)
        BY <2>2, <3>1, ListsTyped
      <3>3. FileRecord(n) \in {NoRecord, "bare", "kept"}
        BY <1>0, <2>1 DEF FileRecord, ToolsShape
      <3> QED BY <1>0, <1>2, <2>1, <3>2, <3>3 DEF ToolsShape
    <2>4. ASSUME Trusted' PROVE ToolsState'
      <3>0. Trusted /\ ManifestInv /\ InstallInv /\ RollbackInv
        BY <1>0, <2>4 DEF Trusted, ToolsInv
      <3>1. manifest[n] = NoRecord <=> manifest = NoManifest
        BY <2>1, <3>0 DEF ManifestInv, Recorded, NoManifest
      <3>2. Game(n) \notin Remembered
        BY <1>0, <2>1, <3>0 DEF InstallInv
      <3>3. manifest = NoManifest => disk[Game(n)] = Base(n)
        BY <1>0, <2>1, <3>0, <3>2 DEF RollbackInv, Writing
      <3>4. \/ pending' = <<>> /\ manifest # NoManifest
            \/ /\ pending' = << <<Game(n), "wrapper">> >>
               /\ manifest # NoManifest \/ n \notin had
               /\ n = "conf" => disk[Game(n)] # "edited"
            \/ /\ pending' = << <<Backup(n), "original">>, <<Game(n), "wrapper">> >>
               /\ manifest = NoManifest /\ n \in had
               /\ n = "conf" => disk[Game(n)] # "edited"
        BY <2>2, <3>1, <3>3 DEF KeepsEdit, Base, Matches
      <3>5. /\ records'[n] # NoRecord /\ (records'[n] = "kept" <=> n \in had)
            /\ \A m \in Names \ {n} : records'[m] = records[m]
        <4>1. records'[n] = FileRecord(n) /\ \A m \in Names \ {n} : records'[m] = records[m]
          BY <1>0, <1>2, <2>1 DEF ToolsShape
        <4>2. CASE manifest # NoManifest
          <5>1. FileRecord(n) = manifest[n]
            BY <3>1, <4>2 DEF FileRecord
          <5> QED BY <2>1, <3>0, <4>1, <4>2, <5>1 DEF ManifestInv, Recorded
        <4>3. CASE manifest = NoManifest
          BY <3>1, <3>3, <4>1, <4>3 DEF FileRecord, Base, NoRecord
        <4> QED BY <4>2, <4>3
      <3>6. n \in had => \/ disk[Backup(n)] = "original"
                         \/ 1 \in DOMAIN pending' /\ pending'[1] = <<Backup(n), "original">>
        BY <3>0, <3>4 DEF ManifestInv
      <3>7. Remembered' = Remembered
        BY <1>0 DEF Remembered
      <3>8. /\ Len(pending') <= 2
            /\ \A i \in DOMAIN pending' :
                 \/ pending'[i] = <<Game(n), "wrapper">> /\ i = Len(pending')
                 \/ /\ pending'[i] = <<Backup(n), "original">> /\ n \in had
                    /\ manifest = NoManifest /\ i < Len(pending')
            /\ \A i \in DOMAIN pending' : n = "conf" => disk[Game(n)] # "edited"
        <4> DEFINE g == <<Game(n), "wrapper">>
                   b == <<Backup(n), "original">>
        <4> HIDE DEF g, b
        <4>1. /\ DOMAIN <<>> = {} /\ Len(<<>>) = 0
              /\ DOMAIN <<g>> = {1} /\ Len(<<g>>) = 1 /\ <<g>>[1] = g
              /\ DOMAIN <<b, g>> = {1, 2} /\ Len(<<b, g>>) = 2 /\ <<b, g>>[1] = b /\ <<b, g>>[2] = g
          BY Lists
        <4>2. pending' \in {<<>>, <<g>>, <<b, g>>}
          BY <3>4 DEF g, b
        <4>3. pending' = <<b, g>> => manifest = NoManifest /\ n \in had
          BY <3>4, <4>1 DEF g, b
        <4>4. pending' # <<>> => (n = "conf" => disk[Game(n)] # "edited")
          BY <3>4
        <4>5. \A i \in DOMAIN pending' : pending' # <<>>
          BY <4>1
        <4>6. /\ Len(pending') <= 2
              /\ \A i \in DOMAIN pending' :
                   \/ pending'[i] = g /\ i = Len(pending')
                   \/ pending'[i] = b /\ pending' = <<b, g>> /\ i < Len(pending')
          <5>1. CASE pending' = <<>>
            BY <4>1, <5>1
          <5>2. CASE pending' = <<g>>
            BY <4>1, <5>2
          <5>3. CASE pending' = <<b, g>>
            BY <4>1, <5>3
          <5> QED BY <4>2, <5>1, <5>2, <5>3
        <4> QED BY <4>3, <4>4, <4>5, <4>6 DEF g, b
      <3>9. InstallInv'
        <4>1. \A i \in DOMAIN pending', m \in Names : pending'[i][1] = Backup(m) => m = n
          BY <2>1, <3>8, PathFacts
        <4>2. \A i \in DOMAIN pending' : pending'[i][1] = Game("conf") => disk[Game("conf")] # "edited"
          BY <2>1, <3>8, PathFacts DEF Names
        <4>3. \A m \in Names \ Left' : m = n \/ m \in Names \ Left
          BY <2>1
        <4>4. \A m \in Names \ Left : m # n /\ (m \in had => disk[Backup(m)] = "original")
          BY <1>0, <2>1, <3>0 DEF InstallInv
        <4>5. \A m \in Names \ Left' :
                 /\ records'[m] # NoRecord /\ (records'[m] = "kept" <=> m \in had)
                 /\ m \in had => \/ disk[Backup(m)] = "original"
                                 \/ \E i \in DOMAIN pending' : pending'[i] = <<Backup(m), "original">>
          BY <1>0, <3>0, <3>5, <3>6, <4>3, <4>4 DEF InstallInv
        <4>6. \A m \in Left' : Game(m) \notin Remembered'
          BY <1>0, <2>1, <3>0, <3>7 DEF InstallInv
        <4> QED BY <1>0, <2>1, <3>2, <3>7, <3>8, <4>1, <4>2, <4>5, <4>6 DEF InstallInv
      <3>10. ManifestInv'
        BY <1>0, <1>2, <3>0 DEF ManifestInv, Recorded
      <3>11. RollbackInv'
        BY <1>0, <1>2, <3>0, <3>7 DEF RollbackInv, Writing, Base
      <3> QED BY <1>0, <1>2, <3>9, <3>10, <3>11 DEF ToolsState, UninstallInv
    <2> QED BY <2>3, <2>4
  <1> QED BY <1>1, <1>2 DEF InstallFile

(* One write: the path is remembered with what it held, if it was not yet. *)
LEMMA WriteFacts ==
    ASSUME ToolsShape, WritePending, NEW w, w = pending[1]
    PROVE  /\ job \in {"install", "uninstall"} /\ 1 \in DOMAIN pending
           /\ UNCHANGED <<had, manifest, job, unvisited, records, lost, edited>>
           /\ w[1] \in Paths /\ w[2] \in FileContents
           /\ disk'[w[1]] = w[2] /\ \A q \in Paths : q # w[1] => disk'[q] = disk[q]
           /\ Len(pending) \in Nat /\ Len(pending') = Len(pending) - 1 /\ DOMAIN pending = 1..Len(pending)
           /\ DOMAIN pending' = 1..(Len(pending) - 1)
           /\ \A i \in DOMAIN pending' : i \in Nat /\ i + 1 \in DOMAIN pending /\ pending'[i] = pending[i + 1]
           /\ \A i \in DOMAIN pending : i # 1 => i - 1 \in DOMAIN pending' /\ pending'[i - 1] = pending[i]
           /\ Remembered' = Remembered \cup {w[1]}
           /\ \A i \in DOMAIN snapshots' :
                 \/ i \in DOMAIN snapshots /\ snapshots'[i] = snapshots[i]
                 \/ /\ snapshots'[i] = <<w[1], disk[w[1]]>> /\ w[1] \notin Remembered
                    /\ i \notin DOMAIN snapshots /\ \A j \in DOMAIN snapshots : j < i
           /\ ToolsShape'
  <1>0. /\ job \in {"install", "uninstall"} /\ pending # <<>> /\ pending' = Tail(pending)
        /\ UNCHANGED <<had, manifest, job, unvisited, records, lost, edited>>
    BY DEF WritePending
  <1>1. /\ Len(pending) \in Nat /\ Len(pending) > 0 /\ DOMAIN pending = 1..Len(pending)
        /\ Head(pending) = pending[1] /\ pending[1] \in Paths \X FileContents /\ 1 \in DOMAIN pending
        /\ pending' \in Seq(Paths \X FileContents) /\ Len(pending') = Len(pending) - 1
        /\ DOMAIN pending' = 1..(Len(pending) - 1)
        /\ \A i \in DOMAIN pending' : i \in Nat /\ i + 1 \in DOMAIN pending /\ pending'[i] = pending[i + 1]
        /\ \A i \in DOMAIN pending : i # 1 => i - 1 \in DOMAIN pending' /\ pending'[i - 1] = pending[i]
    BY <1>0, RestOfList DEF ToolsShape
  <1>2. w[1] \in Paths /\ w[2] \in FileContents
    BY <1>1
  <1>3. /\ disk' = [disk EXCEPT ![w[1]] = w[2]]
        /\ snapshots' = IF w[1] \in Remembered THEN snapshots
                                               ELSE Append(snapshots, <<w[1], disk[w[1]]>>)
    BY <1>1 DEF WritePending
  <1>4. /\ disk'[w[1]] = w[2] /\ \A q \in Paths : q # w[1] => disk'[q] = disk[q]
        /\ disk' \in [Paths -> FileContents]
    BY <1>2, <1>3, DiskWritten
  <1>5. <<w[1], disk[w[1]]>> \in Paths \X FileContents
    BY <1>2 DEF ToolsShape
  <1>6. CASE w[1] \in Remembered
    <2>1. snapshots' = snapshots /\ Remembered' = Remembered
      BY <1>3, <1>6 DEF Remembered
    <2> QED BY <1>0, <1>1, <1>2, <1>4, <1>6, <2>1 DEF ToolsShape
  <1>7. CASE w[1] \notin Remembered
    <2> DEFINE x == <<w[1], disk[w[1]]>>
    <2>1. snapshots' = Append(snapshots, x) /\ x[1] = w[1]
      BY <1>3, <1>7
    <2>2. snapshots \in Seq(Paths \X FileContents) /\ x \in Paths \X FileContents
      BY <1>5 DEF ToolsShape
    <2> HIDE DEF x
    <2>3. /\ snapshots' \in Seq(Paths \X FileContents) /\ Len(snapshots) \in Nat
          /\ DOMAIN snapshots = 1..Len(snapshots)
          /\ DOMAIN snapshots' = 1..(Len(snapshots) + 1)
          /\ snapshots'[Len(snapshots) + 1] = x
          /\ \A i \in DOMAIN snapshots : i \in DOMAIN snapshots' /\ snapshots'[i] = snapshots[i]
                                         /\ i < Len(snapshots) + 1
          /\ \A i \in DOMAIN snapshots' : i # Len(snapshots) + 1 => i \in DOMAIN snapshots
      BY <2>1, <2>2, LongerList
    <2>4. \A i \in DOMAIN snapshots' :
             \/ i \in DOMAIN snapshots /\ snapshots'[i] = snapshots[i]
             \/ /\ snapshots'[i] = x /\ i \notin DOMAIN snapshots
                /\ \A j \in DOMAIN snapshots : j < i
      BY <2>3
    <2>5. Remembered' = Remembered \cup {w[1]}
      <3>1. Remembered' = {snapshots'[i][1] : i \in DOMAIN snapshots'}
        BY DEF Remembered
      <3>2. \E i \in DOMAIN snapshots' : snapshots'[i][1] = w[1]
        BY <2>1, <2>3
      <3> QED BY <2>1, <2>3, <2>4, <3>1, <3>2 DEF Remembered
    <2>6. ToolsShape'
      BY <1>0, <1>1, <1>4, <2>3 DEF ToolsShape
    <2> QED BY <1>0, <1>1, <1>2, <1>4, <1>7, <2>4, <2>5, <2>6 DEF x
  <1> QED BY <1>6, <1>7

(* The same, by the parts of the write. *)
LEMMA WriteOf ==
    ASSUME ToolsShape, WritePending, NEW q, NEW c, pending[1] = <<q, c>>
    PROVE  /\ UNCHANGED <<had, manifest, job, unvisited, records, lost, edited>>
           /\ q \in Paths /\ c \in FileContents
           /\ disk'[q] = c /\ \A p \in Paths : p # q => disk'[p] = disk[p]
           /\ Len(pending) \in Nat /\ Len(pending') = Len(pending) - 1
           /\ DOMAIN pending = 1..Len(pending) /\ DOMAIN pending' = 1..(Len(pending) - 1)
           /\ 1 \in DOMAIN pending
           /\ \A i \in DOMAIN pending' : i \in Nat /\ i # 0 /\ i + 1 \in DOMAIN pending /\ pending'[i] = pending[i + 1]
           /\ \A i \in DOMAIN pending : i # 1 => i - 1 \in DOMAIN pending' /\ pending'[i - 1] = pending[i]
           /\ Remembered' = Remembered \cup {q}
           /\ \A i \in DOMAIN snapshots' :
                 \/ i \in DOMAIN snapshots /\ snapshots'[i] = snapshots[i]
                 \/ /\ snapshots'[i] = <<q, disk[q]>> /\ q \notin Remembered
                    /\ i \notin DOMAIN snapshots /\ \A j \in DOMAIN snapshots : j < i
  <1>1. PICK w : w = pending[1]
    OBVIOUS
  <1>2. w[1] = q /\ w[2] = c
    BY <1>1
  <1>3. /\ UNCHANGED <<had, manifest, job, unvisited, records, lost, edited>>
        /\ w[1] \in Paths /\ w[2] \in FileContents
        /\ disk'[w[1]] = w[2] /\ \A p \in Paths : p # w[1] => disk'[p] = disk[p]
        /\ Len(pending) \in Nat /\ Len(pending') = Len(pending) - 1
        /\ DOMAIN pending = 1..Len(pending) /\ DOMAIN pending' = 1..(Len(pending) - 1)
        /\ 1 \in DOMAIN pending
        /\ \A i \in DOMAIN pending' : i \in Nat /\ i + 1 \in DOMAIN pending /\ pending'[i] = pending[i + 1]
        /\ \A i \in DOMAIN pending : i # 1 => i - 1 \in DOMAIN pending' /\ pending'[i - 1] = pending[i]
        /\ Remembered' = Remembered \cup {w[1]}
        /\ \A i \in DOMAIN snapshots' :
              \/ i \in DOMAIN snapshots /\ snapshots'[i] = snapshots[i]
              \/ /\ snapshots'[i] = <<w[1], disk[w[1]]>> /\ w[1] \notin Remembered
                 /\ i \notin DOMAIN snapshots /\ \A j \in DOMAIN snapshots : j < i
    BY <1>1, WriteFacts
  <1>4. \A i \in DOMAIN pending' : i # 0
    BY <1>3
  <1> QED BY <1>2, <1>3, <1>4

(* The wrapper is written over a file whose backup is in place. *)
LEMMA InstallsWrapper ==
    ASSUME ToolsInv, WritePending, Trusted, job = "install", NEW n \in Names \ Left,
           pending[1] = <<Game(n), "wrapper">>, 1 = Len(pending)
    PROVE  ToolsState'
  <1>0. ToolsShape /\ ManifestInv /\ InstallInv /\ RollbackInv /\ n \in Names
    BY DEF ToolsInv
  <1>1. /\ UNCHANGED <<had, manifest, job, unvisited, records, lost, edited>>
        /\ disk'[Game(n)] = "wrapper" /\ \A q \in Paths : q # Game(n) => disk'[q] = disk[q]
        /\ Len(pending') = 0 /\ DOMAIN pending = {1} /\ DOMAIN pending' = {}
        /\ Remembered' = Remembered \cup {Game(n)}
        /\ \A i \in DOMAIN snapshots' :
              \/ i \in DOMAIN snapshots /\ snapshots'[i] = snapshots[i]
              \/ /\ snapshots'[i] = <<Game(n), disk[Game(n)]>> /\ Game(n) \notin Remembered
                 /\ i \notin DOMAIN snapshots /\ \A j \in DOMAIN snapshots : j < i
    <2>1. PICK w : w = pending[1]
      OBVIOUS
    <2>2. w[1] = Game(n) /\ w[2] = "wrapper"
      BY <2>1
    <2>3. /\ UNCHANGED <<had, manifest, job, unvisited, records, lost, edited>>
          /\ disk'[w[1]] = w[2] /\ \A q \in Paths : q # w[1] => disk'[q] = disk[q]
          /\ Len(pending') = Len(pending) - 1 /\ DOMAIN pending = 1..Len(pending)
          /\ DOMAIN pending' = 1..(Len(pending) - 1)
          /\ Remembered' = Remembered \cup {w[1]}
          /\ \A i \in DOMAIN snapshots' :
                 \/ i \in DOMAIN snapshots /\ snapshots'[i] = snapshots[i]
                 \/ /\ snapshots'[i] = <<w[1], disk[w[1]]>> /\ w[1] \notin Remembered
                    /\ i \notin DOMAIN snapshots /\ \A j \in DOMAIN snapshots : j < i
      BY <1>0, <2>1, WriteFacts
    <2> QED BY <2>2, <2>3
  <1>2. Left' = Left /\ manifest' = manifest /\ had' = had
    BY <1>1 DEF Left
  <1>3. \A m \in Names : /\ Backup(m) \in Paths /\ disk'[Backup(m)] = disk[Backup(m)]
                         /\ Preserved # Game(m) /\ (m # n => disk'[Game(m)] = disk[Game(m)])
                         /\ Game(m) \in Paths /\ disk'[Preserved] = disk[Preserved]
    BY <1>1, PathFacts
  <1>4. \A m \in had : m \in Names \ Left => disk[Backup(m)] = "original"
    <2>1. \A m \in Names : pending[1] # <<Backup(m), "original">>
      BY PathFacts
    <2> QED BY <1>0, <1>1, <2>1 DEF InstallInv
  <1>6. ManifestInv'
    BY <1>0, <1>1, <1>3 DEF ManifestInv, Recorded, ToolsShape
  <1>8. InstallInv'
    <2>1. \A m \in Left' : Game(m) \notin Remembered'
      BY <1>0, <1>1, <1>2, PathFacts DEF InstallInv, Left, ToolsShape, Names, NameOrder
    <2>2. \A m \in Names \ Left' : /\ records'[m] # NoRecord /\ (records'[m] = "kept" <=> m \in had')
                                   /\ m \in had' => disk'[Backup(m)] = "original"
      BY <1>0, <1>1, <1>2, <1>3, <1>4 DEF InstallInv
    <2> QED BY <1>1, <2>1, <2>2 DEF InstallInv
  <1>9. RollbackInv'
    <2>1. ASSUME manifest = NoManifest
          PROVE  /\ \A m \in Names : Game(m) \notin Remembered' => disk'[Game(m)] = Base(m)
                 /\ \A i \in DOMAIN snapshots', m \in Names : snapshots'[i][1] = Game(m) => snapshots'[i][2] = Base(m)
                 /\ \A i, j \in DOMAIN snapshots', m \in Names :
                       snapshots'[i][1] = Backup(m) /\ snapshots'[j][1] = Game(m) => i < j
                 /\ \A m \in had : Game(m) \in Remembered' => disk'[Backup(m)] = "original"
      <3>0. /\ \A m \in Names : Game(m) \notin Remembered => disk[Game(m)] = Base(m)
            /\ \A i \in DOMAIN snapshots, m \in Names : snapshots[i][1] = Game(m) => snapshots[i][2] = Base(m)
            /\ \A i, j \in DOMAIN snapshots, m \in Names :
                  snapshots[i][1] = Backup(m) /\ snapshots[j][1] = Game(m) => i < j
            /\ \A m \in had : Game(m) \in Remembered => disk[Backup(m)] = "original"
        BY <1>0, <2>1 DEF RollbackInv, Writing
      <3>1. \A m \in Names : Game(m) \notin Remembered' => disk'[Game(m)] = Base(m)
        BY <1>1, <1>3, <3>0
      <3>2. \A i \in DOMAIN snapshots', m \in Names : snapshots'[i][1] = Game(m) => snapshots'[i][2] = Base(m)
        <4>1. \A m \in Names : Game(n) = Game(m) => m = n
          BY PathFacts
        <4> QED BY <1>0, <1>1, <3>0, <4>1
      <3>3. \A i, j \in DOMAIN snapshots', m \in Names :
               snapshots'[i][1] = Backup(m) /\ snapshots'[j][1] = Game(m) => i < j
        <4>1. \A m \in Names : Game(n) # Backup(m)
          BY PathFacts
        <4>2. \A i \in DOMAIN snapshots', m \in Names : snapshots'[i][1] = Backup(m) =>
                 i \in DOMAIN snapshots /\ snapshots'[i] = snapshots[i]
          BY <1>1, <4>1
        <4> QED BY <1>1, <3>0, <4>2
      <3>4. \A m \in had : Game(m) \in Remembered' => disk'[Backup(m)] = "original"
        <4>1. \A m \in had : m \in Names /\ (Game(m) = Game(n) => m = n)
          BY <1>0, PathFacts DEF ToolsShape
        <4> QED BY <1>1, <1>3, <1>4, <3>0, <4>1
      <3> QED BY <3>1, <3>2, <3>3, <3>4
    <2>2. manifest # NoManifest => \A m \in Names : Backup(m) \notin Remembered'
      BY <1>0, <1>1, PathFacts DEF RollbackInv, Writing
    <2> QED BY <1>1, <2>1, <2>2 DEF RollbackInv, Base
  <1> QED BY <1>1, <1>6, <1>8, <1>9 DEF ToolsState, UninstallInv

(* The user's file is copied to its backup before anything replaces it. *)
LEMMA InstallsBackup ==
    ASSUME ToolsInv, WritePending, Trusted, job = "install", NEW n \in had,
           pending[1] = <<Backup(n), "original">>, manifest = NoManifest, 1 < Len(pending)
    PROVE  ToolsState'
  <1>0. ToolsShape /\ ManifestInv /\ InstallInv /\ RollbackInv /\ n \in Names /\ had \subseteq Names
    BY DEF ToolsInv, ToolsShape
  <1>1. /\ UNCHANGED <<had, manifest, job, unvisited, records, lost, edited>>
        /\ disk'[Backup(n)] = "original" /\ \A q \in Paths : q # Backup(n) => disk'[q] = disk[q]
        /\ Len(pending) \in Nat /\ Len(pending') = Len(pending) - 1 /\ 1 \in DOMAIN pending
        /\ \A i \in DOMAIN pending' : i \in Nat /\ i + 1 \in DOMAIN pending /\ pending'[i] = pending[i + 1]
        /\ \A i \in DOMAIN pending : i # 1 => i - 1 \in DOMAIN pending' /\ pending'[i - 1] = pending[i]
        /\ Remembered' = Remembered \cup {Backup(n)}
        /\ \A i \in DOMAIN snapshots' :
              \/ i \in DOMAIN snapshots /\ snapshots'[i] = snapshots[i]
              \/ /\ snapshots'[i] = <<Backup(n), disk[Backup(n)]>> /\ Backup(n) \notin Remembered
                 /\ i \notin DOMAIN snapshots /\ \A j \in DOMAIN snapshots : j < i
    BY <1>0, WriteOf
  <1>2. Left' = Left /\ manifest' = manifest /\ had' = had
    BY <1>1 DEF Left
  <1>3. /\ \A m \in Names : /\ Game(m) # Backup(n) /\ disk'[Game(m)] = disk[Game(m)]
                            /\ m # n => disk'[Backup(m)] = disk[Backup(m)]
                            /\ Backup(m) = Backup(n) => m = n
        /\ Preserved # Backup(n) /\ disk'[Preserved] = disk[Preserved] /\ "conf" \in Names
    BY <1>0, <1>1, PathFacts DEF Names
  <1>4. Game(n) \notin Remembered
    <2>1. pending[1][1] = Backup(n)
      OBVIOUS
    <2> QED BY <1>0, <1>1, <2>1 DEF InstallInv
  <1>5. ManifestInv'
    BY <1>0, <1>1, <1>3 DEF ManifestInv
  <1>7. InstallInv'
    <2>1. \A i \in DOMAIN pending' : \E m \in Names \ Left :
              \/ pending'[i] = <<Game(m), "wrapper">> /\ i = Len(pending')
              \/ pending'[i] = <<Backup(m), "original">> /\ m \in had /\ manifest = NoManifest /\ i < Len(pending')
      <3>1. \A i \in DOMAIN pending : \E m \in Names \ Left :
              \/ pending[i] = <<Game(m), "wrapper">> /\ i = Len(pending)
              \/ pending[i] = <<Backup(m), "original">> /\ m \in had /\ manifest = NoManifest /\ i < Len(pending)
        BY <1>0 DEF InstallInv
      <3>2. ASSUME NEW i \in DOMAIN pending'
            PROVE  \E m \in Names \ Left :
              \/ pending'[i] = <<Game(m), "wrapper">> /\ i = Len(pending')
              \/ pending'[i] = <<Backup(m), "original">> /\ m \in had /\ manifest = NoManifest /\ i < Len(pending')
        <4>1. i \in Nat /\ i + 1 \in DOMAIN pending /\ pending'[i] = pending[i + 1]
          BY <1>1, <3>2
        <4>2. (i + 1 = Len(pending) => i = Len(pending')) /\ (i + 1 < Len(pending) => i < Len(pending'))
          BY <1>1, <4>1
        <4> QED BY <3>1, <4>1, <4>2
      <3> QED BY <3>2
    <2>2. \A m \in Names \ Left : m \in had =>
              \/ disk'[Backup(m)] = "original"
              \/ \E i \in DOMAIN pending' : pending'[i] = <<Backup(m), "original">>
      <3>1. SUFFICES ASSUME NEW m \in Names \ Left, m \in had, m # n
                     PROVE  \/ disk'[Backup(m)] = "original"
                            \/ \E i \in DOMAIN pending' : pending'[i] = <<Backup(m), "original">>
        BY <1>1
      <3>2. CASE disk[Backup(m)] = "original"
        BY <1>3, <3>1, <3>2
      <3>3. CASE disk[Backup(m)] # "original"
        <4>1. PICK i \in DOMAIN pending : pending[i] = <<Backup(m), "original">>
          BY <1>0, <3>1, <3>3 DEF InstallInv
        <4>2. i # 1
          BY <1>3, <3>1, <4>1
        <4> QED BY <1>1, <4>1, <4>2
      <3> QED BY <3>2, <3>3
    <2>3. \A i \in DOMAIN pending' : pending'[i][1] = Game("conf") => disk'[Game("conf")] # "edited"
      BY <1>0, <1>1, <1>3 DEF InstallInv
    <2>4. \A i \in DOMAIN pending', m \in Names : pending'[i][1] = Backup(m) => Game(m) \notin Remembered'
      BY <1>0, <1>1, <1>3 DEF InstallInv
    <2>5. \A m \in Left : Game(m) \notin Remembered'
      <3>1. Left \subseteq Names
        BY <1>0, LeftFacts DEF ToolsShape, Names
      <3> QED BY <1>0, <1>1, <1>3, <3>1 DEF InstallInv
    <2>6. \A m \in Names \ Left : records'[m] # NoRecord /\ (records'[m] = "kept" <=> m \in had)
      BY <1>0, <1>1 DEF InstallInv
    <2>7. Len(pending') <= 2
      BY <1>0, <1>1 DEF InstallInv
    <2> QED BY <1>1, <1>2, <2>1, <2>2, <2>3, <2>4, <2>5, <2>6, <2>7 DEF InstallInv
  <1>8. RollbackInv'
    <2>0. /\ \A m \in Names : Game(m) \notin Remembered => disk[Game(m)] = Base(m)
          /\ \A i \in DOMAIN snapshots, m \in Names : snapshots[i][1] = Game(m) => snapshots[i][2] = Base(m)
          /\ \A i, j \in DOMAIN snapshots, m \in Names :
                snapshots[i][1] = Backup(m) /\ snapshots[j][1] = Game(m) => i < j
          /\ \A m \in had : Game(m) \in Remembered => disk[Backup(m)] = "original"
      BY <1>0 DEF RollbackInv, Writing
    <2>1. \A m \in Names : Game(m) \notin Remembered' => disk'[Game(m)] = Base(m)
      BY <1>1, <1>3, <2>0
    <2>2. \A i \in DOMAIN snapshots', m \in Names : snapshots'[i][1] = Game(m) =>
             i \in DOMAIN snapshots /\ snapshots'[i] = snapshots[i]
      BY <1>1, <1>3
    <2>3. \A i \in DOMAIN snapshots', m \in Names : snapshots'[i][1] = Game(m) => snapshots'[i][2] = Base(m)
      BY <2>0, <2>2
    <2>4. ASSUME NEW i \in DOMAIN snapshots', NEW j \in DOMAIN snapshots', NEW m \in Names,
                 snapshots'[i][1] = Backup(m), snapshots'[j][1] = Game(m)
          PROVE  i < j
      <3>1. j \in DOMAIN snapshots /\ snapshots[j][1] = Game(m)
        BY <2>2, <2>4
      <3>2. CASE i \in DOMAIN snapshots /\ snapshots'[i] = snapshots[i]
        BY <2>0, <2>4, <3>1, <3>2
      <3>3. CASE snapshots'[i] = <<Backup(n), disk[Backup(n)]>>
        <4>1. m = n
          BY <1>3, <2>4, <3>3
        <4> QED BY <1>4, <3>1, <4>1, RememberedBy
      <3> QED BY <1>1, <3>2, <3>3
    <2>5. \A m \in had : Game(m) \in Remembered' => disk'[Backup(m)] = "original"
      <3>1. \A m \in had : m \in Names /\ (Game(m) \in Remembered' => Game(m) \in Remembered)
        BY <1>0, <1>1, <1>3
      <3> QED BY <1>1, <1>3, <2>0, <3>1
    <2> QED BY <1>1, <2>1, <2>3, <2>4, <2>5 DEF RollbackInv, Base
  <1> QED BY <1>1, <1>5, <1>7, <1>8 DEF ToolsState, UninstallInv

(* A write of a removal whose file is not the one a later snapshot or preservation is of. *)
LEMMA RemovalGoesOn ==
    ASSUME ToolsShape, WritePending, job = "uninstall", UninstallInv, had \subseteq Names,
           NEW q, NEW c, pending[1] = <<q, c>>,
           q = Game("conf") /\ c # disk[q] => \A i \in DOMAIN pending : pending[i][1] # Preserved,
           q = Preserved => \A i \in DOMAIN pending : pending[i][1] = Preserved => 1 = i
    PROVE  \A i \in DOMAIN pending' : (Restores(i) \/ Remembers(i) \/ Preserves(i))'
  <1>1. /\ UNCHANGED <<had, job>>
        /\ disk'[q] = c /\ \A p \in Paths : p # q => disk'[p] = disk[p]
        /\ DOMAIN pending = 1..Len(pending) /\ Len(pending) \in Nat /\ 1 \in DOMAIN pending
        /\ \A i \in DOMAIN pending' : i \in Nat /\ i # 0 /\ i + 1 \in DOMAIN pending /\ pending'[i] = pending[i + 1]
        /\ pending[1][1] = q /\ pending[1][2] = c
    BY WriteOf
  <1>2. /\ \A m \in Names : Game(m) \in Paths /\ Game(m) # Preserved
        /\ Preserved \in Paths /\ "conf" \in Names
    BY PathFacts DEF Names
  <1>3. SUFFICES ASSUME NEW i \in DOMAIN pending' PROVE (Restores(i) \/ Remembers(i) \/ Preserves(i))'
    OBVIOUS
  <1>4. i \in Nat /\ i # 0 /\ i + 1 \in DOMAIN pending /\ pending'[i] = pending[i + 1]
    BY <1>1, <1>3
  <1>5. \A j \in DOMAIN pending' : j \in Nat /\ j + 1 \in DOMAIN pending /\ pending'[j] = pending[j + 1]
    BY <1>1
  <1>6. CASE Restores(i + 1)
    BY <1>1, <1>4, <1>6 DEF Restores, Base
  <1>7. CASE Remembers(i + 1)
    <2>1. PICK n \in Names : /\ pending[i + 1] = <<Game(n), disk[Game(n)]>>
                             /\ \A j \in DOMAIN pending : pending[j][1] = Game(n) => i + 1 <= j
      BY <1>7 DEF Remembers
    <2>2. q # Game(n)
      BY <1>1, <1>4, <2>1
    <2>3. disk'[Game(n)] = disk[Game(n)]
      BY <1>1, <1>2, <2>2
    <2>4. \A j \in DOMAIN pending' : pending'[j][1] = Game(n) => i <= j
      BY <1>4, <1>5, <2>1
    <2> QED BY <1>4, <2>1, <2>3, <2>4 DEF Remembers
  <1>8. CASE Preserves(i + 1)
    <2>1. /\ pending[i + 1] = <<Preserved, disk[Game("conf")]>> /\ disk[Preserved] # "edited"
          /\ \A j \in DOMAIN pending : pending[j][1] = Preserved => i + 1 = j
          /\ \A j \in DOMAIN pending : pending[j][1] = Game("conf") /\ j < i + 1 => pending[j][2] = disk[Game("conf")]
      BY <1>8 DEF Preserves
    <2>2. q # Preserved
      BY <1>4, <2>1
    <2>3. q = Game("conf") => c = disk[q]
      BY <1>4, <2>1
    <2>4. disk'[Preserved] = disk[Preserved] /\ disk'[Game("conf")] = disk[Game("conf")]
      BY <1>1, <1>2, <2>2, <2>3
    <2>5. \A j \in DOMAIN pending' : pending'[j][1] = Preserved => i = j
      BY <1>4, <1>5, <2>1
    <2>6. \A j \in DOMAIN pending' : pending'[j][1] = Game("conf") /\ j < i => pending'[j][2] = disk[Game("conf")]
      BY <1>4, <1>5, <2>1
    <2> QED BY <1>4, <2>1, <2>4, <2>5, <2>6 DEF Preserves
  <1> QED BY <1>4, <1>6, <1>7, <1>8 DEF UninstallInv

(* A write beside the backups leaves the backups and their snapshots as they are. *)
LEMMA BackupsStay ==
    ASSUME ToolsInv, WritePending, Trusted, job = "uninstall", NEW q, NEW c, pending[1] = <<q, c>>,
           \A m \in Names : Backup(m) # q
    PROVE  ManifestInv' /\ RollbackInv'
  <1>1. ManifestInv /\ RollbackInv /\ ToolsShape /\ manifest # NoManifest /\ had \subseteq Names
    BY DEF ToolsInv, ToolsShape, ManifestInv
  <1>2. /\ UNCHANGED <<had, manifest, job, lost>> /\ Remembered' = Remembered \cup {q}
        /\ \A p \in Paths : p # q => disk'[p] = disk[p]
    BY <1>1, WriteOf
  <1>3. \A m \in Names : disk'[Backup(m)] = disk[Backup(m)]
    BY <1>2, PathFacts
  <1>4. \A m \in Names : Backup(m) \notin Remembered'
    BY <1>1, <1>2 DEF RollbackInv, Writing
  <1>5. ManifestInv'
    BY <1>1, <1>2, <1>3 DEF ManifestInv, Recorded
  <1>6. RollbackInv'
    BY <1>1, <1>2, <1>4 DEF RollbackInv
  <1> QED BY <1>5, <1>6

(* A file is restored, or a wrapper removed, once its edited content is preserved. *)
LEMMA RestoresFile ==
    ASSUME ToolsInv, WritePending, Trusted, job = "uninstall", Restores(1)
    PROVE  ToolsState'
  <1>0. /\ ToolsShape /\ UninstallInv /\ had \subseteq Names
    BY DEF ToolsInv, ToolsShape
  <1>1. PICK n \in Names : pending[1] = <<Game(n), Base(n)>>
    BY DEF Restores
  <1>2. /\ UNCHANGED <<had, job>>
        /\ disk'[Game(n)] = Base(n) /\ \A q \in Paths : q # Game(n) => disk'[q] = disk[q]
        /\ 1 \in DOMAIN pending /\ pending[1][1] = Game(n) /\ pending[1][2] = Base(n)
        /\ DOMAIN pending = 1..Len(pending) /\ Len(pending) \in Nat
        /\ \A i \in DOMAIN pending : i # 1 => i - 1 \in DOMAIN pending' /\ pending'[i - 1] = pending[i]
    BY <1>0, <1>1, WriteOf
  <1>3. /\ \A m \in Names : /\ Backup(m) # Game(n) /\ Preserved # Game(m)
                            /\ m # n => disk'[Game(m)] = disk[Game(m)]
                            /\ Game(m) = Game(n) => m = n
        /\ Preserved # Game(n) /\ disk'[Preserved] = disk[Preserved] /\ "conf" \in Names
        /\ Base(n) \in {"none", "original"}
    BY <1>2, PathFacts DEF Names, Base
  <1>4. n = "conf" /\ Base(n) # disk[Game(n)] => \A i \in DOMAIN pending : pending[i][1] # Preserved
    <2>1. SUFFICES ASSUME n = "conf", Base(n) # disk[Game(n)], NEW i \in DOMAIN pending,
                          pending[i][1] = Preserved
                   PROVE  FALSE
      OBVIOUS
    <2>2. ~Restores(i) /\ ~Remembers(i)
      <3>1. \A m \in Names : pending[i][1] # Game(m)
        BY <1>3, <2>1
      <3>2. Restores(i) \/ Remembers(i) => \E m \in Names : pending[i][1] = Game(m)
        <4>1. ASSUME NEW m, NEW v, pending[i] = <<Game(m), v>> PROVE pending[i][1] = Game(m)
          BY <4>1
        <4> QED BY <4>1 DEF Restores, Remembers
      <3> QED BY <3>1, <3>2
    <2>3. Preserves(i)
      BY <1>0, <2>1, <2>2 DEF UninstallInv
    <2>4. i # 1 /\ i \in 1..Len(pending)
      BY <1>2, <1>3, <2>1
    <2> QED BY <1>2, <2>1, <2>3, <2>4 DEF Preserves
  <1>5. \A i \in DOMAIN pending' : (Restores(i) \/ Remembers(i) \/ Preserves(i))'
    <2> DEFINE q == Game(n)
               c == Base(n)
    <2>1. /\ pending[1] = <<q, c>> /\ q # Preserved
          /\ q = Game("conf") /\ c # disk[q] => \A i \in DOMAIN pending : pending[i][1] # Preserved
      BY <1>1, <1>3, <1>4
    <2> HIDE DEF q, c
    <2> QED BY <1>0, <2>1, RemovalGoesOn
  <1>6. \A m \in Names : disk'[Game(m)] = Base(m) \/ \E i \in DOMAIN pending' : pending'[i] = <<Game(m), Base(m)>>
    <2>1. SUFFICES ASSUME NEW m \in Names, m # n
                   PROVE  disk'[Game(m)] = Base(m) \/ \E i \in DOMAIN pending' : pending'[i] = <<Game(m), Base(m)>>
      BY <1>2
    <2>2. CASE disk[Game(m)] = Base(m)
      BY <1>3, <2>1, <2>2
    <2>3. CASE \E i \in DOMAIN pending : pending[i] = <<Game(m), Base(m)>>
      <3>1. PICK i \in DOMAIN pending : pending[i] = <<Game(m), Base(m)>>
        BY <2>3
      <3>2. i # 1
        BY <1>2, <1>3, <2>1, <3>1
      <3> QED BY <1>2, <3>1, <3>2
    <2> QED BY <1>0, <2>2, <2>3 DEF UninstallInv
  <1>7. disk'[Game("conf")] = "edited" /\ disk'[Preserved] # "edited" =>
              \E i \in DOMAIN pending' : pending'[i][1] = Preserved
    <2>1. SUFFICES ASSUME disk'[Game("conf")] = "edited", disk'[Preserved] # "edited"
                   PROVE  \E i \in DOMAIN pending' : pending'[i][1] = Preserved
      OBVIOUS
    <2>2. disk[Game("conf")] = "edited" /\ disk[Preserved] # "edited"
      BY <1>2, <1>3, <2>1
    <2>3. PICK i \in DOMAIN pending : pending[i][1] = Preserved
      BY <1>0, <2>2 DEF UninstallInv
    <2>4. i # 1
      BY <1>2, <1>3, <2>3
    <2> QED BY <1>2, <2>3, <2>4
  <1>8. ManifestInv' /\ RollbackInv'
    <2>1. PICK q, c : q = Game(n) /\ c = Base(n)
      OBVIOUS
    <2>2. pending[1] = <<q, c>> /\ \A m \in Names : Backup(m) # q
      BY <1>1, <1>3, <2>1
    <2> QED BY <2>2, BackupsStay
  <1>9. UninstallInv'
    <2>1. \A m : Base(m)' = Base(m)
      BY <1>2 DEF Base
    <2> QED BY <1>5, <1>6, <1>7, <2>1 DEF UninstallInv
  <1> QED BY <1>2, <1>8, <1>9 DEF ToolsState, InstallInv

(* The snapshot of a file is taken: what it holds is written again. *)
LEMMA RemembersFile ==
    ASSUME ToolsInv, WritePending, Trusted, job = "uninstall", Remembers(1)
    PROVE  ToolsState'
  <1>0. /\ ToolsShape /\ UninstallInv /\ had \subseteq Names
    BY DEF ToolsInv, ToolsShape
  <1>1. PICK n \in Names : pending[1] = <<Game(n), disk[Game(n)]>>
    BY DEF Remembers
  <1>2. /\ UNCHANGED <<had, job>>
        /\ disk'[Game(n)] = disk[Game(n)] /\ \A q \in Paths : q # Game(n) => disk'[q] = disk[q]
        /\ 1 \in DOMAIN pending /\ pending[1][1] = Game(n) /\ pending[1][2] = disk[Game(n)]
        /\ \A i \in DOMAIN pending : i # 1 => i - 1 \in DOMAIN pending' /\ pending'[i - 1] = pending[i]
    BY <1>0, <1>1, WriteOf
  <1>3. /\ \A m \in Names : /\ Backup(m) # Game(n) /\ disk'[Game(m)] = disk[Game(m)]
                            /\ Game(m) = Game(n) => m = n
        /\ Preserved # Game(n) /\ disk'[Preserved] = disk[Preserved] /\ "conf" \in Names
    BY <1>2, PathFacts DEF Names
  <1>4. \A i \in DOMAIN pending' : (Restores(i) \/ Remembers(i) \/ Preserves(i))'
    <2>1. PICK q, c : q = Game(n) /\ c = disk[Game(n)]
      OBVIOUS
    <2>2. pending[1] = <<q, c>> /\ c = disk[q] /\ q # Preserved
      BY <1>1, <1>3, <2>1
    <2> QED BY <1>0, <2>2, RemovalGoesOn
  <1>5. \A m \in Names : disk'[Game(m)] = Base(m) \/ \E i \in DOMAIN pending' : pending'[i] = <<Game(m), Base(m)>>
    <2>1. SUFFICES ASSUME NEW m \in Names, disk[Game(m)] # Base(m)
                   PROVE  \E i \in DOMAIN pending' : pending'[i] = <<Game(m), Base(m)>>
      BY <1>3
    <2>2. PICK i \in DOMAIN pending : pending[i] = <<Game(m), Base(m)>>
      BY <1>0, <2>1 DEF UninstallInv
    <2>3. i # 1
      BY <1>2, <1>3, <2>1, <2>2
    <2> QED BY <1>2, <2>2, <2>3
  <1>6. disk'[Game("conf")] = "edited" /\ disk'[Preserved] # "edited" =>
              \E i \in DOMAIN pending' : pending'[i][1] = Preserved
    <2>1. SUFFICES ASSUME disk[Game("conf")] = "edited", disk[Preserved] # "edited"
                   PROVE  \E i \in DOMAIN pending' : pending'[i][1] = Preserved
      BY <1>3
    <2>2. PICK i \in DOMAIN pending : pending[i][1] = Preserved
      BY <1>0, <2>1 DEF UninstallInv
    <2>3. i # 1
      BY <1>2, <1>3, <2>2
    <2> QED BY <1>2, <2>2, <2>3
  <1>7. ManifestInv' /\ RollbackInv'
    <2>1. PICK q, c : q = Game(n) /\ c = disk[Game(n)]
      OBVIOUS
    <2>2. pending[1] = <<q, c>> /\ \A m \in Names : Backup(m) # q
      BY <1>1, <1>3, <2>1
    <2> QED BY <2>2, BackupsStay
  <1>8. UninstallInv'
    <2>1. \A m : Base(m)' = Base(m)
      BY <1>2 DEF Base
    <2> QED BY <1>4, <1>5, <1>6, <2>1 DEF UninstallInv
  <1> QED BY <1>2, <1>7, <1>8 DEF ToolsState, InstallInv

(* The edited configuration is written beside the others before it is replaced. *)
LEMMA PreservesEdit ==
    ASSUME ToolsInv, WritePending, Trusted, job = "uninstall", Preserves(1)
    PROVE  ToolsState'
  <1>0. /\ ToolsShape /\ UninstallInv /\ had \subseteq Names
        /\ pending[1] = <<Preserved, disk[Game("conf")]>>
        /\ \A j \in DOMAIN pending : pending[j][1] = Preserved => 1 = j
    BY DEF ToolsInv, ToolsShape, Preserves
  <1>1. /\ UNCHANGED <<had, job>>
        /\ disk'[Preserved] = disk[Game("conf")] /\ \A q \in Paths : q # Preserved => disk'[q] = disk[q]
        /\ 1 \in DOMAIN pending /\ pending[1][1] = Preserved
        /\ \A i \in DOMAIN pending : i # 1 => i - 1 \in DOMAIN pending' /\ pending'[i - 1] = pending[i]
    BY <1>0, WriteOf
  <1>2. /\ \A m \in Names : disk'[Game(m)] = disk[Game(m)] /\ Game(m) # Preserved /\ Backup(m) # Preserved
        /\ "conf" \in Names
    BY <1>1, PathFacts DEF Names
  <1>3. PICK q, c : q = Preserved /\ c = disk[Game("conf")]
    OBVIOUS
  <1>4. /\ pending[1] = <<q, c>> /\ q # Game("conf") /\ \A m \in Names : Backup(m) # q
        /\ \A i \in DOMAIN pending : pending[i][1] = Preserved => 1 = i
    BY <1>0, <1>2, <1>3
  <1>5. \A i \in DOMAIN pending' : (Restores(i) \/ Remembers(i) \/ Preserves(i))'
    BY <1>0, <1>4, RemovalGoesOn
  <1>6. \A m \in Names : disk'[Game(m)] = Base(m) \/ \E i \in DOMAIN pending' : pending'[i] = <<Game(m), Base(m)>>
    <2>1. SUFFICES ASSUME NEW m \in Names, disk[Game(m)] # Base(m)
                   PROVE  \E i \in DOMAIN pending' : pending'[i] = <<Game(m), Base(m)>>
      BY <1>2
    <2>2. PICK i \in DOMAIN pending : pending[i] = <<Game(m), Base(m)>>
      BY <1>0, <2>1 DEF UninstallInv
    <2>3. i # 1
      BY <1>1, <1>2, <2>2
    <2> QED BY <1>1, <2>2, <2>3
  <1>7. disk'[Game("conf")] = "edited" => disk'[Preserved] = "edited"
    BY <1>1, <1>2
  <1>8. ManifestInv' /\ RollbackInv'
    BY <1>4, BackupsStay
  <1>9. UninstallInv'
    <2>1. \A m : Base(m)' = Base(m)
      BY <1>1 DEF Base
    <2> QED BY <1>5, <1>6, <1>7, <2>1 DEF UninstallInv
  <1> QED BY <1>1, <1>8, <1>9 DEF ToolsState, InstallInv

(* Every write of an installation or a removal. *)
LEMMA WritePendingKeeps ==
    ASSUME ToolsInv, WritePending PROVE ToolsShape' /\ (Trusted' => ToolsState')
  <1>1. PICK w : w = pending[1]
    OBVIOUS
  <1>2. /\ ToolsShape /\ ToolsShape' /\ job \in {"install", "uninstall"} /\ 1 \in DOMAIN pending /\ lost' = lost
    BY <1>1, WriteFacts DEF ToolsInv
  <1>3. ASSUME Trusted' PROVE ToolsState'
    <2>1. Trusted
      BY <1>2, <1>3 DEF Trusted
    <2>2. CASE job = "install"
      <3>1. PICK n \in Names \ Left :
              \/ pending[1] = <<Game(n), "wrapper">> /\ 1 = Len(pending)
              \/ pending[1] = <<Backup(n), "original">> /\ n \in had /\ manifest = NoManifest /\ 1 < Len(pending)
        BY <1>2, <2>1, <2>2 DEF ToolsInv, InstallInv
      <3> QED BY <2>1, <2>2, <3>1, InstallsWrapper, InstallsBackup
    <2>3. CASE job = "uninstall"
      <3>1. Restores(1) \/ Remembers(1) \/ Preserves(1)
        BY <1>2, <2>1, <2>3 DEF ToolsInv, UninstallInv
      <3> QED BY <2>1, <2>3, <3>1, RestoresFile, RemembersFile, PreservesEdit
    <2> QED BY <1>2, <2>2, <2>3
  <1> QED BY <1>2, <1>3

(* A list of a first element and two that may be missing. *)
Lists3(T, x, y, z, a, b, s) ==
    /\ s \in Seq(T) /\ Len(s) \in Nat /\ 1 <= Len(s) /\ DOMAIN s = 1..Len(s) /\ s[1] = x
    /\ \A k \in DOMAIN s : k = 1 \/ (s[k] = z /\ b # <<>>) \/ (k = 2 /\ s[k] = y /\ a # <<>>)
    /\ a # <<>> => \E k \in DOMAIN s : s[k] = y
    /\ b # <<>> => \E k \in DOMAIN s : s[k] = z
LEMMA ListOfThree ==
    ASSUME NEW T, NEW x \in T, NEW y \in T, NEW z \in T,
           NEW a \in {<<>>, <<y>>}, NEW b \in {<<>>, <<z>>}, NEW s, s = (<<x>> \o a) \o b
    PROVE  Lists3(T, x, y, z, a, b, s)
  <1>0. <<y>> # <<>> /\ <<z>> # <<>>
    OBVIOUS
  <1>1. CASE a = <<y>> /\ b = <<z>>
    <2>1. (<<x>> \o a) \o b = <<x>> \o (a \o b)
      BY <1>1
    <2>2. a \o b = <<y, z>>
      BY <1>1, Joins
    <2>3. <<x>> \o <<y, z>> = <<x, y, z>>
      BY Joins
    <2>4. s = <<x, y, z>>
      BY <2>1, <2>2, <2>3
    <2> QED BY <1>0, <1>1, <2>4 DEF Lists3
  <1>2. CASE a = <<y>> /\ b = <<>>
    <2>1. <<x>> \o a = <<x, y>>
      BY <1>2, Joins
    <2>2. <<x, y>> \in Seq(T) /\ <<x, y>> \o <<>> = <<x, y>>
      BY ConcatEmptySeq
    <2>3. s = <<x, y>>
      BY <1>2, <2>1, <2>2
    <2> QED BY <1>0, <1>2, <2>3 DEF Lists3
  <1>3. CASE a = <<>> /\ b = <<z>>
    <2>1. <<x>> \o a = <<x>>
      BY <1>3, Joins
    <2>2. s = <<x, z>>
      BY <1>3, <2>1, Joins
    <2> QED BY <1>0, <1>3, <2>2 DEF Lists3
  <1>4. CASE a = <<>> /\ b = <<>>
    <2>1. <<x>> \o a = <<x>>
      BY <1>4, Joins
    <2>2. s = <<x>>
      BY <1>4, <2>1, Joins
    <2> QED BY <1>0, <1>4, <2>2 DEF Lists3
  <1> QED BY <1>1, <1>2, <1>3, <1>4

(* A removal that is allowed restores what there was, and preserves an edit. *)
LEMMA BeginUninstallFilesKeeps ==
    ASSUME ToolsInv, BeginUninstallFiles PROVE ToolsShape' /\ (Trusted' => ToolsState')
  <1> DEFINE T == Paths \X FileContents
             D == UninstallWrites("dll")
             C == UninstallWrites("conf")
             Snapshot(n) == <<Game(n), disk[Game(n)]>>
             Copied(n) == <<Preserved, disk[Game(n)]>>
             Earlier(n) == IF manifest[n] = "kept" THEN disk[Backup(n)] ELSE "none"
             Restored(n) == <<Game(n), Earlier(n)>>
             Preserving(n) == disk[Game(n)] # "none" /\ ~Matches(n) /\ disk[Preserved] # "edited"
             Restoring(n) == Earlier(n) # disk[Game(n)]
  <1>0. /\ ToolsShape /\ job = "none" /\ job' = "uninstall" /\ unvisited' = <<>> /\ snapshots' = <<>>
        /\ manifest # NoManifest /\ ~Refuses("dll") /\ "dll" \in Names /\ "conf" \in Names
        /\ pending' = D \o C
        /\ UNCHANGED <<had, disk, manifest, records, lost, edited>>
    BY DEF BeginUninstallFiles, UninstallRefused, ToolsInv, Names
  <1>1. ASSUME NEW n \in Names
        PROVE  LET s == UninstallWrites(n) IN
               /\ s \in Seq(T) /\ Len(s) \in Nat /\ 1 <= Len(s) /\ DOMAIN s = 1..Len(s) /\ s[1] = Snapshot(n)
               /\ \A k \in DOMAIN s : k = 1 \/ (s[k] = Restored(n) /\ Restoring(n)) \/ (k = 2 /\ s[k] = Copied(n) /\ Preserving(n))
               /\ Preserving(n) => \E k \in DOMAIN s : s[k] = Copied(n)
               /\ Restoring(n) => \E k \in DOMAIN s : s[k] = Restored(n)
    <2> DEFINE a == IF Preserving(n) THEN <<Copied(n)>> ELSE <<>>
               b == IF Restoring(n) THEN <<Restored(n)>> ELSE <<>>
               s == UninstallWrites(n)
    <2>1. Snapshot(n) \in T /\ Copied(n) \in T /\ Restored(n) \in T
      <3>1. /\ Preserved \in Paths /\ Game(n) \in Paths /\ Backup(n) \in Paths
            /\ disk[Game(n)] \in FileContents /\ disk[Backup(n)] \in FileContents /\ "none" \in FileContents
        BY <1>0, PathFacts DEF ToolsShape, FileContents
      <3> QED BY <3>1
    <2>2. s = (<<Snapshot(n)>> \o a) \o b
      BY DEF UninstallWrites
    <2>3. /\ a \in {<<>>, <<Copied(n)>>} /\ b \in {<<>>, <<Restored(n)>>}
          /\ (a # <<>> <=> Preserving(n)) /\ (b # <<>> <=> Restoring(n))
      BY <2>1
    <2> HIDE DEF T, Snapshot, Copied, Restored, Preserving, Restoring, a, b, s
    <2>4. /\ s \in Seq(T) /\ Len(s) \in Nat /\ 1 <= Len(s) /\ DOMAIN s = 1..Len(s) /\ s[1] = Snapshot(n)
          /\ \A k \in DOMAIN s : k = 1 \/ (s[k] = Restored(n) /\ b # <<>>) \/ (k = 2 /\ s[k] = Copied(n) /\ a # <<>>)
          /\ a # <<>> => \E k \in DOMAIN s : s[k] = Copied(n)
          /\ b # <<>> => \E k \in DOMAIN s : s[k] = Restored(n)
      <3>1. PICK x, y, z : x = Snapshot(n) /\ y = Copied(n) /\ z = Restored(n)
        OBVIOUS
      <3>2. /\ x \in T /\ y \in T /\ z \in T /\ a \in {<<>>, <<y>>} /\ b \in {<<>>, <<z>>}
            /\ s = (<<x>> \o a) \o b
        BY <2>1, <2>2, <2>3, <3>1
      <3>3. Lists3(T, x, y, z, a, b, s)
        BY <3>2, ListOfThree
      <3> QED BY <3>1, <3>3 DEF Lists3
    <2> QED BY <2>3, <2>4 DEF s
  <1> HIDE DEF T, D, C, Snapshot, Copied, Earlier, Restored, Preserving, Restoring
  <1>2. /\ D \in Seq(T) /\ Len(D) \in Nat /\ 1 <= Len(D) /\ DOMAIN D = 1..Len(D) /\ D[1] = Snapshot("dll")
        /\ \A k \in DOMAIN D : k = 1 \/ (D[k] = Restored("dll") /\ Restoring("dll")) \/ (D[k] = Copied("dll") /\ Preserving("dll"))
        /\ Restoring("dll") => \E k \in DOMAIN D : D[k] = Restored("dll")
        /\ C \in Seq(T) /\ Len(C) \in Nat /\ 1 <= Len(C) /\ DOMAIN C = 1..Len(C) /\ C[1] = Snapshot("conf")
        /\ \A k \in DOMAIN C : \/ k = 1 \/ (C[k] = Restored("conf") /\ Restoring("conf"))
                               \/ (k = 2 /\ C[k] = Copied("conf") /\ Preserving("conf"))
        /\ Preserving("conf") => \E k \in DOMAIN C : C[k] = Copied("conf")
        /\ Restoring("conf") => \E k \in DOMAIN C : C[k] = Restored("conf")
    BY <1>0, <1>1 DEF D, C
  <1>3. /\ pending' \in Seq(T) /\ DOMAIN pending' = 1..(Len(D) + Len(C))
        /\ \A k \in DOMAIN D : k \in DOMAIN pending' /\ pending'[k] = D[k]
        /\ \A k \in DOMAIN C : Len(D) + k \in DOMAIN pending' /\ pending'[Len(D) + k] = C[k]
        /\ \A i \in DOMAIN pending' : i \in DOMAIN D \/ (i - Len(D) \in DOMAIN C /\ pending'[i] = C[i - Len(D)])
    <2>1. /\ pending' \in Seq(T) /\ Len(pending') = Len(D) + Len(C)
          /\ \A i \in 1..(Len(D) + Len(C)) : pending'[i] = IF i <= Len(D) THEN D[i] ELSE C[i - Len(D)]
      BY <1>0, <1>2, ConcatProperties
    <2>2. DOMAIN pending' = 1..(Len(D) + Len(C))
      BY <1>2, <2>1
    <2>3. \A k \in DOMAIN D : k \in DOMAIN pending' /\ k <= Len(D)
      BY <1>2, <2>2
    <2>4. \A k \in DOMAIN C : Len(D) + k \in DOMAIN pending' /\ ~(Len(D) + k <= Len(D)) /\ (Len(D) + k) - Len(D) = k
      BY <1>2, <2>2
    <2>5. \A i \in DOMAIN pending' : i \in DOMAIN D \/ (i - Len(D) \in DOMAIN C /\ ~(i <= Len(D)))
      BY <1>2, <2>2
    <2> QED BY <2>1, <2>2, <2>3, <2>4, <2>5
  <1>4. ToolsShape'
    BY <1>0, <1>3 DEF ToolsShape, T
  <1>5. ASSUME Trusted' PROVE ToolsState'
    <2>1. /\ Recorded(manifest) /\ \A n \in had : disk[Backup(n)] = "original"
          /\ ManifestInv
      BY <1>0, <1>5 DEF ToolsInv, ManifestInv, Trusted
    <2>2. \A n \in Names : /\ Restored(n) = <<Game(n), Base(n)>> /\ Restored(n)[1] = Game(n)
                           /\ Restoring(n) <=> disk[Game(n)] # Base(n)
      <3>1. \A n \in Names : Earlier(n) = Base(n)
        BY <2>1 DEF Earlier, Recorded, Base
      <3> QED BY <3>1 DEF Restored, Restoring
    <2>3. /\ ~Preserving("dll")
          /\ Preserving("conf") => disk[Preserved] # "edited"
          /\ disk[Game("conf")] = "edited" /\ disk[Preserved] # "edited" => Preserving("conf")
      BY <1>0, <2>1 DEF Refuses, Recorded, Preserving, Matches
    <2>4. /\ \A n \in Names : Snapshot(n) = <<Game(n), disk[Game(n)]>> /\ Snapshot(n)[1] = Game(n) /\ Snapshot(n)[2] = disk[Game(n)]
          /\ Copied("conf") = <<Preserved, disk[Game("conf")]>> /\ Copied("conf")[1] = Preserved
          /\ Game("conf") # Game("dll") /\ Game("conf") # Preserved /\ Game("dll") # Preserved
      BY <1>0, PathFacts DEF Snapshot, Copied
    <2>5. \A i \in DOMAIN D : pending'[i][1] = Game("dll") /\ i \in Nat /\ 1 <= i /\ i <= Len(D)
      BY <1>0, <1>2, <1>3, <2>2, <2>3, <2>4
    <2>6. \A i \in DOMAIN pending' : i \in Nat /\ 1 <= i
      BY <1>3
    <2>7. \A n : Base(n)' = Base(n)
      BY <1>0 DEF Base
    <2>8. ASSUME NEW i \in DOMAIN pending' PROVE (Restores(i) \/ Remembers(i) \/ Preserves(i))'
      <3>1. CASE i \in DOMAIN D
        <4>1. CASE D[i] = Restored("dll")
          BY <1>0, <1>3, <2>2, <2>7, <3>1, <4>1 DEF Restores
        <4>2. CASE D[i] # Restored("dll")
          <5>1. i = 1 /\ pending'[1] = <<Game("dll"), disk[Game("dll")]>>
            BY <1>0, <1>2, <1>3, <2>3, <2>4, <3>1, <4>2
          <5> QED BY <1>0, <2>6, <5>1 DEF Remembers
        <4> QED BY <4>1, <4>2
      <3>2. CASE i \notin DOMAIN D
        <4> DEFINE k == i - Len(D)
        <4>0. i = Len(D) + k /\ k \in DOMAIN C /\ k \in Nat /\ pending'[i] = C[k]
          BY <1>2, <1>3, <2>6, <3>2
        <4>1. CASE C[k] = Restored("conf")
          BY <1>0, <4>0, <2>2, <2>7, <4>1 DEF Restores
        <4>2. CASE k = 1
          <5>1. pending'[i] = <<Game("conf"), disk[Game("conf")]>> /\ i = Len(D) + 1
            BY <1>0, <1>2, <2>4, <4>0, <4>2
          <5>2. \A j \in DOMAIN pending' : pending'[j][1] = Game("conf") => i <= j
            BY <1>2, <2>4, <2>5, <2>6, <5>1
          <5> QED BY <1>0, <5>1, <5>2 DEF Remembers
        <4>3. CASE k = 2 /\ C[k] = Copied("conf") /\ Preserving("conf")
          <5>1. /\ pending'[i] = <<Preserved, disk[Game("conf")]>> /\ disk[Preserved] # "edited"
                /\ i = Len(D) + 2
            BY <2>3, <2>4, <4>0, <4>3
          <5>2. ASSUME NEW j \in DOMAIN pending', pending'[j][1] = Preserved PROVE i = j
            <6>1. j \notin DOMAIN D
              BY <2>4, <2>5, <5>2
            <6>2. j - Len(D) \in DOMAIN C /\ pending'[j] = C[j - Len(D)]
              BY <1>3, <5>2, <6>1
            <6>3. C[j - Len(D)] # Restored("conf") /\ j - Len(D) # 1
              BY <1>0, <1>2, <2>2, <2>4, <5>2, <6>2
            <6>4. j - Len(D) = 2
              BY <1>2, <6>2, <6>3
            <6> QED BY <1>2, <2>6, <5>1, <6>4
          <5>3. ASSUME NEW j \in DOMAIN pending', pending'[j][1] = Game("conf"), j < i
                PROVE  pending'[j][2] = disk[Game("conf")]
            <6>1. j \notin DOMAIN D
              BY <2>4, <2>5, <5>3
            <6>2. j - Len(D) \in DOMAIN C /\ pending'[j] = C[j - Len(D)]
              BY <1>3, <5>3, <6>1
            <6>3. j - Len(D) = 1
              BY <1>2, <2>6, <5>1, <5>3, <6>2
            <6> QED BY <1>0, <1>2, <2>4, <6>2, <6>3
          <5> QED BY <1>0, <5>1, <5>2, <5>3 DEF Preserves
        <4> HIDE DEF k
        <4> QED BY <1>2, <4>0, <4>1, <4>2, <4>3
      <3> QED BY <3>1, <3>2
    <2>9. \A n \in Names : disk[Game(n)] = Base(n) \/ \E i \in DOMAIN pending' : pending'[i] = <<Game(n), Base(n)>>
      <3>1. \A n \in Names : Restoring(n) => \E i \in DOMAIN pending' : pending'[i] = Restored(n)
        BY <1>2, <1>3 DEF Names
      <3> QED BY <2>2, <3>1
    <2>10. disk[Game("conf")] = "edited" /\ disk[Preserved] # "edited" =>
              \E i \in DOMAIN pending' : pending'[i][1] = Preserved
      BY <1>2, <1>3, <2>3, <2>4
    <2>11. UninstallInv'
      BY <1>0, <2>7, <2>8, <2>9, <2>10 DEF UninstallInv
    <2>12. ManifestInv'
      BY <1>0, <2>1 DEF ManifestInv, Recorded
    <2>13. RollbackInv'
      <3>1. Remembered' = {}
        BY <1>0 DEF Remembered
      <3> QED BY <1>0, <3>1 DEF RollbackInv
    <2> QED BY <1>0, <2>11, <2>12, <2>13 DEF ToolsState, InstallInv
  <1> QED BY <1>4, <1>5

(* The newest snapshot is put back: what is left still leads back. *)
LEMMA PutsBack ==
    ASSUME ToolsInv, Rollback, Trusted, snapshots # <<>>, snapshots' = Front(snapshots),
           NEW e, e = Last(snapshots), disk' = [disk EXCEPT ![e[1]] = e[2]],
           UNCHANGED <<job, lost>>
    PROVE  ToolsShape' /\ ToolsState'
  <1>0. /\ ToolsShape /\ ManifestInv /\ RollbackInv /\ job = "rollback"
        /\ UNCHANGED <<had, manifest, unvisited, pending, records, edited>> /\ had \subseteq Names
    BY DEF ToolsInv, Rollback, ToolsShape
  <1>1. /\ Len(snapshots) \in Nat /\ Len(snapshots) \in DOMAIN snapshots
        /\ DOMAIN snapshots = 1..Len(snapshots) /\ snapshots[Len(snapshots)] = e
        /\ e \in Paths \X FileContents /\ snapshots' \in Seq(Paths \X FileContents)
        /\ \A i \in DOMAIN snapshots' : i \in DOMAIN snapshots /\ snapshots'[i] = snapshots[i] /\ i < Len(snapshots)
        /\ \A i \in DOMAIN snapshots : i # Len(snapshots) => i \in DOMAIN snapshots'
    BY <1>0, FrontOfList DEF ToolsShape
  <1> DEFINE L == Len(snapshots)
  <1> HIDE DEF L
  <1>2. /\ L \in DOMAIN snapshots /\ snapshots[L] = e /\ e[1] \in Paths /\ e[2] \in FileContents
        /\ \A i \in DOMAIN snapshots' : i \in DOMAIN snapshots /\ snapshots'[i] = snapshots[i] /\ i < L /\ ~(L < i)
        /\ \A i \in DOMAIN snapshots : ~(L < i)
        /\ \A i \in DOMAIN snapshots : i # L => i \in DOMAIN snapshots' /\ snapshots'[i] = snapshots[i]
    BY <1>1 DEF L
  <1>3. /\ disk'[e[1]] = e[2] /\ \A q \in Paths : q # e[1] => disk'[q] = disk[q]
        /\ disk' \in [Paths -> FileContents]
    BY <1>0, <1>2, DiskWritten
  <1>4. ToolsShape'
    BY <1>0, <1>1, <1>3 DEF ToolsShape
  <1>5. /\ Remembered' \subseteq Remembered /\ e[1] \in Remembered
        /\ \A q : q \in Remembered => q = e[1] \/ q \in Remembered'
    BY <1>2 DEF Remembered
  <1>6. /\ \A n \in Names : Game(n) \in Paths /\ Backup(n) \in Paths /\ Preserved # Game(n) /\ Preserved # Backup(n)
        /\ \A m, n \in Names : Game(m) # Backup(n)
        /\ Preserved \in Paths /\ "conf" \in Names
    BY PathFacts DEF Names
  <1>7. ManifestInv'
    <2>1. manifest # NoManifest => \A n \in Names : disk'[Backup(n)] = disk[Backup(n)]
      BY <1>0, <1>3, <1>5, <1>6 DEF RollbackInv, Writing
    <2> QED BY <1>0, <2>1 DEF ManifestInv, Recorded
  <1>9. ASSUME manifest = NoManifest
        PROVE  /\ \A n \in Names : Game(n) \notin Remembered' => disk'[Game(n)] = Base(n)
               /\ \A i \in DOMAIN snapshots', n \in Names : snapshots'[i][1] = Game(n) => snapshots'[i][2] = Base(n)
               /\ \A i, j \in DOMAIN snapshots', n \in Names :
                     snapshots'[i][1] = Backup(n) /\ snapshots'[j][1] = Game(n) => i < j
               /\ \A n \in had : Game(n) \in Remembered' => disk'[Backup(n)] = "original"
    <2>0. /\ \A n \in Names : Game(n) \notin Remembered => disk[Game(n)] = Base(n)
          /\ \A i \in DOMAIN snapshots, n \in Names : snapshots[i][1] = Game(n) => snapshots[i][2] = Base(n)
          /\ \A i, j \in DOMAIN snapshots, n \in Names :
                snapshots[i][1] = Backup(n) /\ snapshots[j][1] = Game(n) => i < j
          /\ \A n \in had : Game(n) \in Remembered => disk[Backup(n)] = "original"
      BY <1>0, <1>9 DEF RollbackInv, Writing
    <2>1. ASSUME NEW n \in Names, Game(n) \notin Remembered' PROVE disk'[Game(n)] = Base(n)
      <3>1. CASE e[1] = Game(n)
        BY <1>2, <1>3, <2>0, <3>1
      <3>2. CASE e[1] # Game(n)
        BY <1>3, <1>5, <1>6, <2>0, <2>1, <3>2
      <3> QED BY <3>1, <3>2
    <2>2. ASSUME NEW n \in had, Game(n) \in Remembered' PROVE disk'[Backup(n)] = "original"
      <3>1. n \in Names /\ disk[Backup(n)] = "original"
        BY <1>0, <1>5, <2>0, <2>2
      <3>2. PICK j \in DOMAIN snapshots' : snapshots'[j][1] = Game(n)
        BY <2>2 DEF Remembered
      <3>3. e[1] # Backup(n)
        BY <1>2, <2>0, <3>1, <3>2
      <3> QED BY <1>3, <1>6, <3>1, <3>3
    <2> QED BY <1>2, <2>0, <2>1, <2>2
  <1>10. manifest # NoManifest => \A n \in Names : Backup(n) \notin Remembered'
    BY <1>0, <1>5 DEF RollbackInv, Writing
  <1>11. RollbackInv'
    BY <1>0, <1>9, <1>10 DEF RollbackInv, Base
  <1> QED BY <1>0, <1>4, <1>7, <1>11 DEF ToolsState, InstallInv, UninstallInv

(* A rollback ends when no snapshot is left; one that fails says so. *)
LEMMA RollbackKeeps ==
    ASSUME ToolsInv, Rollback PROVE ToolsShape' /\ (Trusted' => ToolsState')
  <1>0. /\ ToolsShape /\ job = "rollback" /\ UNCHANGED <<had, manifest, unvisited, pending, records, edited>>
    BY DEF Rollback, ToolsInv
  <1>1. CASE snapshots = <<>> /\ job' = "none" /\ UNCHANGED <<disk, snapshots, lost>>
    <2>1. ToolsShape'
      BY <1>0, <1>1 DEF ToolsShape
    <2>2. ASSUME Trusted' PROVE ToolsState'
      <3>1. Trusted /\ Remembered = {}
        BY <1>1, <2>2 DEF Trusted, Remembered
      <3>2. ManifestInv /\ RollbackInv /\ had \subseteq Names
        BY <1>0, <3>1 DEF ToolsInv, ToolsShape
      <3>3. manifest = NoManifest => \A n \in Names : disk[Game(n)] = Base(n)
        BY <1>0, <3>1, <3>2 DEF RollbackInv, Writing
      <3>4. ManifestInv'
        BY <1>0, <1>1, <3>2, <3>3 DEF ManifestInv, Recorded, Base
      <3> QED BY <1>1, <3>4 DEF ToolsState, InstallInv, UninstallInv, RollbackInv, Writing
    <2> QED BY <2>1, <2>2
  <1>2. CASE /\ snapshots # <<>> /\ snapshots' = Front(snapshots) /\ UNCHANGED <<job, lost>>
             /\ disk' = [disk EXCEPT ![Last(snapshots)[1]] = Last(snapshots)[2]]
    <2>1. Trusted' => Trusted
      BY <1>2 DEF Trusted
    <2>2. Trusted => ToolsShape' /\ ToolsState'
      <3>1. PICK e : e = Last(snapshots)
        OBVIOUS
      <3> QED BY <1>2, <3>1, PutsBack
    <2>3. ToolsShape'
      <3>1. snapshots' \in Seq(Paths \X FileContents) /\ Last(snapshots) \in Paths \X FileContents
        BY <1>0, <1>2, FrontOfList DEF ToolsShape
      <3>2. disk' \in [Paths -> FileContents]
        BY <1>0, <1>2, <3>1 DEF ToolsShape
      <3> QED BY <1>0, <1>2, <3>1, <3>2 DEF ToolsShape
    <2> QED BY <2>1, <2>2, <2>3
  <1>3. CASE snapshots # <<>> /\ snapshots' = Front(snapshots) /\ UNCHANGED <<job, disk>> /\ lost' = "rollback"
    <2>1. snapshots' \in Seq(Paths \X FileContents)
      BY <1>0, <1>3, FrontOfList DEF ToolsShape
    <2> QED BY <1>0, <1>3, <2>1 DEF ToolsShape, Trusted
  <1> QED BY <1>1, <1>2, <1>3 DEF Rollback

(* A kill leaves a directory from which everything is found. *)
LEMMA LauncherKilledKeeps ==
    ASSUME ToolsInv, LauncherKilled PROVE ToolsShape' /\ (Trusted' => ToolsState')
  <1>0. /\ ToolsShape /\ job # "none" /\ job' = "none"
        /\ lost' = lost \/ (lost' \in {"killed", "cut"} /\ lost \in {"no", "killed"})
        /\ lost' # "no"
        /\ UNCHANGED <<had, disk, manifest, unvisited, pending, records, snapshots, edited>>
    BY DEF LauncherKilled, ToolsInv
  <1>1. ToolsShape'
    BY <1>0 DEF ToolsShape
  <1>2. ASSUME Trusted' PROVE ToolsState'
    <2>1. Trusted /\ lost' # "no"
      BY <1>0, <1>2 DEF Trusted
    <2>2. ManifestInv /\ RollbackInv /\ had \subseteq Names
      BY <1>0, <2>1 DEF ToolsInv, ToolsShape
    <2>3. manifest = NoManifest => \A n \in had : "original" \in {disk[Game(n)], disk[Backup(n)]}
      <3>1. CASE job = "discard"
        BY <2>2, <3>1 DEF ManifestInv, Base
      <3>2. CASE Writing
        BY <2>2, <3>2 DEF RollbackInv, Base
      <3> QED BY <1>0, <3>1, <3>2 DEF ToolsShape, Writing
    <2>4. ManifestInv'
      BY <1>0, <2>1, <2>2, <2>3 DEF ManifestInv, Recorded
    <2> QED BY <1>0, <2>4 DEF ToolsState, InstallInv, UninstallInv, RollbackInv, Writing
  <1> QED BY <1>1, <1>2

(* A server tool touches none of the files. *)
LEMMA ToolStepKeeps ==
    ASSUME ToolsInv, UNCHANGED <<disk, jobVars, lost, edited>>
    PROVE  ToolsShape' /\ (Trusted' => ToolsState')
  <1>0. UNCHANGED <<had, disk, manifest, job, unvisited, pending, records, snapshots, lost, edited>>
    BY DEF jobVars
  <1>1. ToolsShape'
    BY <1>0 DEF ToolsInv, ToolsShape
  <1>2. Left' = Left /\ Remembered' = Remembered /\ \A n : Base(n)' = Base(n)
    BY <1>0 DEF Left, Remembered, Base
  <1>3. ASSUME Trusted' PROVE ToolsState'
    <2>1. ManifestInv /\ InstallInv /\ UninstallInv /\ RollbackInv
      BY <1>0, <1>3 DEF ToolsInv, Trusted
    <2>2. ManifestInv'
      BY <1>0, <2>1 DEF ManifestInv, Recorded, Base
    <2>3. InstallInv'
      BY <1>0, <1>2, <2>1 DEF InstallInv
    <2>4. UninstallInv'
      BY <1>0, <1>2, <2>1 DEF UninstallInv, Restores, Remembers, Preserves
    <2>5. RollbackInv'
      BY <1>0, <1>2, <2>1 DEF RollbackInv, Writing
    <2> QED BY <2>2, <2>3, <2>4, <2>5 DEF ToolsState
  <1> QED BY <1>1, <1>3

-----------------------------------------------------------------------------
(* A write leaves the edit in place or preserved, and remembered if it replaces it. *)
LEMMA WriteKeepsEdit ==
    ASSUME ToolsInv, WritePending, EditTrusted' PROVE EditInv'
  <1>1. PICK q, c : pending[1] = <<q, c>>
    <2>1. pending # <<>> /\ pending \in Seq(Paths \X FileContents)
      BY DEF WritePending, ToolsInv, ToolsShape
    <2>2. pending[1] \in Paths \X FileContents
      BY <2>1, RestOfList
    <2> QED BY <2>2
  <1>2. /\ UNCHANGED <<job, lost, edited>>
        /\ disk'[q] = c /\ \A p \in Paths : p # q => disk'[p] = disk[p]
        /\ 1 \in DOMAIN pending /\ pending[1][1] = q /\ pending[1][2] = c
        /\ DOMAIN pending = 1..Len(pending) /\ Len(pending) \in Nat
        /\ Remembered' = Remembered \cup {q}
        /\ \A i \in DOMAIN snapshots' :
              \/ i \in DOMAIN snapshots /\ snapshots'[i] = snapshots[i]
              \/ snapshots'[i] = <<q, disk[q]>> /\ q \notin Remembered
    <2>1. ToolsShape
      BY DEF ToolsInv
    <2>2. /\ UNCHANGED <<job, lost, edited>> /\ DOMAIN pending = 1..Len(pending) /\ Len(pending) \in Nat
          /\ disk'[q] = c /\ \A p \in Paths : p # q => disk'[p] = disk[p]
          /\ 1 \in DOMAIN pending /\ Remembered' = Remembered \cup {q}
          /\ \A i \in DOMAIN snapshots' :
                \/ i \in DOMAIN snapshots /\ snapshots'[i] = snapshots[i]
                \/ /\ snapshots'[i] = <<q, disk[q]>> /\ q \notin Remembered
                   /\ i \notin DOMAIN snapshots /\ \A j \in DOMAIN snapshots : j < i
      BY <1>1, <2>1, WriteOf
    <2>3. pending[1][1] = q /\ pending[1][2] = c
      BY <1>1
    <2> QED BY <2>2, <2>3
  <1>3. /\ Game("conf") \in Paths /\ Preserved \in Paths /\ Game("conf") # Preserved /\ "conf" \in Names
        /\ \A n \in Names : /\ Game(n) # Preserved /\ Backup(n) # Preserved /\ Backup(n) # Game("conf")
                            /\ Game(n) = Game("conf") => n = "conf"
    BY PathFacts DEF Names
  <1> SUFFICES ASSUME edited' PROVE EditInv'
    BY DEF EditInv
  <1>4. /\ InstallInv /\ UninstallInv /\ EditInv /\ edited /\ job \in {"install", "uninstall"}
    BY <1>2 DEF ToolsInv, Trusted, EditTrusted, WritePending
  <1>5. /\ "edited" \in {disk[Game("conf")], disk[Preserved]}
        /\ EditInPlace \/ EditRemembered \/ EditPreserved
    BY <1>4 DEF EditInv, Writing
  <1>6. /\ q = Game("conf") /\ disk[Game("conf")] = "edited" => c = "edited" \/ disk[Preserved] = "edited"
        /\ q = Preserved => disk[Preserved] # "edited" /\ disk[Game("conf")] = "edited"
    <2>1. CASE job = "install"
      <3>1. \E n \in Names : q \in {Game(n), Backup(n)}
        BY <1>2, <1>4, <2>1 DEF InstallInv
      <3>2. q = Game("conf") => disk[Game("conf")] # "edited"
        BY <1>2, <1>4, <2>1 DEF InstallInv
      <3> QED BY <1>3, <3>1, <3>2
    <2>2. CASE job = "uninstall" /\ Restores(1)
      <3>1. PICK n \in Names : q = Game(n) /\ c = Base(n)
        BY <1>2, <2>2 DEF Restores
      <3>2. q # Preserved
        BY <1>3, <3>1
      <3>3. ASSUME q = Game("conf"), disk[Game("conf")] = "edited", disk[Preserved] # "edited" PROVE FALSE
        <4>1. PICK i \in DOMAIN pending : pending[i][1] = Preserved
          BY <1>4, <2>2, <3>3 DEF UninstallInv
        <4>2. ~Restores(i) /\ ~Remembers(i)
          <5>1. \A n1 \in Names : pending[i][1] # Game(n1)
            BY <1>3, <4>1
          <5>2. Restores(i) \/ Remembers(i) => \E n1 \in Names : pending[i][1] = Game(n1)
            <6>1. ASSUME NEW n1, NEW v, pending[i] = <<Game(n1), v>> PROVE pending[i][1] = Game(n1)
              BY <6>1
            <6> QED BY <6>1 DEF Restores, Remembers
          <5> QED BY <5>1, <5>2
        <4>3. Preserves(i)
          BY <1>4, <2>2, <4>2 DEF UninstallInv
        <4>4. i # 1 /\ i \in 1..Len(pending)
          BY <1>2, <3>2, <4>1
        <4>5. c = "edited"
          BY <1>2, <3>3, <4>3, <4>4 DEF Preserves
        <4> QED BY <3>1, <4>5 DEF Base
      <3> QED BY <3>2, <3>3
    <2>3. CASE job = "uninstall" /\ Remembers(1)
      <3>1. PICK n \in Names : q = Game(n) /\ c = disk[Game(n)]
        BY <1>2, <2>3 DEF Remembers
      <3> QED BY <1>3, <3>1
    <2>4. CASE job = "uninstall" /\ Preserves(1)
      <3>1. q = Preserved /\ disk[Preserved] # "edited"
        BY <1>2, <2>4 DEF Preserves
      <3> QED BY <1>3, <1>5, <3>1
    <2> QED BY <1>2, <1>4, <2>1, <2>2, <2>3, <2>4 DEF UninstallInv
  <1>7. "edited" \in {disk'[Game("conf")], disk'[Preserved]}
    BY <1>2, <1>3, <1>5, <1>6
  <1>8. CASE EditInPlace
    <2>1. CASE q = Game("conf")
      <3>1. \A i \in DOMAIN snapshots : snapshots[i][1] # Game("conf")
        BY <1>8, RememberedBy DEF EditInPlace
      <3>2. EditRemembered'
        BY <1>2, <1>8, <2>1, <3>1 DEF EditInPlace, EditRemembered
      <3> QED BY <1>7, <3>2 DEF EditInv
    <2>2. CASE q # Game("conf")
      BY <1>2, <1>3, <1>7, <1>8, <2>2 DEF EditInPlace, EditInv
    <2> QED BY <2>1, <2>2
  <1>9. CASE EditRemembered
    <2>1. EditRemembered'
      BY <1>2, <1>9 DEF EditRemembered
    <2> QED BY <1>7, <2>1 DEF EditInv
  <1>10. CASE EditPreserved
    BY <1>2, <1>3, <1>6, <1>7, <1>10 DEF EditPreserved, EditInv
  <1> QED BY <1>5, <1>8, <1>9, <1>10

(* A rollback brings the edit back, or leaves it. *)
LEMMA RollbackKeepsEdit ==
    ASSUME ToolsInv, Rollback, EditTrusted', edited' PROVE EditInv'
  <1>1. /\ ToolsShape /\ job = "rollback" /\ edited /\ lost' # "rollback"
        /\ Game("conf") \in Paths /\ Preserved \in Paths /\ Game("conf") # Preserved
    BY PathFacts DEF ToolsInv, Rollback, EditTrusted, Names
  <1>2. CASE snapshots = <<>> /\ job' = "none" /\ UNCHANGED <<disk, snapshots, lost>>
    <2>1. EditInv /\ Remembered = {}
      BY <1>2 DEF ToolsInv, EditTrusted, Remembered
    <2>2. EditInPlace \/ EditPreserved
      BY <1>1, <2>1 DEF EditInv, Writing, EditRemembered
    <2> QED BY <1>2, <2>2 DEF EditInv, Writing, EditInPlace, EditPreserved
  <1>3. CASE /\ snapshots # <<>> /\ snapshots' = Front(snapshots) /\ UNCHANGED <<job, lost>>
             /\ disk' = [disk EXCEPT ![Last(snapshots)[1]] = Last(snapshots)[2]]
    <2>1. PICK e : e = Last(snapshots)
      OBVIOUS
    <2>2. EditInPlace \/ EditRemembered \/ EditPreserved
      BY <1>1, <1>3 DEF ToolsInv, EditTrusted, EditInv, Writing
    <2> DEFINE L == Len(snapshots)
    <2>3. /\ L \in DOMAIN snapshots /\ snapshots[L] = e /\ e \in Paths \X FileContents
          /\ \A i \in DOMAIN snapshots' : i \in DOMAIN snapshots /\ snapshots'[i] = snapshots[i]
          /\ \A i \in DOMAIN snapshots : i # L => i \in DOMAIN snapshots' /\ snapshots'[i] = snapshots[i]
      BY <1>1, <1>3, <2>1, FrontOfList DEF ToolsShape
    <2> HIDE DEF L
    <2>4. disk'[e[1]] = e[2] /\ \A p \in Paths : p # e[1] => disk'[p] = disk[p]
      BY <1>1, <1>3, <2>1, <2>3, DiskWritten
    <2>5. /\ Remembered' \subseteq Remembered /\ e[1] \in Remembered
          /\ \A p : p \in Remembered => p = e[1] \/ p \in Remembered'
      BY <2>3 DEF Remembered
    <2>6. CASE EditInPlace
      BY <1>1, <1>3, <2>4, <2>5, <2>6 DEF EditInv, EditInPlace
    <2>7. CASE EditPreserved
      BY <1>1, <1>3, <2>4, <2>5, <2>7 DEF EditInv, EditPreserved
    <2>8. CASE EditRemembered
      <3>1. \A i \in DOMAIN snapshots' : snapshots'[i][1] = Game("conf") => snapshots'[i][2] = "edited"
        BY <2>3, <2>8 DEF EditRemembered
      <3>2. CASE Game("conf") \in Remembered'
        BY <1>1, <1>3, <3>1, <3>2 DEF EditInv, EditRemembered
      <3>3. CASE Game("conf") \notin Remembered'
        <4>1. e[1] = Game("conf")
          BY <2>5, <2>8, <3>3 DEF EditRemembered
        <4>2. disk'[Game("conf")] = "edited"
          BY <2>3, <2>4, <2>8, <4>1 DEF EditRemembered
        <4> QED BY <1>1, <1>3, <3>3, <4>2 DEF EditInv, EditInPlace
      <3> QED BY <3>2, <3>3
    <2> QED BY <2>2, <2>6, <2>7, <2>8
  <1> QED BY <1>1, <1>2, <1>3 DEF Rollback

(* The edit, over every step. *)
LEMMA EditKept == ASSUME ToolsInv, [ServerToolsNext]_toolVars, EditTrusted' PROVE EditInv'
  <1>0. SUFFICES ASSUME edited' PROVE EditInv'
    BY DEF EditInv
  <1>1. CASE BeginInstallFiles \/ BeginUninstallFiles
    <2>1. /\ lost' = lost \/ lost' = "redone"
          /\ job = "none" /\ job' # "rollback" /\ snapshots' = <<>> /\ UNCHANGED <<disk, edited>>
      BY <1>1 DEF BeginInstallFiles, BeginUninstallFiles
    <2>2. "edited" \in {disk[Game("conf")], disk[Preserved]} /\ Remembered' = {}
      BY <1>0, <2>1 DEF ToolsInv, EditInv, EditTrusted, Remembered
    <2> QED BY <2>1, <2>2 DEF EditInv, EditInPlace, EditPreserved
  <1>2. CASE InstallFile \/ WriteFailsAndRollsBack
    <2>1. job \in {"install", "uninstall"} /\ UNCHANGED <<disk, snapshots, lost, edited>>
      BY <1>2 DEF InstallFile, WriteFailsAndRollsBack
    <2>2. /\ "edited" \in {disk[Game("conf")], disk[Preserved]}
          /\ EditInPlace \/ EditRemembered \/ EditPreserved
      BY <1>0, <2>1 DEF ToolsInv, EditInv, EditTrusted, Writing
    <2>3. (EditInPlace \/ EditRemembered \/ EditPreserved)'
      BY <2>1, <2>2 DEF EditInPlace, EditRemembered, EditPreserved, Remembered
    <2> QED BY <2>1, <2>2, <2>3 DEF EditInv
  <1>3. CASE WritePending
    BY <1>0, <1>3, WriteKeepsEdit
  <1>4. CASE InstallCommit \/ UninstallCommit \/ DiscardBackup
    <2>1. /\ job # "rollback" /\ job' \in {"none", "discard"} /\ UNCHANGED <<lost, edited>>
      BY <1>4 DEF InstallCommit, UninstallCommit, DiscardBackup
    <2>2. disk'[Game("conf")] = disk[Game("conf")] /\ disk'[Preserved] = disk[Preserved]
      <3>1. \/ disk' = disk
            \/ \E n \in Names : disk' = [disk EXCEPT ![Backup(n)] = "none"]
        <4>1. unvisited # <<>> => Head(unvisited) \in Names
          BY DEF ToolsInv, ToolsShape, NameOrder, Names
        <4> QED BY <1>4, <4>1 DEF InstallCommit, UninstallCommit, DiscardBackup
      <3> QED BY <3>1, DiskWritten, PathFacts DEF ToolsInv, FileContents, Names
    <2>3. EditInv
      BY <2>1 DEF ToolsInv, EditTrusted
    <2> QED BY <1>0, <2>1, <2>2, <2>3 DEF EditInv, Writing
  <1>5. CASE Rollback
    BY <1>0, <1>5, RollbackKeepsEdit
  <1>6. CASE \/ \E kind \in {"setup", "patcher", "cpl"} : LaunchTool(kind)
             \/ AcquireToolGuard \/ Rescan \/ ToolExits \/ UNCHANGED toolVars
    <2>1. UNCHANGED <<disk, job, snapshots, lost, edited>>
      BY <1>6 DEF LaunchTool, AcquireToolGuard, Rescan, ToolExits, toolVars, jobVars
    <2>2. EditInv
      BY <2>1 DEF ToolsInv, EditTrusted
    <2> QED BY <2>1, <2>2 DEF EditInv, Writing, EditInPlace, EditRemembered, EditPreserved, Remembered
  <1>7. CASE UserEdits
    <2>1. PICK n \in Names, c \in {"edited", "none"} :
            /\ disk[Game(n)] = "wrapper" /\ disk' = [disk EXCEPT ![Game(n)] = c]
            /\ edited' = (edited \/ (n = "conf" /\ c = "edited"))
      BY <1>7 DEF UserEdits, Matches
    <2>2. disk'[Game(n)] = c /\ \A q \in Paths : q # Game(n) => disk'[q] = disk[q]
      BY <2>1, DiskWritten, PathFacts DEF ToolsInv, FileContents
    <2>3. job = "none" /\ UNCHANGED <<job, lost>>
      BY <1>7 DEF UserEdits, jobVars
    <2>4. EditInv
      BY <2>3 DEF ToolsInv, EditTrusted
    <2>5. "edited" \in {disk'[Game("conf")], disk'[Preserved]}
      BY <1>0, <2>1, <2>2, <2>3, <2>4, PathFacts DEF EditInv, Names
    <2> QED BY <2>3, <2>5 DEF EditInv, Writing
  <1>8. CASE LauncherKilled
    <2>1. /\ job' = "none" /\ UNCHANGED <<disk, edited>>
          /\ EditTrusted /\ ~RollsBackConf
      BY <1>8 DEF LauncherKilled, EditTrusted
    <2>2. EditInv /\ edited
      BY <1>0, <2>1 DEF ToolsInv
    <2>3. "edited" \in {disk[Game("conf")], disk[Preserved]}
      <3>1. CASE job # "rollback"
        BY <2>2, <3>1 DEF EditInv
      <3>2. CASE job = "rollback"
        BY <2>1, <2>2, <3>2 DEF EditInv, Writing, RollsBackConf, EditInPlace, EditRemembered, EditPreserved
      <3> QED BY <3>1, <3>2
    <2> QED BY <2>1, <2>3 DEF EditInv, Writing
  <1> QED BY <1>1, <1>2, <1>3, <1>4, <1>5, <1>6, <1>7, <1>8 DEF ServerToolsNext

-----------------------------------------------------------------------------
(* The invariant of the installation and of the tools beside it. *)
THEOREM ToolsInvariant == ServerToolsSpec => []ToolsInv
  <1>1. ServerToolsInit => ToolsInv
    <2>1. SUFFICES ASSUME ServerToolsInit PROVE ToolsInv
      OBVIOUS
    <2>2. /\ disk \in [Paths -> FileContents]
          /\ \A n \in Names : disk[Game(n)] = Base(n)
          /\ disk[Preserved] = "none"
      <3>1. disk = [q \in Paths |-> IF q[1] = "game" /\ q[2] \in had THEN "original" ELSE "none"]
        BY <2>1 DEF ServerToolsInit
      <3>2. /\ Preserved \in Paths /\ Preserved[1] = "preserved"
            /\ \A n \in Names : Game(n) \in Paths /\ Game(n)[1] = "game" /\ Game(n)[2] = n
        BY PathFacts DEF Preserved, Game
      <3> QED BY <3>1, <3>2 DEF FileContents, Base
    <2>3. ToolsShape
      <3>1. NoManifest \in [Names -> {NoRecord, "bare", "kept"}]
        BY DEF NoManifest
      <3>2. <<>> \in Seq(Paths \X FileContents)
        OBVIOUS
      <3> QED BY <2>1, <2>2, <3>1, <3>2 DEF ServerToolsInit, ToolsShape
    <2>4. GuardInv
      BY <2>1 DEF ServerToolsInit, GuardInv, NoTool
    <2>5. ManifestInv
      BY <2>1, <2>2, <2>3 DEF ServerToolsInit, ManifestInv, Base, ToolsShape
    <2> QED BY <2>1, <2>3, <2>4, <2>5 DEF ServerToolsInit, ToolsInv, InstallInv, UninstallInv, RollbackInv,
                                          EditInv, Writing
  <1>2. ToolsInv /\ [ServerToolsNext]_toolVars => ToolsInv'
    <2>1. SUFFICES ASSUME ToolsInv, [ServerToolsNext]_toolVars PROVE ToolsInv'
      OBVIOUS
    <2>2. GuardInv'
      BY <2>1, GuardKept DEF ToolsInv
    <2>3. ToolsShape' /\ (Trusted' => ToolsState')
      <3>1. CASE BeginInstallFiles
        BY <2>1, <3>1, BeginInstallFilesKeeps
      <3>2. CASE InstallFile
        BY <2>1, <3>2, InstallFileKeeps
      <3>3. CASE WritePending
        BY <2>1, <3>3, WritePendingKeeps
      <3>4. CASE InstallCommit
        BY <2>1, <3>4, InstallCommitKeeps
      <3>5. CASE BeginUninstallFiles
        BY <2>1, <3>5, BeginUninstallFilesKeeps
      <3>6. CASE UninstallCommit
        BY <2>1, <3>6, UninstallCommitKeeps
      <3>7. CASE DiscardBackup
        BY <2>1, <3>7, DiscardBackupKeeps
      <3>8. CASE WriteFailsAndRollsBack
        BY <2>1, <3>8, WriteFailsAndRollsBackKeeps
      <3>9. CASE Rollback
        BY <2>1, <3>9, RollbackKeeps
      <3>10. CASE \E kind \in {"setup", "patcher", "cpl"} : LaunchTool(kind)
        BY <2>1, <3>10, ToolStepKeeps DEF LaunchTool
      <3>11. CASE AcquireToolGuard
        BY <2>1, <3>11, ToolStepKeeps DEF AcquireToolGuard
      <3>12. CASE Rescan
        BY <2>1, <3>12, ToolStepKeeps DEF Rescan
      <3>13. CASE ToolExits
        BY <2>1, <3>13, ToolStepKeeps DEF ToolExits
      <3>14. CASE UserEdits
        BY <2>1, <3>14, UserEditsKeeps
      <3>15. CASE LauncherKilled
        BY <2>1, <3>15, LauncherKilledKeeps
      <3>16. CASE UNCHANGED toolVars
        BY <2>1, <3>16, ToolStepKeeps DEF toolVars, jobVars
      <3> QED BY <2>1, <3>1, <3>2, <3>3, <3>4, <3>5, <3>6, <3>7, <3>8, <3>9, <3>10, <3>11, <3>12,
                 <3>13, <3>14, <3>15, <3>16 DEF ServerToolsNext
    <2>4. EditTrusted' => EditInv'
      BY <2>1, EditKept
    <2> QED BY <2>2, <2>3, <2>4 DEF ToolsInv, ToolsState
  <1> QED BY <1>1, <1>2, PTL DEF ServerToolsSpec

(* The user's files survive and no tool runs over half a wrapper (install_files,
   uninstall_files, launch_tool), for any number of errors, kills, operations and edits,
   except in the three cases OriginalsSurvive names: a rollback that failed, an
   installation repeated over one cut off, and for the edit of dgVoodoo.conf a kill in a
   rollback that has not put it back yet. *)
THEOREM WrapperAlwaysSound == ServerToolsSpec => []WrapperIsSound
  <1>1. ToolsInv => OriginalsSurvive
    <2>1. ASSUME ToolsInv, Trusted
          PROVE  \A n \in had : "original" \in {disk[Game(n)], disk[Backup(n)]}
      <3>1. ToolsShape /\ ManifestInv /\ RollbackInv /\ had \subseteq Names
        BY <2>1 DEF ToolsInv, ToolsShape
      <3>2. CASE manifest # NoManifest
        BY <3>1, <3>2 DEF ManifestInv
      <3>3. CASE manifest = NoManifest /\ job \in {"none", "discard"}
        BY <3>1, <3>3 DEF ManifestInv, Base
      <3>4. CASE manifest = NoManifest /\ Writing
        BY <3>1, <3>4 DEF RollbackInv, Base
      <3> QED BY <3>1, <3>2, <3>3, <3>4 DEF ToolsShape, Writing
    <2>2. ASSUME ToolsInv, EditTrusted, edited
          PROVE  \/ "edited" \in {disk[Game("conf")], disk[Preserved]}
                 \/ job = "rollback" /\ <<Game("conf"), "edited">> \in Range(snapshots)
      <3>1. EditInv /\ snapshots \in Seq(Paths \X FileContents)
        BY <2>2 DEF ToolsInv, ToolsShape
      <3>2. CASE job # "rollback"
        BY <2>2, <3>1, <3>2 DEF EditInv
      <3>3. CASE job = "rollback" /\ (EditInPlace \/ EditPreserved)
        BY <3>3 DEF EditInPlace, EditPreserved
      <3>4. CASE job = "rollback" /\ EditRemembered
        <4>1. PICK i \in DOMAIN snapshots : snapshots[i][1] = Game("conf")
          BY <3>4, RememberedBy DEF EditRemembered
        <4>2. snapshots[i] = <<Game("conf"), "edited">>
          <5>1. snapshots[i] \in Paths \X FileContents /\ snapshots[i][2] = "edited"
            BY <3>1, <3>4, <4>1 DEF EditRemembered
          <5> QED BY <4>1, <5>1
        <4> QED BY <3>4, <4>2 DEF Range
      <3> QED BY <2>2, <3>1, <3>2, <3>3, <3>4 DEF EditInv, Writing
    <2> QED BY <2>1, <2>2 DEF OriginalsSurvive, Trusted, EditTrusted
  <1>2. ToolsInv => ToolSeesWrapper
    <2>1. SUFFICES ASSUME GuardInv, tool.at = "running", tool.overrides, ~tool.touched
                   PROVE  Configured /\ toolGuard # "job"
      BY DEF ToolsInv, ToolSeesWrapper
    <2>2. tool.kind # "patcher" /\ toolGuard = LockMode(tool.kind) /\ Configured
      BY <2>1 DEF GuardInv
    <2> QED BY <2>2 DEF LockMode
  <1> QED BY <1>1, <1>2, ToolsInvariant, PTL DEF WrapperIsSound
=============================================================================
