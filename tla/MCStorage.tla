------------------------------ MODULE MCStorage ------------------------------
(* The parts that keep files share no state but their operation guard, so one run
   checks them side by side: `part` says which one moves. *)
EXTENDS JsonStore, OperationLock, Artifacts, ServerTools, RunRecords

VARIABLE part
Parts == {"json", "lock", "artifacts", "tools", "observations", "benchmarks"}
fileVars == <<jsonVars, lockVars, artifactVars, toolVars>>
vars == <<part, fileVars, recordVars>>

(* the runs of one client are enough for what a run may do; observations need two *)
BenchmarkedLaunch == CHOOSE l \in Launches : TRUE

Init ==
    /\ part \in Parts
    /\ JsonInit /\ LockInit /\ ArtifactsInit /\ ServerToolsInit /\ RecordsInit
    /\ part # "artifacts" => policy = "Refuse" /\ tree["final"] = NoTree /\ tree["previous"] = NoTree
    /\ part # "tools" => had = {}
    /\ {l \in Launches : launched[l].phase = "gone"} =
          (IF part = "benchmarks" THEN Launches \ {BenchmarkedLaunch} ELSE {})
    /\ part = "benchmarks" <=> nextRun = 1
    /\ part = "observations" <=> writeErrors # 0

Only(p, Step) == part = p /\ Step /\ UNCHANGED part
Next ==
    \/ Only("json", JsonNext) /\ UNCHANGED <<lockVars, artifactVars, toolVars, recordVars>>
    \/ Only("lock", LockNext) /\ UNCHANGED <<jsonVars, artifactVars, toolVars, recordVars>>
    \/ Only("artifacts", ArtifactsNext) /\ UNCHANGED <<jsonVars, lockVars, toolVars, recordVars>>
    \/ Only("tools", ServerToolsNext) /\ UNCHANGED <<jsonVars, lockVars, artifactVars, recordVars>>
    \/ part \in {"observations", "benchmarks"} /\ RecordsNext /\ UNCHANGED <<part, fileVars>>
Spec == Init /\ [][Next]_vars

(* Every variable of the five modules holds a value its code can hold. *)
StorageTypeOK == JsonTypeOK /\ LockTypeOK /\ ArtifactsTypeOK /\ ServerToolsTypeOK
                 /\ RecordsTypeOK
=============================================================================
