------------------------------ MODULE RunRecords ------------------------------
(***************************************************************************)
(* tools/runtime: the observation of every launch (observation_store.rs,   *)
(* written by blocking tasks that the launch and the exit task enqueue)    *)
(* and the benchmark runs attached to a running client                     *)
(* (commands/benchmarks.rs, benchmark_store.rs, benchmark.rs). A command   *)
(* reads the client's facts first and takes BENCHMARKS_LOCK afterwards;    *)
(* what happens under the lock is one step. A sample file is abstracted to *)
(* its hash, and what must agree for a comparison to one key.              *)
(***************************************************************************)
EXTENDS Integers, FiniteSets

CONSTANTS
    Launches,           \* the launches: each one is a client and has an observation
    MaxTogether,        \* benchmark commands under way together
    MaxStarts,          \* benchmark runs requested
    MaxReplacements,    \* handoffs of a client
    ObservationLimit, RunLimit,     \* MAX_RECORDS of the two stores
    ExitKinds,          \* how controllers end: "crash" (a fatal signal or an NT status), "zero",
                        \* "code" or "unknown"
    Verdicts,           \* of a visual check: "Passed", "Failed", "Skipped"
    Keys,               \* comparability_key: spec, server, subject, prefix, GPU
    RecordAge,          \* MAX_AGE, in stamps of the clock
    MaxRecordErrors     \* writes that fail

ASSUME StartsAssumption == MaxStarts \in Nat

RunIds == 1..MaxStarts
SampleFiles == {"x", "y"}
NoSamples == "none"
NoOutcome == "none"
Unusable == {"startupFailed", "startupTimeout", "crashConfirmed"}
Absent == [state |-> "Absent"]

VARIABLES
    launched,       \* phase, process, alive and stop of each client
    tasks,          \* persist_started and persist_finished not run yet
    observations,   \* the file of each launch, or Absent
    runs,           \* the file of each run, or Absent; history: the process lived when its
                    \* capture began, and the samples its verdict is about
    commands,       \* the benchmark commands under way, with what each has read
    stamps,         \* the time, in records stamped by each store
    nextRun,        \* new_benchmark_run_id
    writeErrors,    \* writes that may still fail
    unwritten       \* the launches a write failed for

gameVars == <<launched, tasks>>
recordVars == <<gameVars, observations, runs, commands, stamps, nextRun, writeErrors, unwritten>>

RecordsInit ==
    /\ \E absent \in SUBSET Launches :         \* launches that will not happen
          launched = [l \in Launches |-> [phase |-> IF l \in absent THEN "gone" ELSE "idle",
                                          process |-> 0, alive |-> FALSE, stop |-> FALSE]]
    /\ tasks = {} /\ unwritten = {} /\ writeErrors \in {0, MaxRecordErrors}
    /\ observations = [l \in Launches |-> Absent]
    /\ runs = [r \in RunIds |-> Absent]
    /\ commands = {}
    /\ stamps = [observations |-> 0, runs |-> 0]
    /\ nextRun \in {1, MaxStarts + 1}           \* with or without benchmarks

(* prune: the expired ones go, then the oldest beyond the limit; never `keep` *)
prune(store, ids, keep, limit, now) ==
    LET fresh == {i \in ids : store[i] # Absent /\ (i = keep \/ now - store[i].at <= RecordAge)}
        older(i) == {j \in fresh : store[j].at < store[i].at}
        excess == {i \in fresh : i # keep /\ Cardinality(older(i)) < Cardinality(fresh) - limit}
    IN  [i \in ids |-> IF i \in fresh \ excess THEN store[i] ELSE Absent]

(* ------------------------------ observations ---------------------------- *)

Task(l, kind, outcome) == [launch |-> l, kind |-> kind, outcome |-> outcome]
(* classify_run_outcome *)
Outcome(reached, stop, timeout, exit) ==
    CASE stop -> "userStop"
      [] ~stop /\ ~reached /\ timeout -> "startupTimeout"
      [] ~stop /\ ~reached /\ ~timeout -> "startupFailed"
      [] ~stop /\ reached /\ exit = "crash" -> "crashConfirmed"
      [] ~stop /\ reached /\ exit = "zero" -> "cleanExit"
      [] ~stop /\ reached /\ exit = "code" -> "abnormalControllerExit"
      [] OTHER -> "processEnded"

(* The launch found its game: enqueue_persist_started. *)
Reached(l) ==
    /\ launched[l].phase = "idle"
    /\ launched' = [launched EXCEPT ![l] = [phase |-> "running", process |-> 1, alive |-> TRUE, stop |-> FALSE]]
    /\ tasks' = tasks \union {Task(l, "started", NoOutcome)}
    /\ UNCHANGED <<observations, runs, commands, stamps, nextRun, writeErrors, unwritten>>
(* It did not: enqueue_persist_unreached, one task that writes both. *)
Unreached(l) ==
    /\ launched[l].phase = "idle"
    /\ launched' = [launched EXCEPT ![l].phase = "gone"]
    /\ \E stop, timeout \in BOOLEAN :
          tasks' = tasks \union {Task(l, "both", Outcome(FALSE, stop, timeout, "unknown"))}
    /\ UNCHANGED <<observations, runs, commands, stamps, nextRun, writeErrors, unwritten>>

PersistStarted(t) ==
    /\ t.kind \in {"started", "both"}
    /\ tasks' = (tasks \ {t}) \union
                (IF t.kind = "both" THEN {[t EXCEPT !.kind = "finished"]} ELSE {})
    /\ LET written == [observations EXCEPT ![t.launch] =
                          [state |-> "Started", at |-> stamps.observations,
                           game |-> IF t.kind = "both" THEN 0 ELSE 1, outcome |-> NoOutcome]]
       IN  observations' = prune(written, Launches, t.launch, ObservationLimit, stamps.observations)
    /\ stamps' = [stamps EXCEPT !.observations = @ + 1]
    /\ UNCHANGED <<launched, runs, commands, nextRun, writeErrors, unwritten>>
(* "observation-started-missing" when the file is gone; a second close changes nothing *)
PersistFinished(t) ==
    /\ t.kind = "finished"
    /\ tasks' = tasks \ {t}
    /\ LET record == observations[t.launch]
           written == [observations EXCEPT ![t.launch] =
                          [record EXCEPT !.state = "Finished", !.outcome = t.outcome]]
       IN  observations' = IF record.state = "Started"
                           THEN prune(written, Launches, t.launch, ObservationLimit, stamps.observations)
                           ELSE observations
    /\ UNCHANGED <<launched, runs, commands, stamps, nextRun, writeErrors, unwritten>>
(* The write fails: the task reports it and ends. *)
PersistFails(t) ==
    /\ writeErrors > 0 /\ writeErrors' = writeErrors - 1
    /\ tasks' = tasks \ {t} /\ unwritten' = unwritten \union {t.launch}
    /\ UNCHANGED <<launched, observations, runs, commands, stamps, nextRun>>
delete_observations ==
    /\ \E l \in Launches : observations[l] # Absent
    /\ observations' = [l \in Launches |-> Absent]
    /\ UNCHANGED <<gameVars, runs, commands, stamps, nextRun, writeErrors, unwritten>>

(* ------------------------------- the client ----------------------------- *)

Dies(l) ==
    /\ launched[l].alive
    /\ launched' = [launched EXCEPT ![l].alive = FALSE]
    /\ UNCHANGED <<tasks, observations, runs, commands, stamps, nextRun, writeErrors, unwritten>>
request_stop(l) ==
    /\ launched[l].phase = "running" /\ ~launched[l].stop
    /\ launched' = [launched EXCEPT ![l].stop = TRUE]
    /\ UNCHANGED <<tasks, observations, runs, commands, stamps, nextRun, writeErrors, unwritten>>
Handoff(l) ==
    /\ launched[l].phase = "running" /\ ~launched[l].alive /\ ~launched[l].stop
    /\ launched[l].process <= MaxReplacements
    /\ launched' = [launched EXCEPT ![l].process = @ + 1, ![l].alive = TRUE]
    /\ UNCHANGED <<tasks, observations, runs, commands, stamps, nextRun, writeErrors, unwritten>>
(* Mutant: the exit task does not await the task that writes the start. *)
StartWrittenUnawaited(l) == TRUE
(* started_task.await *)
StartWritten(l) == Task(l, "started", NoOutcome) \notin tasks
(* The exit task: the controller ended, enqueue_persist_finished. *)
ExitTask(l) ==
    /\ launched[l].phase = "running" /\ ~launched[l].alive /\ StartWritten(l)
    /\ \E exit \in ExitKinds :
          tasks' = tasks \union {Task(l, "finished", Outcome(TRUE, launched[l].stop, FALSE, exit))}
    /\ launched' = [launched EXCEPT ![l].phase = "exited"]
    /\ UNCHANGED <<observations, runs, commands, stamps, nextRun, writeErrors, unwritten>>
(* game.finish: until then running_facts_for still answers *)
Unlisted(l) ==
    /\ launched[l].phase = "exited"
    /\ launched' = [launched EXCEPT ![l].phase = "gone"]
    /\ UNCHANGED <<tasks, observations, runs, commands, stamps, nextRun, writeErrors, unwritten>>

(* ----------------------------- benchmark runs --------------------------- *)

(* running_facts_for and verify_process_identity *)
Facts(l) == launched[l].phase \in {"running", "exited"} /\ ~launched[l].stop /\ launched[l].alive
Lives(run) == launched[run.client].alive /\ launched[run.client].process = run.process
Open(run) == run.state \in {"Attached", "Capturing"}
Captured(run) == run.state \in {"CaptureFinished", "SamplesImported"}
invalidate(run) == [run EXCEPT !.state = "Invalid"]     \* with its reason

StartReads(l) ==
    /\ Cardinality(commands) < MaxTogether /\ nextRun \in RunIds /\ Facts(l)
    /\ commands' = commands \union
          {[op |-> "start", run |-> nextRun, client |-> l, process |-> launched[l].process]}
    /\ nextRun' = nextRun + 1
    /\ UNCHANGED <<gameVars, observations, runs, stamps, writeErrors, unwritten>>
(* lookup_observation_for_identity knows the process of the launch, not a later one *)
Linked(l, process) ==
    IF observations[l].state = "Finished" /\ observations[l].game = process
    THEN observations[l].outcome ELSE NoOutcome
(* The plan is resolved again, which may take long; the record is built and stamped. *)
StartBuilds(c) ==
    /\ c.op = "start"
    /\ \E arm \in {"a", "b"}, key \in Keys :
          LET linked == Linked(c.client, c.process)
              run == [state |-> "Attached", client |-> c.client, process |-> c.process, arm |-> arm,
                      key |-> key, at |-> stamps.runs, linked |-> linked, samples |-> NoSamples,
                      visual |-> "Pending", began |-> FALSE, judged |-> NoSamples]
          IN  commands' = (commands \ {c}) \union
                 {[op |-> "attach", run |-> c.run,
                   record |-> IF linked \in Unusable THEN invalidate(run) ELSE run]}
    /\ stamps' = [stamps EXCEPT !.runs = @ + 1]
    /\ UNCHANGED <<gameVars, observations, runs, nextRun, writeErrors, unwritten>>
(* The plan or the session differs by now: the command returns an error. *)
StartRefused(c) ==
    /\ c.op = "start" /\ commands' = commands \ {c}
    /\ UNCHANGED <<gameVars, observations, runs, stamps, nextRun, writeErrors, unwritten>>

(* Mutant: only a run of the same arm counts as the capture of the client. *)
ActiveCaptureOfArm(record) ==
    \E r \in RunIds : Open(runs[r]) /\ Lives(runs[r]) /\ runs[r].client = record.client
                      /\ runs[r].arm = record.arm
(* client_has_active_capture; the runs it meets whose process is gone are closed *)
ActiveCapture(record) ==
    \E r \in RunIds : Open(runs[r]) /\ Lives(runs[r]) /\ runs[r].client = record.client
CloseDead(clients) ==
    [r \in RunIds |-> IF Open(runs[r]) /\ runs[r].client \in clients /\ ~Lives(runs[r])
                      THEN invalidate(runs[r]) ELSE runs[r]]
attach_benchmark_run(c) ==
    /\ c.op = "attach" /\ commands' = commands \ {c}
    /\ LET closed == CloseDead({c.record.client})
       IN  runs' = IF ActiveCapture(c.record) THEN closed
                   ELSE prune([closed EXCEPT ![c.run] = c.record], RunIds, c.run, RunLimit, stamps.runs)
    /\ UNCHANGED <<gameVars, observations, stamps, nextRun, writeErrors, unwritten>>

(* begin and finish load the run for its client, then read the client's facts; loaded past the
   state it is for, a command only returns an error *)
CaptureReads(r, op) ==
    /\ Cardinality(commands) < MaxTogether /\ Facts(runs[r].client)
    /\ commands' = commands \union
          {[op |-> op, run |-> r, process |-> launched[runs[r].client].process,
            capturing |-> runs[r].state = "Capturing"]}
    /\ UNCHANGED <<gameVars, observations, runs, stamps, nextRun, writeErrors, unwritten>>
BeginReads(r) == runs[r].state = "Attached" /\ CaptureReads(r, "begin")
FinishReads(r) == Open(runs[r]) /\ CaptureReads(r, "finish")
(* the plan of a client never changes while it runs *)
begin_benchmark_capture(c) ==
    /\ c.op = "begin" /\ commands' = commands \ {c}
    /\ LET run == runs[c.run]
       IN  \/ run.state # "Attached" /\ UNCHANGED runs       \* or the run is gone
           \/ /\ run.state = "Attached" /\ run.process # c.process
              /\ runs' = [runs EXCEPT ![c.run] = invalidate(run)]
           \/ /\ run.state = "Attached" /\ run.process = c.process
              /\ \/ runs' = [runs EXCEPT ![c.run] = invalidate(run)]      \* warmup too short
                 \/ runs' = [runs EXCEPT ![c.run].state = "Capturing", ![c.run].began = Lives(run)]
    /\ UNCHANGED <<gameVars, observations, stamps, nextRun, writeErrors, unwritten>>
(* Mutant: the capture may end with another process than it began with. *)
SameProcessIgnored(run, process) == TRUE
(* identity_matches_record *)
SameProcess(run, process) == run.process = process
(* finish_benchmark_capture. A capture lasts ten seconds or more (validate_spec), and a command
   does not stall that long between its reads and the lock: read before the capture began, the
   duration does not match. *)
finish_benchmark_capture(c) ==
    /\ c.op = "finish" /\ commands' = commands \ {c}
    /\ LET run == runs[c.run]
       IN  \/ run.state # "Capturing" /\ UNCHANGED runs
           \/ /\ run.state = "Capturing" /\ ~SameProcess(run, c.process)
              /\ runs' = [runs EXCEPT ![c.run] = invalidate(run)]
           \/ /\ run.state = "Capturing" /\ SameProcess(run, c.process)
              /\ \/ runs' = [runs EXCEPT ![c.run] = invalidate(run)]
                 \/ c.capturing /\ runs' = [runs EXCEPT ![c.run].state = "CaptureFinished"]
    /\ UNCHANGED <<gameVars, observations, stamps, nextRun, writeErrors, unwritten>>

(* Mutant: samples may be replaced until the visual check failed. *)
FrozenOnFailure(run) == run.visual = "Failed"
(* "samples-frozen" *)
Frozen(run) == run.visual # "Pending"
(* A file that cannot be read or parsed changes nothing. *)
import_benchmark_samples(r) ==
    /\ Captured(runs[r]) /\ ~Frozen(runs[r])
    /\ \/ runs' = [runs EXCEPT ![r] = invalidate(@)]      \* the clock jumped, or too few samples
       \/ \E file \in SampleFiles \ {runs[r].samples} :
             runs' = [runs EXCEPT ![r].state = "SamplesImported", ![r].samples = file]
    /\ UNCHANGED <<gameVars, observations, commands, stamps, nextRun, writeErrors, unwritten>>
set_benchmark_visual_check(r, status) ==
    /\ Captured(runs[r]) /\ runs[r].visual # status
    /\ runs' = [runs EXCEPT ![r].visual = status,
                            ![r].judged = IF status = "Pending" THEN NoSamples ELSE runs[r].samples]
    /\ UNCHANGED <<gameVars, observations, commands, stamps, nextRun, writeErrors, unwritten>>
list_benchmark_runs ==
    /\ runs # CloseDead(Launches)
    /\ runs' = CloseDead(Launches)
    /\ UNCHANGED <<gameVars, observations, commands, stamps, nextRun, writeErrors, unwritten>>
delete_benchmark_runs ==
    /\ \E r \in RunIds : runs[r] # Absent
    /\ runs' = [r \in RunIds |-> Absent]
    /\ UNCHANGED <<gameVars, observations, commands, stamps, nextRun, writeErrors, unwritten>>

(* ------------------------------- comparison ----------------------------- *)

(* validate_for_compare *)
Comparable(r, arm) ==
    runs[r] # Absent /\ runs[r].state # "Invalid" /\ runs[r].visual # "Pending" /\ runs[r].arm = arm
(* is_frametime_eligible *)
Eligible(r) == runs[r].state = "SamplesImported" /\ runs[r].visual = "Passed"
(* the gates of one arm: visual_correct_for_arm, startup_clean_for_arm, collect_frametimes *)
ArmPasses(arm) ==
    /\ \A r \in arm : runs[r].visual # "Failed"
    /\ \E r \in arm : runs[r].visual = "Passed"
    /\ \A r \in arm : runs[r].state = "SamplesImported" /\ runs[r].linked \notin Unusable
    /\ \E r \in arm : Eligible(r)
(* compare_benchmark_runs_by_id, and `passed` of compare_benchmark_runs *)
ComparisonPasses(left, right) ==
    /\ left # {} /\ right # {} /\ left \intersect right = {}
    /\ \A r \in left : Comparable(r, "a")
    /\ \A r \in right : Comparable(r, "b")
    /\ \A r, s \in left \union right : runs[r].key = runs[s].key
    /\ ArmPasses(left) /\ ArmPasses(right)

RecordsNext ==
    \/ \E l \in Launches : \/ Reached(l) \/ Unreached(l) \/ Dies(l) \/ request_stop(l) \/ Handoff(l)
                           \/ ExitTask(l) \/ Unlisted(l)
    \/ \E t \in tasks : PersistStarted(t) \/ PersistFinished(t) \/ PersistFails(t)
    \/ \E l \in Launches : StartReads(l)
    \/ \E r \in RunIds : BeginReads(r) \/ FinishReads(r)
    \/ \E c \in commands :
          \/ StartBuilds(c) \/ StartRefused(c) \/ attach_benchmark_run(c)
          \/ begin_benchmark_capture(c) \/ finish_benchmark_capture(c)
    \/ \E r \in RunIds :
          \/ import_benchmark_samples(r)
          \/ \E s \in {"Pending"} \union Verdicts : set_benchmark_visual_check(r, s)
    \/ delete_observations \/ list_benchmark_runs \/ delete_benchmark_runs

RecordsSpec == RecordsInit /\ [][RecordsNext]_recordVars

(* ------------------------------- properties ----------------------------- *)

(* Every file, task and command is of a kind the code writes. *)
RecordsTypeOK ==
    /\ \A l \in Launches : /\ launched[l].phase \in {"idle", "running", "exited", "gone"}
                            /\ launched[l].process \in 0..(MaxReplacements + 1)
                            /\ observations[l].state \in {"Absent", "Started", "Finished"}
    /\ \A r \in RunIds : runs[r] = Absent \/ Open(runs[r]) \/ Captured(runs[r]) \/ runs[r].state = "Invalid"
    /\ \A t \in tasks : t.kind \in {"started", "finished", "both"}
    /\ \A c \in commands : c.op \in {"start", "attach", "begin", "finish"}

(* A client has at most one run attached or capturing on its live process. *)
OneCapturePerClient ==
    \A r, s \in RunIds :
        (Open(runs[r]) /\ Lives(runs[r]) /\ Open(runs[s]) /\ Lives(runs[s])
         /\ runs[r].client = runs[s].client) => r = s
(* A capture that counts began on a process that lived, and a verdict is about the samples the
   run still has: what a comparison uses was judged as it is, and an invalid run is never used. *)
RunsAreHonest ==
    /\ \A r \in RunIds :
          /\ Captured(runs[r]) => runs[r].began
          /\ runs[r] # Absent /\ runs[r].state = "Invalid" => runs[r].visual = "Pending"
          /\ runs[r] # Absent /\ runs[r].visual # "Pending" => runs[r].judged = runs[r].samples
    /\ \A left, right \in SUBSET RunIds :
          ComparisonPasses(left, right) => \A r \in left \union right : runs[r].judged # NoSamples /\ runs[r].began
(* The observation of a launch that is over does not stay open: when its tasks ran and none failed
   to write, it is closed with its outcome or was removed; and a client that runs is not closed. *)
ObservationsClose ==
    \A l \in Launches : observations[l] # Absent =>
        /\ (launched[l].phase = "gone" /\ l \notin unwritten /\ \A t \in tasks : t.launch # l)
              => observations[l].state = "Finished"
        /\ observations[l].state = "Finished" => launched[l].phase \in {"exited", "gone"}
        /\ observations[l].state = "Finished" <=> observations[l].outcome # NoOutcome
(* The records of launches and benchmark runs are sound. *)
RecordsAreSound == OneCapturePerClient /\ RunsAreHonest /\ ObservationsClose
=============================================================================
