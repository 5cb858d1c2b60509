---------------------------- MODULE MemoryScanner ----------------------------
(* Memory sessions (tools/memory_sessions) and the address scanner on top of them
   (tools/autopot/scanner.rs). Two identities share one pid: the second is the
   process the kernel gives the pid to after the first one died. A read of memory
   goes to whoever holds the pid; the session checks the identity before and after. *)
EXTENDS Naturals, FiniteSets

CONSTANTS
    Calls,          \* scanner commands that may overlap
    Kinds,          \* ScanKind: "Hp", "Level", "Map"
    MaxGenerations, \* bound: values of next_generation
    MaxLeases       \* bound: sessions registered

Identities == 1 .. 2
NoProcess == 0

VARIABLES
    holder,        \* the identity that holds the pid
    sessions,      \* RegistryInner.sessions: generation of the session of an identity
    leases, given, \* leases alive, and next_generation of the registry
    unusable,      \* generations whose access is not usable
    scan,          \* ScanState
    scanNext,      \* next_generation of the scanner
    call,          \* the commands in progress
    dropped,       \* generations the user cancelled
    abandoned,     \* generations a refinement left behind without a memory session
    confirmed      \* the last address reported to the user

memoryVars == <<sessions, leases, given, unusable>>
scannerVars == <<holder, memoryVars, scan, scanNext, call, dropped, abandoned, confirmed>>

Idle == [state |-> "Idle", gen |-> 0]
Scanning(g) == [state |-> "Scanning", gen |-> g]
ReadyScan(c) == [state |-> "Ready", gen |-> c.gen, id |-> c.id, kind |-> c.kind,
                 from |-> c.from, value |-> c.value]
NoCall == [at |-> "none"]
NoAddress == [gen |-> 0, id |-> NoProcess, from |-> NoProcess]

ScannerInit ==
    /\ holder = 1 /\ sessions = [i \in Identities |-> 0] /\ leases = {} /\ given = 0
    /\ unusable = {} /\ scan = Idle /\ scanNext = 1 /\ call = [c \in Calls |-> NoCall]
    /\ dropped = {} /\ abandoned = {} /\ confirmed = NoAddress

-----------------------------------------------------------------------------
(* The registry and its leases. *)

(* classify_preflight: whether the two probes may read the process *)
ClassifyPreflight(g, readable) == IF readable THEN unusable ELSE unusable \cup {g}

RegisterSession ==
    /\ holder # NoProcess /\ given < MaxLeases /\ given' = given + 1
    /\ \E readable \in BOOLEAN : unusable' = ClassifyPreflight(given', readable)
    /\ sessions' = [sessions EXCEPT ![holder] = given']
    /\ leases' = leases \cup {<<holder, given'>>}
    /\ UNCHANGED <<holder, scan, scanNext, call, dropped, abandoned, confirmed>>

(* a lease removes only the session of its own generation *)
DropLease ==
    /\ \E l \in leases :
         /\ leases' = leases \ {l}
         /\ sessions' = IF sessions[l[1]] = l[2] THEN [sessions EXCEPT ![l[1]] = 0] ELSE sessions
    /\ UNCHANGED <<holder, given, unusable, scan, scanNext, call, dropped, abandoned, confirmed>>

(* the game exits; later the kernel hands its pid on (external) *)
PidMoves ==
    /\ \/ holder # NoProcess /\ holder' = NoProcess /\ holder = 1
       \/ holder = NoProcess /\ holder' = 2
    /\ UNCHANGED <<memoryVars, scan, scanNext, call, dropped, abandoned, confirmed>>

(* require_session: a session that is registered and usable *)
RequireSession(i) == sessions[i] # 0 /\ sessions[i] \notin unusable

-----------------------------------------------------------------------------
(* Commands of the scanner. Every one takes a generation before it looks. *)

Takes == scanNext <= MaxGenerations /\ scanNext' = scanNext + 1
Starts(c, i, kind, value, op, at) ==
    call' = [call EXCEPT ![c] = [at |-> at, op |-> op, gen |-> scanNext, id |-> i, kind |-> kind,
                                 value |-> value, memory |-> sessions[i], from |-> NoProcess]]

(* begin, begin_level and begin_map *)
BeginScan(c, kind, value) ==
    /\ call[c] = NoCall /\ \E i \in Identities :
         /\ RequireSession(i) /\ Takes
         /\ IF scan = Idle
            THEN scan' = Scanning(scanNext) /\ Starts(c, i, kind, value, "begin", "before")
            ELSE UNCHANGED <<scan, call>>
    /\ UNCHANGED <<holder, memoryVars, dropped, abandoned, confirmed>>

(* refine, refine_level and refine_map: a scan of this kind, with another value *)
ReserveRefine(c, kind, value) ==
    /\ call[c] = NoCall /\ Takes
    /\ IF scan.state = "Ready" /\ scan.kind = kind /\ scan.value # value
       THEN scan' = Scanning(scanNext) /\ Starts(c, scan.id, kind, value, "refine", "session")
       ELSE UNCHANGED <<scan, call>>
    /\ UNCHANGED <<holder, memoryVars, dropped, abandoned, confirmed>>

(* finish_if_current; begin checks the same under the lock it keeps *)
FinishIfCurrent(c, next) == scan' = IF scan = Scanning(call[c].gen) THEN next ELSE scan
Over(c) == call' = [call EXCEPT ![c] = NoCall]

(* After the reservation: the process, then its session. A session that is gone ends the
   command and leaves the state Scanning until the user cancels. *)
RefineSession(c) ==
    /\ call[c].at = "session"
    /\ \/ /\ holder # call[c].id /\ FinishIfCurrent(c, Idle) /\ Over(c) /\ UNCHANGED abandoned
       \/ /\ ~RequireSession(call[c].id) /\ Over(c)
          /\ abandoned' = abandoned \cup {call[c].gen} /\ UNCHANGED scan
       \/ /\ RequireSession(call[c].id)
          /\ call' = [call EXCEPT ![c].at = "before", ![c].memory = sessions[call[c].id]]
          /\ UNCHANGED <<scan, abandoned>>
    /\ UNCHANGED <<holder, memoryVars, scanNext, dropped, confirmed>>

(* Mutant: what was read counts whoever the process is by now. *)
NoSecondCheck(c) == TRUE
(* ensure_identity, once more after the read *)
SecondCheck(c) == holder = call[c].id

(* One read of MemorySession: ensure_identity, the read, ensure_identity. A check that
   fails makes the session unusable and the command fail. *)
ReadMemory(c) ==
    /\ \/ /\ call[c].at = "before" /\ holder = call[c].id
          /\ call' = [call EXCEPT ![c].at = "read"] /\ UNCHANGED unusable
       \/ /\ call[c].at = "read" /\ holder # NoProcess
          /\ call' = [call EXCEPT ![c].at = "after", ![c].from = holder] /\ UNCHANGED unusable
       \/ /\ call[c].at = "after" /\ SecondCheck(c)
          /\ call' = [call EXCEPT ![c].at = "found"] /\ UNCHANGED unusable
       \/ /\ \/ call[c].at = "before" /\ holder # call[c].id
             \/ call[c].at = "read" /\ holder = NoProcess
             \/ call[c].at = "after" /\ ~SecondCheck(c)
          /\ call' = [call EXCEPT ![c].at = "failed"]
          /\ unusable' = unusable \cup {call[c].memory}
    /\ UNCHANGED <<holder, sessions, leases, given, scan, scanNext, dropped, abandoned, confirmed>>

(* No candidate, or a task that died: back to Idle. Several: Ready. One address with the
   layout expected, in a refinement: it is reported, unless the scan was cancelled. *)
FinishScan(c) ==
    /\ \/ /\ call[c].at \in {"failed", "found"} /\ FinishIfCurrent(c, Idle) /\ UNCHANGED confirmed
       \/ /\ call[c].at = "found" /\ FinishIfCurrent(c, ReadyScan(call[c]))
          /\ UNCHANGED confirmed
       \/ /\ call[c].at = "found" /\ call[c].op = "refine" /\ FinishIfCurrent(c, Idle)
          /\ confirmed' = IF scan = Scanning(call[c].gen)
                          THEN [gen |-> call[c].gen, id |-> call[c].id, from |-> call[c].from]
                          ELSE confirmed
    /\ Over(c)
    /\ UNCHANGED <<holder, memoryVars, scanNext, dropped, abandoned>>

CancelScan ==
    /\ Takes /\ scan' = Idle
    /\ dropped' = IF scan.state = "Scanning" THEN dropped \cup {scan.gen} ELSE dropped
    /\ UNCHANGED <<holder, memoryVars, call, abandoned, confirmed>>

ScannerNext ==
    \/ RegisterSession \/ DropLease \/ PidMoves \/ CancelScan
    \/ \E c \in Calls :
         \/ RefineSession(c) \/ ReadMemory(c) \/ FinishScan(c)
         \/ \E kind \in Kinds, value \in 1 .. 2 :
              BeginScan(c, kind, value) \/ ReserveRefine(c, kind, value)

-----------------------------------------------------------------------------
ScannerTypeOK ==
    /\ holder \in 0 .. 2 /\ sessions \in [Identities -> 0 .. MaxLeases]
    /\ scan.state \in {"Idle", "Scanning", "Ready"}
    /\ dropped \cup abandoned \subseteq 1 .. MaxGenerations

(* The candidates kept and the address reported were read in the process they are of, never
   in one that took its pid (memory_sessions/session.rs:199), and come from a scan nobody
   cancelled (scanner.rs:733). A scan in progress has a command that runs it, unless a
   refinement lost its memory session (scanner.rs:228). *)
ScanSound ==
    /\ scan.state = "Ready" => scan.from = scan.id /\ scan.gen \notin dropped
    /\ confirmed.from = confirmed.id /\ confirmed.gen \notin dropped
    /\ scan.state = "Scanning" =>
         \/ scan.gen \in abandoned
         \/ \E c \in Calls : call[c] # NoCall /\ call[c].gen = scan.gen

ScannerSpec == ScannerInit /\ [][ScannerNext]_scannerVars
=============================================================================
