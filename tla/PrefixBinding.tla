---------------------------- MODULE PrefixBinding ----------------------------
(***************************************************************************)
(* Which directory a command about one isolated server works in:           *)
(* tools/runtime/identity.rs, transaction_gate of prefix/recovery.rs and   *)
(* the commands of commands/prefix.rs and launcher/session.rs around them. *)
(* The path of a prefix is derived from the material of its runner, which  *)
(* the user may replace at any time, also between a crash and the next     *)
(* start. What a transaction does inside one directory is PrefixRecovery's *)
(* subject; here its steps are the ones that another command can see.      *)
(***************************************************************************)
EXTENDS Naturals, FiniteSets

CONSTANTS
    Digests,    \* fingerprints of the materials found at the runner's path
    Commands,   \* setup, reset and launch commands at work at the same time
    MaxCommands, MaxReplacements, MaxRestarts   \* bounds on how often each happens

(* A digest is the hex of a hash and none of the words below. *)
ASSUME DigestsAssumption ==
    IsFiniteSet(Digests) /\ Digests \intersect {"v2", "none", "partial", "bare", "marker", "m2"} = {}
ASSUME CommandsAssumption == "none" \notin Commands

V2 == "v2"
Locations == Digests \union {V2}
NoLocation == "none"

(* Contents of a directory: "none" (absent or empty), "partial", "bare" (data
   without a record), "marker" (the legacy configured marker), "m2" (a v2
   manifest of this server and runner) or the digest its v3 manifest records. *)
Recorded == Digests \union {"m2"}
Contents == Recorded \union {"none", "partial", "bare", "marker"}

VARIABLES
    material,   \* what the runner's path holds now
    v3Write,    \* RO_LAUNCHER_PREFIX_V3 # "0"; may differ after a restart
    contents,   \* of each location
    mark,       \* its transaction marker: "P", "C" or "none"
    saved,      \* what its reset backup holds
    guardedBy,  \* the command that holds its exclusive guard
    command,    \* per command: position, what was read and decided
    alien,      \* history: locations that held data the launcher did not record
    done,       \* commands started, runners replaced and restarts so far
    raced       \* history: locations where a command went on with a stale binding

files == <<contents, mark, saved>>
bindingVars == <<material, v3Write, files, guardedBy, command, alien, done, raced>>

Idle == [pc |-> "idle", kind |-> "setup", desired |-> NoLocation, pending |-> {}, left |-> {}, loc |-> NoLocation,
         status |-> "Unknown", eligible |-> TRUE, again |-> FALSE, used |-> "none", disturbed |-> FALSE]

(* history: transactions without a commit record, whatever the gate says *)
Unfinished == {l \in Locations : (mark[l] # "none" \/ saved[l] # "none")
                                 /\ contents[l] # IF l \in Digests THEN l ELSE "m2"}

BindingInit ==
    /\ material \in Digests /\ v3Write \in BOOLEAN
    /\ contents \in {f \in [Locations -> {"none", "bare", "marker", "m2"}] :
                       \A l \in Digests : f[l] \in {"none", "bare"}}
    /\ mark = [l \in Locations |-> "none"] /\ saved = [l \in Locations |-> "none"]
    /\ guardedBy = [l \in Locations |-> NoLocation]
    /\ command = [c \in Commands |-> Idle]
    /\ alien = {l \in Locations : contents[l] = "bare"} /\ raced = {}
    /\ done = [commands |-> 0, replacements |-> 0, restarts |-> 0]

(* ------------------------------- resolution ------------------------------ *)

(* classify_root: a record counts where the path and the record agree. *)
CommitAt(l) == contents[l] = IF l \in Digests THEN l ELSE "m2"

(* Mutant: a record of any kind clears the evidence of a transaction, and so
   does its absence. *)
GateOnlyAmbiguity(l) ==
    CASE mark[l] = "none" /\ saved[l] = "none" -> "NoTransactionEvidence"
      [] contents[l] \in Recorded \union {"none", "partial"} -> "CommittedValid"
      [] OTHER -> "AmbiguousTransaction"

(* transaction_gate *)
Gate(l) ==
    CASE mark[l] = "none" /\ saved[l] = "none" -> "NoTransactionEvidence"
      [] ~(mark[l] = "none" /\ saved[l] = "none") /\ CommitAt(l) -> "CommittedValid"
      [] ~(mark[l] = "none" /\ saved[l] = "none") /\ contents[l] \in {"none", "partial"} -> "PendingTransaction"
      [] OTHER -> "AmbiguousTransaction"

blocks_resolution(l) == Gate(l) \in {"PendingTransaction", "AmbiguousTransaction"}
Blocked == {l \in Locations : blocks_resolution(l)}
DesiredPath(desired) == IF v3Write THEN desired ELSE V2

try_v3_verified(desired) == contents[desired] = desired
try_legacy_v2_match == contents[V2] = "m2"
(* v3_path_identity_conflict: the target is occupied by anything else. *)
V3Conflict(desired) == contents[desired] \notin {"none", desired}
(* v2_path_identity_conflict_at *)
V2Conflict == contents[V2] \notin {"none", "marker", "m2"}

Bound(c, l, status, eligible) ==
    [c EXCEPT !.pc = "bound", !.loc = l, !.status = status, !.eligible = eligible]

(* resolve_prefix_binding_for_location once the transactions are known; every
   runner has the legacy topology. *)
BindingFor(c) ==
    LET d == c.desired IN
    CASE Cardinality(c.pending) > 1 -> Idle
      [] Cardinality(c.pending) = 1 -> Bound(c, CHOOSE l \in c.pending : TRUE, "Unknown", TRUE)
      [] OTHER ->
           IF try_v3_verified(d) THEN Bound(c, d, "V3Verified", TRUE)
           ELSE IF V3Conflict(d) THEN Bound(c, d, "Incompatible", FALSE)
           ELSE IF try_legacy_v2_match THEN Bound(c, V2, "LegacyV2RunnerMatched", TRUE)
           ELSE IF ~v3Write /\ V2Conflict THEN Bound(c, V2, "Incompatible", FALSE)
           ELSE Bound(c, DesiredPath(d), "Unknown", TRUE)

(* ------------------------------- the commands ---------------------------- *)

At(c, pc) == command[c].pc = pc

(* A command whose transaction another command has worked on since. *)
Now(c, r) ==
    /\ raced' = IF r.pc \in {"begun", "validated"} /\ r.disturbed THEN raced \union {r.loc} ELSE raced
    /\ command' = [k \in Commands |->
         IF k = c THEN r
         ELSE IF \E l \in command[k].pending : <<contents[l], mark[l]>>' # <<contents[l], mark[l]>>
              THEN [command[k] EXCEPT !.disturbed = TRUE] ELSE command[k]]
Goes(c, pc) == Now(c, [command[c] EXCEPT !.pc = pc])
Returns(c) == Now(c, Idle)

(* probe_runner and desired_prefix_fingerprint, then pending_v3_transactions. *)
Discover(c, kind) ==
    /\ At(c, "idle") /\ done.commands < MaxCommands
    /\ done' = [done EXCEPT !.commands = @ + 1]
    /\ UNCHANGED <<material, v3Write, files, guardedBy, alien>>
    /\ Now(c, [Idle EXCEPT !.pc = "found", !.kind = kind, !.desired = material,
                           !.pending = Blocked, !.left = Unfinished])

Choose(c) ==
    /\ At(c, "found")
    /\ UNCHANGED <<material, v3Write, files, guardedBy, alien, done>>
    /\ Now(c, BindingFor(command[c]))

(* What recovery does with the location, as PrefixRecovery has it. *)
Refused(l) == Gate(l) = "AmbiguousTransaction" \/ (mark[l] = "C" /\ ~CommitAt(l))
Replaced(l) == Gate(l) = "PendingTransaction" /\ ~Refused(l)
RecoverAt(l) ==
    /\ contents' = IF Replaced(l) THEN [contents EXCEPT ![l] = saved[l]] ELSE contents
    /\ mark' = [mark EXCEPT ![l] = "none"]
    /\ saved' = [saved EXCEPT ![l] = "none"]
FreeFor(l) == guardedBy[l] = NoLocation
GuardTaken(c, l) == guardedBy' = [guardedBy EXCEPT ![l] = c]
GuardDropped(l) == guardedBy' = [guardedBy EXCEPT ![l] = NoLocation]

(* Mutant: the first binding is used although its directory was replaced. *)
ResolveRecoveredOnce(c) ==
    LET l == command[c].loc IN
    /\ At(c, "bound") /\ command[c].kind # "launch" /\ ~command[c].again
    /\ IF ~FreeFor(l) \/ Refused(l)
       THEN UNCHANGED files /\ Returns(c)
       ELSE RecoverAt(l) /\ Goes(c, "resolved")
    /\ UNCHANGED <<material, v3Write, guardedBy, alien, done>>

(* resolve_recovered_context: recover at the binding, and resolve again when
   the directory is another one afterwards. *)
ResolveRecovered(c) ==
    LET l == command[c].loc IN
    /\ At(c, "bound") /\ command[c].kind # "launch" /\ ~command[c].again
    /\ IF ~FreeFor(l) \/ Refused(l)
       THEN UNCHANGED files /\ Returns(c)
       ELSE /\ RecoverAt(l)
            /\ IF Replaced(l)
               THEN Now(c, [Idle EXCEPT !.pc = "found", !.kind = command[c].kind, !.again = TRUE,
                                        !.desired = material,
                                        !.pending = Blocked', !.left = Unfinished'])
               ELSE Goes(c, "resolved")
    /\ UNCHANGED <<material, v3Write, guardedBy, alien, done>>

ResolvedAgain(c) ==
    /\ At(c, "bound") /\ command[c].again
    /\ UNCHANGED <<material, v3Write, files, guardedBy, alien, done>>
    /\ Goes(c, "resolved")

(* setup_prefix_owned and reset_prefix_owned: unrecorded data is refused, a
   legacy prefix is rebuilt; then the recovery of setup_runtime_prefix or
   reset_runtime_prefix, and RunnerOperation::begin refuses an ineligible
   identity. *)
Prepare(c) ==
    LET l == command[c].loc
        kind == IF contents[l] = "marker" THEN "reset" ELSE command[c].kind
    IN
    /\ At(c, "resolved")
    /\ IF contents[l] \in {"bare", "partial"} \/ ~FreeFor(l) \/ Refused(l)
       THEN UNCHANGED files /\ Returns(c)
       ELSE /\ RecoverAt(l)
            /\ IF (Replaced(l) /\ kind = "setup") \/ ~command[c].eligible
               THEN Returns(c)
               ELSE Now(c, [command[c] EXCEPT !.pc = "begun", !.kind = kind])
    /\ UNCHANGED <<material, v3Write, guardedBy, alien, done>>

(* transaction_identity and preserve_for_reset: what is refused leaves, after
   the recovery, everything as it was. *)
MayTransact(c, l) ==
    /\ l \in Digests => command[c].desired = l
    /\ contents[l] \in {"none", "marker"} \/ CommitAt(l)

(* ensure_managed_reset_allowed and ensure_recovered_under_guard; a clean
   start or a reset is a transaction, a setup of what exists a repair. *)
Work(c) ==
    LET l == command[c].loc IN
    /\ At(c, "begun")
    /\ \/ /\ ~FreeFor(l) \/ contents[l] \in {"bare", "partial"} \/ Refused(l)
          /\ UNCHANGED <<files, guardedBy>> /\ Returns(c)
       \/ /\ FreeFor(l) /\ contents[l] \notin {"bare", "partial"} /\ ~Refused(l)
          /\ \/ Replaced(l) /\ RecoverAt(l) /\ UNCHANGED guardedBy /\ Returns(c)
             \/ /\ ~Replaced(l) /\ contents[l] # "none" /\ command[c].kind = "setup"
                /\ RecoverAt(l) /\ GuardTaken(c, l) /\ Goes(c, "repair")
             \/ /\ ~Replaced(l) /\ (contents[l] = "none" \/ command[c].kind = "reset")
                /\ IF MayTransact(c, l)
                   THEN /\ contents' = [contents EXCEPT ![l] = "partial"]
                        /\ mark' = [mark EXCEPT ![l] = "P"]
                        /\ saved' = [saved EXCEPT ![l] = contents[l]]
                        /\ GuardTaken(c, l) /\ Goes(c, "provision")
                   ELSE RecoverAt(l) /\ UNCHANGED guardedBy /\ Returns(c)
    /\ UNCHANGED <<material, v3Write, alien, done>>

(* write_runtime_manifest, should_write_prefix_manifest_v3 *)
ManifestOf(c) ==
    IF command[c].loc \in Digests /\ (command[c].status = "V3Verified" \/ v3Write)
    THEN command[c].desired ELSE "m2"

RepairEnds(c) ==
    LET l == command[c].loc IN
    /\ At(c, "repair")
    /\ contents' \in {contents, [contents EXCEPT ![l] = ManifestOf(c)]}
    /\ UNCHANGED <<material, v3Write, mark, saved, alien, done>>
    /\ GuardDropped(l) /\ Returns(c)

RevokeAt(c) ==
    /\ At(c, "provision")
    /\ mark' = [mark EXCEPT ![command[c].loc] = "C"]
    /\ UNCHANGED <<material, v3Write, contents, saved, guardedBy, alien, done>>
    /\ Goes(c, "commit")
CommitRecord(c) ==
    /\ At(c, "commit")
    /\ contents' = [contents EXCEPT ![command[c].loc] = ManifestOf(c)]
    /\ UNCHANGED <<material, v3Write, mark, saved, guardedBy, alien, done>>
    /\ Goes(c, "clean")
(* The recovery that ends a transaction: cleanup after the commit, rollback of
   one that failed before it (the writer reinstates P). *)
EndTransaction(c) ==
    LET l == command[c].loc IN
    /\ \/ At(c, "clean") /\ UNCHANGED contents
          /\ \/ mark' = [mark EXCEPT ![l] = "none"] /\ saved' = [saved EXCEPT ![l] = "none"]
             \/ UNCHANGED <<mark, saved>>          \* reported, retried by the next recovery
       \/ /\ command[c].pc \in {"provision", "commit"}
          /\ contents' = [contents EXCEPT ![l] = saved[l]]
          /\ mark' = [mark EXCEPT ![l] = "none"] /\ saved' = [saved EXCEPT ![l] = "none"]
    /\ GuardDropped(l) /\ Returns(c)
    /\ UNCHANGED <<material, v3Write, alien, done>>

LaunchValidated(c) == Now(c, [command[c] EXCEPT !.pc = "validated", !.used = contents[command[c].loc]])
(* Mutant: the identity of the binding is not looked at. *)
ValidateAnyBinding(c) ==
    /\ At(c, "bound") /\ command[c].kind = "launch"
    /\ UNCHANGED <<material, v3Write, files, guardedBy, alien, done>>
    /\ IF contents[command[c].loc] \in Recorded \union {"bare"} THEN LaunchValidated(c) ELSE Returns(c)

(* validate_runtime_prefix of launch_game: eligible, configured, and a record
   that names its runner. *)
ValidateLaunch(c) ==
    /\ At(c, "bound") /\ command[c].kind = "launch"
    /\ UNCHANGED <<material, v3Write, files, guardedBy, alien, done>>
    /\ IF command[c].eligible /\ contents[command[c].loc] \in Recorded
       THEN LaunchValidated(c) ELSE Returns(c)
LaunchOver(c) ==
    /\ At(c, "validated")
    /\ UNCHANGED <<material, v3Write, files, guardedBy, alien, done>>
    /\ Returns(c)

(* External: the user replaces the runner. *)
ReplaceMaterial ==
    /\ done.replacements < MaxReplacements
    /\ done' = [done EXCEPT !.replacements = @ + 1]
    /\ material' \in Digests \ {material}
    /\ UNCHANGED <<v3Write, files, guardedBy, command, alien, raced>>
(* The launcher is killed and started again, perhaps with another setting. *)
Restart ==
    /\ done.restarts < MaxRestarts
    /\ done' = [done EXCEPT !.restarts = @ + 1]
    /\ command' = [c \in Commands |-> Idle]
    /\ guardedBy' = [l \in Locations |-> NoLocation]
    /\ v3Write' \in BOOLEAN
    /\ UNCHANGED <<material, files, alien, raced>>

BindingNext ==
    \/ \E c \in Commands :
         \/ \E kind \in {"setup", "reset", "launch"} : Discover(c, kind)
         \/ Choose(c) \/ ResolveRecovered(c) \/ ResolvedAgain(c) \/ Prepare(c) \/ Work(c)
         \/ RepairEnds(c) \/ RevokeAt(c) \/ CommitRecord(c) \/ EndTransaction(c)
         \/ ValidateLaunch(c) \/ LaunchOver(c)
    \/ ReplaceMaterial \/ Restart

(* ------------------------------- properties ------------------------------ *)

(* The commands, their guards and the directories keep their types. *)
BindingTypeOK ==
    /\ material \in Digests /\ v3Write \in BOOLEAN
    /\ contents \in [Locations -> Contents]
    /\ mark \in [Locations -> {"none", "P", "C"}]
    /\ saved \in [Locations -> Contents \ {"partial", "bare"}]
    /\ \A l \in Locations : guardedBy[l] # NoLocation => command[guardedBy[l]].loc = l
    /\ alien \subseteq Locations

Working == {c \in Commands : command[c].pc \in {"begun", "repair", "provision", "commit", "clean", "validated"}}

(* A command sent to the directory of somebody's interrupted transaction never
   prepares it, or launches in it, with a runner it was not made for: it
   recovers and resolves again.  Except in a `raced` directory: when another
   command worked on that very transaction between this one's discovery and its
   decision, this one finds nothing to recover, keeps the binding it had and
   works, or launches, there with its own runner (commands/prefix.rs:286);
   DecisionsAreCurrent is violated there. *)
WorksAtItsOwn ==
    \A c \in Working : command[c].loc \in {command[c].desired, V2} \union raced

(* A launch that was validated uses a recorded prefix of its own material, except
   in a `raced` directory: the launch itself may have met the transaction there
   that another command ended meanwhile, or a setup may have repaired the prefix
   with another runner (validate_runtime_prefix, session.rs). *)
LaunchesItsOwn ==
    \A c \in Commands : At(c, "validated") /\ command[c].loc \notin raced =>
        command[c].used = IF command[c].loc = V2 THEN "m2" ELSE command[c].desired

(* A transaction that was interrupted before a command looked is not left
   behind by it, not even when the runner has changed since: the command
   works, or launches, in that directory or nowhere. *)
NoneLeftBehind == \A c \in Working : command[c].left \subseteq {command[c].loc}

(* Data the launcher did not record is never adopted or overwritten. *)
AlienKept == \A l \in alien : contents[l] = "bare" /\ mark[l] = "none"

(* resolve_prefix_binding_for_location steers every command to the directory
   it may work in, except for the `raced` directories of WorksAtItsOwn and
   LaunchesItsOwn, where a stale binding is used. *)
BindingIsSound == WorksAtItsOwn /\ LaunchesItsOwn /\ NoneLeftBehind /\ AlienKept

(* What the comment of resolve_recovered_context says (commands/prefix.rs:277):
   the decisions of setup and reset "never see transaction residue or a
   pre-recovery binding".  A binding to a directory that is neither the one of
   the runner the command resolved nor the legacy one was made for the recovery
   of a transaction: setup and reset never change anything there.  (Not so: the
   second resolution is made only when this command's own recovery replaced the
   root.) *)
DecisionsAreCurrent ==
    \A c \in Commands :
        command[c].pc \in {"repair", "provision", "commit", "clean"} =>
            command[c].loc \in {command[c].desired, V2}
==============================================================================
