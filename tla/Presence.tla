------------------------------ MODULE Presence ------------------------------
(* Discord presence (tools/presence): one worker thread takes commands in order,
   samples the clients every two seconds and publishes one activity. A character is
   believed after REQUIRED_STABLE_SAMPLES equal samples and forgotten after
   MAX_INVALID_SAMPLES bad ones. Discord (external) shows the last activity set on a
   connection, and nothing once that connection is closed. Time is abstracted: any
   interval may have passed since the last publication.                            *)
EXTENDS Naturals, FiniteSets, Functions

CONSTANTS
    Players,        \* client ids
    Profiles,       \* layouts derived from the overrides of a server
    Characters,     \* what the memory of a game in play shows
    Layouts,        \* per client, how its profiles are found: "hash", "derived" or "none"
    StableSamples,  \* REQUIRED_STABLE_SAMPLES
    InvalidSamples, \* MAX_INVALID_SAMPLES
    MaxCommands     \* bound: commands sent

(* The samples are counted from one; a layout is one of the three ways to find a profile. *)
ASSUME SamplesAssumption == {StableSamples, InvalidSamples} \subseteq Nat \ {0}
ASSUME LayoutsAssumption == Layouts \in [Players -> SUBSET {"hash", "derived", "none"}]

Nothing == [clients |-> 0]   \* no activity
NoProfile == "none"
NoPending == <<>>
NoSnapshot == [of |-> "nobody", from |-> 0]
NoPlayer == [known |-> FALSE]

VARIABLES
    enabled, players,    \* PresenceWorker.enabled and clients
    sentActivity, presenceError,  \* sent_activity, last_error
    shown,               \* what Discord shows
    workerRuns, commands \* the worker has not ended; commands sent

presenceVars == <<enabled, players, sentActivity, presenceError, shown, workerRuns, commands>>

PresenceInit ==
    /\ enabled = FALSE /\ players = [p \in Players |-> NoPlayer] /\ sentActivity = Nothing
    /\ presenceError = FALSE /\ shown = Nothing /\ workerRuns = TRUE /\ commands = 0

(* aggregate_activity and activity_for_client: one client shows its character, several
   show their number. *)
Known(ps) == {p \in Players : ps[p].known}
AggregateActivity(ps) ==
    IF Known(ps) = {} THEN Nothing
    ELSE IF Cardinality(Known(ps)) > 1 THEN [clients |-> Cardinality(Known(ps))]
    ELSE LET p == CHOOSE q \in Known(ps) : TRUE IN
         [client |-> p, identity |-> ps[p].identity, snapshot |-> ps[p].snapshot]

-----------------------------------------------------------------------------
(* Sampling. *)

Reset(c) == [c EXCEPT !.snapshot = NoSnapshot, !.pending = NoPending, !.samples = 0, !.invalid = 0]

InvalidateClient(c) ==
    LET bad == c.invalid + 1
        over == bad >= InvalidSamples IN
    [c EXCEPT !.pending = NoPending, !.samples = 0,
              !.invalid = IF over THEN InvalidSamples ELSE bad,
              !.snapshot = IF over THEN NoSnapshot ELSE c.snapshot,
              !.profile = IF over /\ c.layout # "hash" THEN NoProfile ELSE c.profile]

(* The same profile and character again; once they are stable the profile is kept. *)
RecordIngameSample(c, profile, character) ==
    LET key == <<profile, character>>
        n == IF c.pending # key THEN 1 ELSE IF c.samples < StableSamples THEN c.samples + 1
             ELSE StableSamples
        stable == n >= StableSamples IN
    [c EXCEPT !.pending = key, !.samples = n,
              !.profile = IF stable THEN profile ELSE c.profile,
              !.snapshot = IF stable THEN [of |-> character, from |-> c.identity] ELSE c.snapshot,
              !.invalid = IF stable THEN 0 ELSE c.invalid]

(* sample_client: a profile is fixed or derived, or there is none. The process may be gone
   and its memory out of play. *)
Candidates(c) ==
    IF c.profile # NoProfile THEN {c.profile} ELSE IF c.layout = "derived" THEN Profiles ELSE {}
SampleClient(c) ==
    IF Candidates(c) = {} THEN {c}
    ELSE {InvalidateClient(c)}
         \cup {RecordIngameSample(c, f, x) : f \in Candidates(c), x \in Characters}
Sampled(ps) ==
    LET choices == [p \in Players |-> IF ps[p].known THEN SampleClient(ps[p]) ELSE {NoPlayer}] IN
    IF ~enabled THEN {ps}
    ELSE {next \in [Players -> UNION Range(choices)] : \A p \in Players : next[p] \in choices[p]}

-----------------------------------------------------------------------------
(* Publishing. *)

Link == [sent |-> sentActivity, shown |-> shown, failed |-> presenceError]
Intervals == {"short", "retry", "heartbeat"}   \* RETRY_INTERVAL and HEARTBEAT_INTERVAL

(* Mutant: an answer that does not arrive leaves the connection open. *)
AfterErrorOpen(l, desired) == [l EXCEPT !.shown = desired, !.failed = TRUE]
(* send_activity drops its stream after any error, and Discord forgets the activity. *)
AfterError(l, desired) == [l EXCEPT !.shown = Nothing, !.failed = TRUE]

Publish(l, desired, force, since, arrives) ==
    LET same == desired = l.sent
        skipped == /\ ~force
                   /\ \/ same /\ since # "heartbeat" /\ ~l.failed
                      \/ ~same /\ l.failed /\ since = "short"
                      \/ same /\ since = "short" IN
    IF skipped THEN l
    ELSE IF desired = Nothing /\ l.sent = Nothing THEN [l EXCEPT !.failed = FALSE]
    ELSE IF arrives THEN [sent |-> desired, shown |-> desired, failed |-> FALSE]
    ELSE AfterError(l, desired)

Desired(on, ps) == IF on THEN AggregateActivity(ps) ELSE Nothing
Becomes(l) == sentActivity' = l.sent /\ shown' = l.shown /\ presenceError' = l.failed

(* sample_clients, and the forced publication of the commands that sample *)
SampleAndPublish(ps) ==
    /\ players' \in Sampled(ps)
    /\ \E since \in Intervals, first \in BOOLEAN, second \in BOOLEAN :
         LET d == Desired(enabled, players')
             l == IF enabled THEN Publish(Link, d, FALSE, since, first) ELSE Link IN
         Becomes(Publish(l, d, TRUE, "short", second))
    /\ UNCHANGED <<enabled, workerRuns>>

Command == workerRuns /\ commands < MaxCommands /\ commands' = commands + 1

SetEnabled(on) ==
    /\ Command /\ enabled' = on
    /\ IF on THEN UNCHANGED <<sentActivity, shown, presenceError>>
       ELSE \E arrives \in BOOLEAN : Becomes(Publish(Link, Nothing, TRUE, "short", arrives))
    /\ UNCHANGED <<players, workerRuns>>

(* a hash of the executable fixes the profile for good; else the overrides derive some *)
RegisterPlayer(p, layout) ==
    /\ Command
    /\ LET c == [known |-> TRUE, identity |-> 1, layout |-> layout, snapshot |-> NoSnapshot,
                 profile |-> IF layout = "hash" THEN "hash" ELSE NoProfile,
                 pending |-> NoPending, samples |-> 0, invalid |-> 0] IN
       SampleAndPublish([players EXCEPT ![p] = c])

ApplyOverrides(p) ==
    /\ Command /\ players[p].known /\ players[p].layout # "hash"
    /\ \E layout \in Layouts[p] \ {"hash"} :
         SampleAndPublish([players EXCEPT
           ![p] = [Reset(players[p]) EXCEPT !.profile = NoProfile, !.layout = layout]])

HandoffPlayer(p) ==
    /\ Command /\ players[p].known
    /\ SampleAndPublish([players EXCEPT ![p] = [Reset(players[p]) EXCEPT !.identity = 2]])

UnregisterPlayer(p) ==
    /\ Command /\ players' = [players EXCEPT ![p] = NoPlayer]
    /\ \E arrives \in BOOLEAN :
         Becomes(Publish(Link, Desired(enabled, players'), TRUE, "short", arrives))
    /\ UNCHANGED <<enabled, workerRuns>>

(* recv_timeout: SAMPLE_INTERVAL passed without a command *)
SampleTick ==
    /\ workerRuns /\ enabled /\ players' \in Sampled(players)
    /\ \E since \in Intervals, arrives \in BOOLEAN :
         Becomes(Publish(Link, Desired(enabled, players'), FALSE, since, arrives))
    /\ UNCHANGED <<enabled, workerRuns, commands>>

(* Shutdown publishes once more; the worker and its connection end with it. *)
ShutdownPresence ==
    /\ Command /\ workerRuns' = FALSE
    /\ \E arrives \in BOOLEAN :
         LET l == Publish(Link, Desired(enabled, players), TRUE, "short", arrives) IN
         Becomes([l EXCEPT !.shown = Nothing])
    /\ UNCHANGED <<enabled, players>>

(* Discord restarts; the worker finds out when it writes again (external). *)
DiscordRestarts == shown' = Nothing /\ shown # Nothing
                   /\ UNCHANGED <<enabled, players, sentActivity, presenceError, workerRuns, commands>>

PresenceNext ==
    \/ \E on \in BOOLEAN : SetEnabled(on)
    \/ \E p \in Players :
         \/ \E layout \in Layouts[p] : RegisterPlayer(p, layout)
         \/ ApplyOverrides(p) \/ HandoffPlayer(p) \/ UnregisterPlayer(p)
    \/ SampleTick \/ ShutdownPresence \/ DiscordRestarts

-----------------------------------------------------------------------------
PresenceTypeOK ==
    /\ enabled \in BOOLEAN /\ presenceError \in BOOLEAN /\ workerRuns \in BOOLEAN
    /\ \A p \in Known(players) :
         /\ players[p].samples \in 0 .. StableSamples
         /\ players[p].invalid \in 0 .. InvalidSamples

(* Discord shows the clients of this moment or nothing: never after presence was disabled,
   never a client that was unregistered, and a character only as it was read in the process
   the client is now, whatever was lost or refused on the way (service.rs:278). *)
ShownIsCurrent ==
    /\ shown \in {Nothing, Desired(enabled, players)}
    /\ \A p \in Known(players) :
         players[p].snapshot # NoSnapshot => players[p].snapshot.from = players[p].identity

PresenceSpec == PresenceInit /\ [][PresenceNext]_presenceVars
=============================================================================
