----------------------------- MODULE InputWorker -----------------------------
(***************************************************************************)
(* The combat-input worker (tools/input/uinput_worker.rs): one thread that *)
(* owns the virtual keyboard and mouse and serves two bounded queues, and  *)
(* the writers through which the tools call it.                            *)
(*                                                                         *)
(* A writer's call draws a sequence number, enters a queue and waits for   *)
(* the acknowledgement; other writers and the worker run in between.  The  *)
(* worker reads spam_generation again after each of its sleeps, and each   *)
(* of its steps here reaches from one such read to the next.  Key presses  *)
(* fail, answers are late and queues stay full at most MaxFaults times.    *)
(* UinputWriter::key_event has no caller and is left out.                  *)
(***************************************************************************)
EXTENDS Naturals, Sequences, FiniteSets, FiniteSetsExt

CONSTANTS
    Labels,           \* the keys the tools are configured with
    Writers,          \* the threads that may call the worker
    HighCapacity,     \* HIGH_QUEUE_CAPACITY
    NormalCapacity,   \* NORMAL_QUEUE_CAPACITY
    MaxFaults         \* bound on failures and timeouts of a run

Shift == "Shift"
Mouse == "Mouse"
NoKey == "no key"
ASSUME InputAssumption ==
    /\ HighCapacity \in Nat /\ NormalCapacity \in Nat /\ MaxFaults \in Nat
    /\ Labels \intersect {Shift, Mouse, NoKey} = {} /\ "nobody" \notin Writers
Inputs == Labels \union {Shift, Mouse}

VARIABLES
    worker,       \* "running", or "gone" after shutdown
    high, normal, \* the queues
    cmd,          \* the command being executed
    wpc,          \* where the worker stands in it
    device,       \* the inputs that are down: pressed_keys and mouse_left_pressed
    spam,         \* SpamState
    generation,   \* spam_generation
    sequence,     \* next_sequence
    call,         \* the call of each writer
    faults        \* failures left

inputVars == <<worker, high, normal, cmd, wpc, device, spam, generation,
               sequence, call, faults>>

Kinds == {"press", "cycle", "release"}
\* WorkerCommand; ticket is the generation a cycle observed when it was dispatched
Command == [writer : Writers, kind : Kinds, key : Labels \union {NoKey},
            shift : BOOLEAN, ticket : Nat, sequence : Nat]
NoCommand == [writer |-> "nobody", kind |-> "none", key |-> NoKey,
              shift |-> FALSE, ticket |-> 0, sequence |-> 0]

CallStates == {"none", "drawn", "sent", "ok", "skipped", "failed"}
NoCall == [st |-> "none", command |-> NoCommand]
InCall(w) == call[w].st \in {"drawn", "sent"}
Answered(w) == call[w].st \in {"ok", "skipped", "failed"}

Released == [key |-> NoKey, shift |-> FALSE, mouse |-> FALSE, cutoff |-> 0]

InputInit ==
    /\ worker = "running"
    /\ high = <<>> /\ normal = <<>>
    /\ cmd = NoCommand /\ wpc = "idle"
    /\ device = {} /\ spam = Released
    /\ generation = 1 /\ sequence = 1
    /\ call = [w \in Writers |-> NoCall]
    /\ faults \in 0..MaxFaults

(* ------------------------------ writers ------------------------------- *)

CallOf(w, kind, key, shift, ticket) ==
    [st |-> "drawn",
     command |-> [writer |-> w, kind |-> kind, key |-> key, shift |-> shift,
                  ticket |-> ticket, sequence |-> sequence]]

(* spam_cycle_with_ticket up to next_sequence.fetch_add *)
SubmitCycle(w, key, shift, ticket) ==
    /\ call' = [call EXCEPT ![w] = CallOf(w, "cycle", key, shift, ticket)]
    /\ sequence' = sequence + 1
    /\ UNCHANGED generation

(* release_spam: the generation first, then the command *)
SubmitRelease(w) ==
    /\ generation' = generation + 1
    /\ call' = [call EXCEPT ![w] = CallOf(w, "release", NoKey, FALSE, 0)]
    /\ sequence' = sequence + 1

HighPriority(c) == c.kind = "release" \/ c.writer = "autopot"

Full(c) == IF HighPriority(c) THEN Len(high) = HighCapacity ELSE Len(normal) = NormalCapacity
Push(c) ==
    /\ ~Full(c)
    /\ IF HighPriority(c) THEN high' = Append(high, c) /\ UNCHANGED normal
                          ELSE normal' = Append(normal, c) /\ UNCHANGED high
Answer(outcome) == [st |-> outcome, command |-> NoCommand]
Refuse(w) == call' = [call EXCEPT ![w] = Answer("failed")]

(* submit: a cleanup waits for room, the others are refused at once *)
Enqueue(w) ==
    LET c == call[w].command IN
    /\ call[w].st = "drawn"
    /\ UNCHANGED <<worker, cmd, wpc, device, spam, generation, sequence>>
    /\ \/ /\ worker = "running" /\ Push(c) /\ UNCHANGED faults
          /\ call' = [call EXCEPT ![w].st = "sent"]
       \/ worker = "gone" /\ Refuse(w) /\ UNCHANGED <<high, normal, faults>>
       \/ /\ worker = "running" /\ Full(c) /\ Refuse(w)
          /\ IF c.kind = "release" THEN faults > 0 /\ faults' = faults - 1  \* send_timeout
                                   ELSE UNCHANGED faults
          /\ UNCHANGED <<high, normal>>

(* press_key: only cycles and releases have their sequence compared, so a press
   draws none here and enters its queue, or is refused, in one step *)
SubmitPress(w, key) ==
    LET c == [writer |-> w, kind |-> "press", key |-> key, shift |-> FALSE,
              ticket |-> 0, sequence |-> 0]
    IN
    /\ \/ /\ worker = "running" /\ Push(c)
          /\ call' = [call EXCEPT ![w] = [st |-> "sent", command |-> c]]
       \/ (worker = "gone" \/ Full(c)) /\ Refuse(w) /\ UNCHANGED <<high, normal>>
    /\ UNCHANGED <<worker, cmd, wpc, device, spam, generation, sequence, faults>>

(* recv_timeout gives up; the command stays where it is *)
AckTimeout(w) ==
    /\ call[w].st = "sent" /\ faults > 0
    /\ Refuse(w) /\ faults' = faults - 1
    /\ UNCHANGED <<worker, high, normal, cmd, wpc, device, spam, generation, sequence>>

(* ------------------------------- worker ------------------------------- *)

(* command.ack.send: the answer is lost on a writer that no longer waits *)
Ack(c, outcome) ==
    call' = IF call[c.writer] = [st |-> "sent", command |-> c]
            THEN [call EXCEPT ![c.writer] = Answer(outcome)] ELSE call

Done(outcome) ==
    /\ Ack(cmd, outcome)
    /\ cmd' = NoCommand /\ wpc' = "idle"

Requested == generation # cmd.ticket                 \* SpamCancellation::requested

(* SpamState and what it says is down *)
Held(s) == (IF s.key = NoKey THEN {} ELSE {s.key})
           \union (IF s.mouse THEN {Mouse} ELSE {})
HeldSpam(s) == Held(s) \union (IF s.shift THEN {Shift} ELSE {})
Forget(s, up) == [key |-> IF s.key \in up THEN NoKey ELSE s.key,
                  shift |-> s.shift /\ Shift \notin up,
                  mouse |-> s.mouse /\ Mouse \notin up,
                  cutoff |-> s.cutoff]

(* Key-up events for some inputs of SpamState, in release_cycle_inputs and
   release_spam_inputs: those in bad fail, and then device.release tries
   everything once more and what it cannot release stays down. *)
KeyUps(inputs, bad) ==
    IF bad = {}
    THEN device' = device \ inputs /\ UNCHANGED faults
    ELSE /\ faults > 0 /\ faults' = faults - 1
         /\ \E left \in SUBSET (device \ (inputs \ bad)) : device' = left

(* release_cycle_inputs and release_spam_inputs *)
ReleaseCycleInputs(bad) ==
    KeyUps(Held(spam), bad) /\ spam' = Forget(spam, Held(spam) \ bad)
ReleaseSpamKeepsShift(bad, cutoff) ==
    /\ KeyUps(Held(spam), bad)
    /\ spam' = [Forget(spam, HeldSpam(spam) \ bad) EXCEPT !.cutoff = cutoff]
ReleaseSpamInputs(bad, cutoff) ==
    /\ KeyUps(HeldSpam(spam), bad)
    /\ spam' = [Forget(spam, HeldSpam(spam) \ bad) EXCEPT !.cutoff = cutoff]

(* an emission fails; device.release(None, true) releases what it can *)
EmissionFails ==
    /\ faults > 0 /\ faults' = faults - 1
    /\ \E left \in SUBSET device : device' = left

Cancelled(c) == c.sequence <= spam.cutoff \/ generation # c.ticket
CutoffOf(c) == Max({spam.cutoff, c.sequence})

(* execute_command, and spam_cycle up to its first sleep *)
SkipCycle(c) ==                                     \* cancelled, or overdue
    /\ c.kind = "cycle" /\ Ack(c, "skipped")
    /\ UNCHANGED <<cmd, wpc, device, spam, faults>>
StartCycle(c) ==
    /\ c.kind = "cycle" /\ ~Cancelled(c)
    /\ \E bad \in SUBSET Held(spam) :
         /\ ReleaseCycleInputs(bad)
         /\ IF bad = {} THEN cmd' = c /\ wpc' = "rearm" /\ UNCHANGED call
                        ELSE Ack(c, "failed") /\ UNCHANGED <<cmd, wpc>>
(* press_key: down, 1 ms, up *)
PressKey(c) ==
    /\ c.kind = "press"
    /\ UNCHANGED spam
    /\ \/ /\ c.key = spam.key /\ Ack(c, "failed")   \* the spammer holds it
          /\ UNCHANGED <<cmd, wpc, device, faults>>
       \/ /\ c.key # spam.key
          /\ device' = device \union {c.key} /\ cmd' = c /\ wpc' = "press"
          /\ UNCHANGED <<call, faults>>
       \/ /\ c.key # spam.key /\ faults > 0 /\ faults' = faults - 1
          /\ \E up \in SUBSET {c.key, Mouse} : device' = device \ up
          /\ Ack(c, "failed") /\ UNCHANGED <<cmd, wpc>>
PressKeyUp ==
    /\ wpc = "press"
    /\ \/ device' = device \ {cmd.key} /\ Done("ok") /\ UNCHANGED faults
       \/ /\ faults > 0 /\ faults' = faults - 1
          /\ \E up \in SUBSET {cmd.key, Mouse} : device' = device \ up
          /\ Done("failed")
    /\ UNCHANGED <<worker, high, normal, spam, generation, sequence>>
ReleaseSpam(c) ==
    /\ c.kind = "release"
    /\ \E bad \in SUBSET HeldSpam(spam) :
         /\ ReleaseSpamInputs(bad, CutoffOf(c))
         /\ Ack(c, IF bad = {} THEN "ok" ELSE "failed")
    /\ UNCHANGED <<cmd, wpc>>
Execute(c) == SkipCycle(c) \/ StartCycle(c) \/ PressKey(c) \/ ReleaseSpam(c)

(* worker_loop: the high queue always goes first *)
WorkerTakes ==
    /\ worker = "running" /\ wpc = "idle"
    /\ \/ high # <<>> /\ high' = Tail(high) /\ UNCHANGED normal /\ Execute(Head(high))
       \/ /\ high = <<>> /\ normal # <<>> /\ normal' = Tail(normal) /\ UNCHANGED high
          /\ Execute(Head(normal))
    /\ UNCHANGED <<worker, generation, sequence>>

(* spam_cycle: a cancelled cycle takes its inputs back *)
CycleCancelled ==
    /\ wpc \in {"rearm", "modifier", "settle"} /\ Requested
    /\ \E bad \in SUBSET HeldSpam(spam) :
         /\ ReleaseSpamInputs(bad, spam.cutoff)
         /\ Done(IF bad = {} THEN "skipped" ELSE "failed")
    /\ UNCHANGED <<worker, high, normal, generation, sequence>>
Continue(at, to) == wpc = at /\ ~Requested /\ wpc' = to /\ UNCHANGED <<cmd, call>>
CycleFails(at) == wpc = at /\ ~Requested /\ EmissionFails /\ Done("failed")

(* reconcile_spam_modifier *)
CycleModifierOnlyReleases ==
    /\ Continue("rearm", "modifier")
    /\ spam' = [spam EXCEPT !.shift = cmd.shift]
    /\ device' = IF cmd.shift THEN device ELSE device \ {Shift}
    /\ UNCHANGED <<worker, high, normal, generation, sequence, faults>>
CycleModifier ==
    /\ \/ /\ Continue("rearm", "modifier")
          /\ spam' = [spam EXCEPT !.shift = cmd.shift]
          /\ device' = IF spam.shift = cmd.shift THEN device
                       ELSE IF cmd.shift THEN device \union {Shift} ELSE device \ {Shift}
          /\ UNCHANGED faults
       \/ /\ CycleFails("rearm") /\ spam.shift # cmd.shift /\ UNCHANGED spam
    /\ UNCHANGED <<worker, high, normal, generation, sequence>>
CycleKeyDown ==
    /\ \/ Continue("modifier", "settle") /\ device' = device \union {cmd.key} /\ UNCHANGED faults
       \/ CycleFails("modifier")
    /\ spam' = [spam EXCEPT !.key = cmd.key]
    /\ UNCHANGED <<worker, high, normal, generation, sequence>>
CycleMouseDown ==
    /\ \/ Continue("settle", "hold") /\ device' = device \union {Mouse} /\ UNCHANGED faults
       \/ CycleFails("settle")
    /\ spam' = [spam EXCEPT !.mouse = TRUE]
    /\ UNCHANGED <<worker, high, normal, generation, sequence>>
CycleMouseUp ==
    /\ wpc = "hold"
    /\ \/ /\ device' = device \ {Mouse} /\ spam' = [spam EXCEPT !.mouse = FALSE]
          /\ Done("ok") /\ UNCHANGED faults
       \/ EmissionFails /\ Done("failed") /\ UNCHANGED spam
    /\ UNCHANGED <<worker, high, normal, generation, sequence>>

(* shutdown: at the next turn of worker_loop; the queues are dropped, so every
   waiting writer gets an error, and the device is destroyed *)
WorkerShutdown ==
    /\ worker = "running" /\ wpc = "idle"
    /\ worker' = "gone" /\ high' = <<>> /\ normal' = <<>>
    /\ device' = {} /\ spam' = Forget(spam, HeldSpam(spam))
    /\ call' = [w \in Writers |-> IF call[w].st = "sent" THEN Answer("failed") ELSE call[w]]
    /\ UNCHANGED <<cmd, wpc, generation, sequence, faults>>

WorkerStep == \/ WorkerTakes \/ PressKeyUp \/ CycleCancelled \/ CycleModifier
              \/ CycleKeyDown \/ CycleMouseDown \/ CycleMouseUp
CallStep == \E w \in Writers : Enqueue(w) \/ AckTimeout(w)

InputTypeOK ==
    /\ worker \in {"running", "gone"}
    /\ high \in Seq(Command) /\ Len(high) <= HighCapacity
    /\ normal \in Seq(Command) /\ Len(normal) <= NormalCapacity
    /\ cmd \in Command \union {NoCommand}
    /\ wpc \in {"idle", "press", "rearm", "modifier", "settle", "hold"}
    /\ device \subseteq Inputs
    /\ spam \in [key : Labels \union {NoKey}, shift : BOOLEAN, mouse : BOOLEAN, cutoff : Nat]
    /\ generation \in Nat /\ sequence \in Nat
    /\ call \in [Writers -> [st : CallStates, command : Command \union {NoCommand}]]
    /\ faults \in 0..MaxFaults
=============================================================================
