----------------------------- MODULE CombatProofs -----------------------------
(* Proofs about the input worker and the spammer: every click is the intended one, a    *)
(* release is final, and an active key has its timer or its cycle, for any keys, queue  *)
(* capacities, presses, cycles, potions, sessions and failures (ReleaseIsFinal: for one *)
(* failure).                                                                            *)
(*                                                                                      *)
(* The invariant follows the age of a cycle. Every request of a release draws a new     *)
(* generation, so a cycle that may still click carries the present one (Fresh); there   *)
(* is at most one, of the current session (FreshInv), and none while the loop waits for *)
(* a release or has heard of one (TicketInv). The worker never forgets a Shift or a     *)
(* button that is down (KnownInv), hence a release that succeeds leaves neither         *)
(* (CalmInv). The steps are sorted into few kinds by what they do to the calls and the  *)
(* device ("the kinds of steps"), and each part is proved once per kind.                *)
EXTENDS Spammer, SequenceTheorems, TLAPS

(* ------------------------------- commands --------------------------------- *)

CycleSteps == {"rearm", "modifier", "settle", "hold"}
(* Who asks for what: the loop for releases, a cycle's thread for its cycle, with Shift as its
   trigger wants it, the others for presses. *)
Asked(c) ==
    CASE c.kind = "release" -> c.writer = "loop"
      [] c.kind = "cycle" -> /\ \E s \in Sessions : c.writer = CycleOf[s]
                             /\ c.key \in Labels /\ c.shift = (c.key \in ShiftKeys)
      [] OTHER -> c.key \in Labels /\ c.writer # "loop" /\ \A s \in Sessions : c.writer # CycleOf[s]
Commands == {c \in Command : Asked(c)}
HighCommands == {c \in Commands : HighPriority(c)}
NormalCommands == {c \in Commands : ~HighPriority(c)}

QueueTypes ==
    /\ high \in Seq(HighCommands) /\ Len(high) <= HighCapacity
    /\ normal \in Seq(NormalCommands) /\ Len(normal) <= NormalCapacity
DeviceTypes ==
    /\ worker \in {"running", "gone"}
    /\ wpc \in {"idle", "press"} \union CycleSteps
    /\ wpc = "idle" => cmd = NoCommand
    /\ wpc = "press" => cmd \in Commands /\ cmd.kind = "press"
    /\ wpc \in CycleSteps => cmd \in Commands /\ cmd.kind = "cycle"
    /\ device \subseteq Inputs
    /\ spam \in [key : Labels \union {NoKey}, shift : BOOLEAN, mouse : BOOLEAN, cutoff : Nat]
    /\ faults \in 0..MaxFaults
CallTypes ==
    /\ generation \in Nat /\ sequence \in Nat
    /\ DOMAIN call = Writers
    /\ \A w \in Writers :
         /\ call[w] \in [st : CallStates, command : Commands \union {NoCommand}]
         /\ InCall(w) => call[w].command \in Commands /\ call[w].command.writer = w
         /\ call[w].st = "drawn" => call[w].command.kind # "press"

LoopPlaces == {"off", "select", "readying", "cancel", "pause", "equip", "ending", "joining", "dropping"}
StdoutLine == [type : {"ready", "fatal", "trigger"}, key : Keys \union {NoKey}, held : BOOLEAN]
Tasks == [st : {"none", "spawned", "running"}, key : Keys \union {NoKey}, ticket : Nat]
LoopTypes ==
    /\ loop \in LoopPlaces /\ active \in Keys \union {NoKey} /\ held \in Seq(Keys)
    /\ armed \in BOOLEAN /\ ready \in BOOLEAN /\ stop \in BOOLEAN /\ gearOn \in BOOLEAN
    /\ quiet \in BOOLEAN /\ pending \in Seq(Seq(Labels))
    /\ task \in [Sessions -> Tasks] /\ equips \in [Sessions -> Seq(Labels)]
    /\ \A s \in Sessions : task[s].st = "spawned" => task[s].key \in Keys
    /\ session \in 0..MaxSessions /\ left \in [Bounds -> Nat]
    /\ session + left.sessions <= MaxSessions
    /\ loop # "off" => session \in Sessions
InputdTypes ==
    /\ inputd \in {"gone", "starting", "up"}
    /\ lines \in Seq(StdoutLine) /\ phys \subseteq Keys /\ passed \subseteq Keys
    /\ \A i \in DOMAIN lines : lines[i].type = "trigger" => lines[i].key \in Keys

(* --------------------------------- tickets -------------------------------- *)

Blocked == loop \in {"readying", "cancel", "pause", "ending", "dropping"}
(* Which calls are out: the loop waits for its release, a cycle runs while its call is out, only
   the current session may have a cycle that has not started. *)
Slots ==
    /\ call["loop"].st # "none" <=> Blocked
    /\ loop = "pause" => pending # <<>>
    /\ loop # "off" => worker = "running"
    /\ \A s \in Sessions :
         /\ call[CycleOf[s]].st # "none" <=> task[s].st = "running"
         /\ task[s].st = "spawned" => s = session /\ loop \notin {"joining", "dropping", "off"}
         /\ s > session => task[s].st = "none"

TicketsUpTo(n) ==
    /\ \A s \in Sessions : task[s].st = "spawned" => task[s].ticket <= n
    /\ \A s \in Sessions : InCall(CycleOf[s]) => call[CycleOf[s]].command.ticket <= n
    /\ \A i \in DOMAIN normal : normal[i].kind = "cycle" => normal[i].ticket <= n
    /\ wpc \in CycleSteps => cmd.ticket <= n
(* No cycle that exists may still click. *)
Stale == TicketsUpTo(generation - 1)
(* The loop may dispatch cycles, or has. *)
Live == loop \in {"select", "equip"} /\ ready
TicketInv ==
    /\ generation >= 1 /\ TicketsUpTo(generation)
    /\ ~Live \/ quiet => Stale

(* ------------------------------ the device -------------------------------- *)

Calm ==
    /\ spam.key = NoKey /\ ~spam.mouse /\ ~spam.shift
    /\ Shift \notin device /\ Mouse \notin device /\ wpc \notin CycleSteps
(* The worker knows of every Shift and button that is down. *)
KnownInv ==
    /\ Shift \in device => spam.shift
    /\ Mouse \in device => spam.mouse
CalmInv ==
    /\ KnownInv
    /\ quiet \/ call["loop"].st = "ok" => Calm

(* ------------------------------- fresh cycles ----------------------------- *)

Fresh(c) == c.kind = "cycle" /\ c.ticket = generation
FreshAt(i) == i \in DOMAIN normal /\ Fresh(normal[i])
Own == call[CycleOf[session]]
OwnIs(c) == Own.st = "failed" \/ (Own.st = "sent" /\ Own.command = c)
(* At most one cycle may still click, it is of the current session, and its answer is still to come
   unless the thread has given up. *)
FreshInv ==
    /\ \A s \in Sessions : InCall(CycleOf[s]) /\ Fresh(call[CycleOf[s]].command) => s = session
    /\ \A i \in DOMAIN normal : FreshAt(i) =>
         /\ session \in Sessions /\ OwnIs(normal[i]) /\ ~Fresh(cmd)
         /\ \A j \in DOMAIN normal : FreshAt(j) => i = j
    /\ Fresh(cmd) => session \in Sessions /\ OwnIs(cmd)
NoFresh == ~Fresh(cmd) /\ \A i \in DOMAIN normal : ~FreshAt(i)

ReleaseAt(i) == i \in DOMAIN high /\ high[i].kind = "release"
(* The release that the loop waits for is the last one in its queue. *)
ReleaseInv ==
    /\ \A i \in DOMAIN high : ReleaseAt(i) => high[i].sequence < sequence
    /\ InCall("loop") => call["loop"].command.sequence < sequence
    /\ call["loop"].st = "drawn" =>
         \A i \in DOMAIN high : ReleaseAt(i) => high[i].sequence < call["loop"].command.sequence
    /\ call["loop"].st = "sent" =>
         \A i, j \in DOMAIN high : high[i] = call["loop"].command /\ ReleaseAt(j) => j <= i
    /\ Live \/ call["loop"].st = "ok" => \A i \in DOMAIN high : ~ReleaseAt(i)

(* While a cycle may click the worker knows whether Shift is down, unless the last one failed, and
   what it holds down is what that cycle wants. *)
ShiftInv ==
    /\ Live /\ wpc \in CycleSteps => Fresh(cmd)
    /\ Live => (Shift \in device <=> spam.shift) \/ (Own.st = "failed" /\ NoFresh)
    /\ Fresh(cmd) /\ wpc \in {"modifier", "settle", "hold"} => spam.shift = cmd.shift
    /\ Fresh(cmd) /\ wpc = "settle" => cmd.key \in device

(* -------------------------------- the loop -------------------------------- *)

(* With an active key there is a timer or a cycle, never both; without one all is quiet. *)
WorkInv ==
    /\ loop \in {"off", "ending", "joining", "dropping"} => active = NoKey /\ held = <<>> /\ ~armed /\ ~ready
    /\ loop \notin {"off", "ending", "joining", "dropping"} /\ active # NoKey =>
         armed = (task[session].st = "none")
    /\ armed => task[session].st = "none"
    /\ Live /\ active = NoKey => quiet

(* A gear task with a call out has keys left; only a dropped loop leaves one behind. *)
GearInv ==
    /\ \A s \in Sessions : call[GearOf[s]].st # "none" => equips[s] # <<>>
    /\ loop \in {"select", "readying", "cancel", "pause"} => equips[session] = <<>>
    /\ \A s \in Sessions : s > session => equips[s] = <<>>

IsHeldOnce == \A i, j \in DOMAIN held : held[i] = held[j] => i = j
About(i, k) == i \in DOMAIN lines /\ lines[i].type = "trigger" /\ lines[i].key = k
(* What the loop will hold when it has read all lines. *)
WillHold(k) ==
    \/ \E i \in DOMAIN lines : About(i, k) /\ lines[i].held /\ \A j \in DOMAIN lines : j > i => ~About(j, k)
    \/ IsHeld(k) /\ \A j \in DOMAIN lines : ~About(j, k)
LinesInv ==
    /\ passed \subseteq phys
    /\ active # NoKey => IsHeld(active)
    /\ inputd = "starting" => lines = <<>> /\ held = <<>> /\ ~ready
    /\ inputd = "up" => \A k \in Keys : WillHold(k) => k \in phys /\ k \notin passed
    /\ inputd = "up" /\ loop \notin {"off", "ending", "joining", "dropping"} /\ ~ready => lines # <<>> /\ lines[1].type = "ready"

(* With one failure, the two releases at the end of a session leave nothing behind. *)
RestInv ==
    /\ call["loop"].st # "skipped"
    /\ loop = "off" => Calm
    /\ loop = "dropping" => Calm \/ (faults = 0 /\ call["loop"].st # "failed")
    /\ loop = "joining" => Calm \/ faults = 0
    /\ loop = "ending" /\ call["loop"].st = "failed" => Calm \/ faults = 0

(* ------------------------------- sequences -------------------------------- *)

(* A queue without its first command (rx.recv). *)
LEMMA Taken ==
    ASSUME NEW S, NEW s \in Seq(S), s # <<>>
    PROVE  /\ Tail(s) \in Seq(S) /\ Head(s) \in S /\ Head(s) = s[1] /\ 1 \in DOMAIN s
           /\ Len(Tail(s)) = Len(s) - 1 /\ Len(s) \in Nat
           /\ \A i \in DOMAIN Tail(s) : i \in Nat /\ i + 1 \in DOMAIN s /\ Tail(s)[i] = s[i + 1]
           /\ \A i \in DOMAIN s : i \in Nat
  OBVIOUS

(* A queue with one command more (tx.try_send). *)
LEMMA Added ==
    ASSUME NEW S, NEW s \in Seq(S), NEW e \in S
    PROVE  /\ Append(s, e) \in Seq(S) /\ Len(Append(s, e)) = Len(s) + 1 /\ Len(s) \in Nat
           /\ DOMAIN s = 1..Len(s) /\ DOMAIN Append(s, e) = 1..(Len(s) + 1)
           /\ \A i \in DOMAIN s : i \in Nat /\ i <= Len(s) /\ i \in DOMAIN Append(s, e) /\ Append(s, e)[i] = s[i]
           /\ Append(s, e)[Len(s) + 1] = e
           /\ \A i \in DOMAIN Append(s, e) : i \in DOMAIN s \/ i = Len(s) + 1
  OBVIOUS

(* ------------------------- what the types tell ---------------------------- *)

(* What the kind of a command tells of its writer and its queue (WorkerCommand). *)
LEMMA CommandFacts ==
    ASSUME NEW c \in Commands
    PROVE  /\ c # NoCommand /\ c.writer \in Writers /\ c.kind \in Kinds /\ c.ticket \in Nat /\ c.sequence \in Nat
           /\ c.key \in Labels \union {NoKey} /\ c.shift \in BOOLEAN
           /\ c.kind # "release" => c.key \in Labels
           /\ c.kind = "release" <=> c.writer = "loop"
           /\ c.kind = "cycle" <=> \E s \in Sessions : c.writer = CycleOf[s]
           /\ c.kind = "cycle" => c.shift = (c.key \in ShiftKeys)
           /\ c \in HighCommands <=> HighPriority(c)
           /\ c \in NormalCommands <=> ~HighPriority(c)
           /\ c \in HighCommands => c.kind # "cycle"
           /\ c \in NormalCommands => c.kind # "release"
  <1>1. c.writer \in Writers /\ c.kind \in Kinds
    BY DEF Commands, Command
  <1>2. \A s \in Sessions : CycleOf[s] # "loop" /\ CycleOf[s] # "autopot"
    BY ThreadsAssumption
  <1>3. c.kind = "release" <=> c.writer = "loop"
    BY <1>1, <1>2 DEF Commands, Asked, Kinds
  <1>4. c.kind = "cycle" <=> \E s \in Sessions : c.writer = CycleOf[s]
    BY <1>1, <1>2 DEF Commands, Asked, Kinds
  <1>5. c # NoCommand
    BY <1>1, InputAssumption DEF NoCommand
  <1>6. /\ c.kind # "release" => c.key \in Labels
        /\ c.kind = "cycle" => c.shift = (c.key \in ShiftKeys)
    BY <1>1 DEF Commands, Asked, Kinds
  <1>7. c \in HighCommands => c.kind # "cycle"
    BY <1>2, <1>4 DEF HighCommands, HighPriority
  <1> QED BY <1>1, <1>3, <1>4, <1>5, <1>6, <1>7 DEF Commands, Command, HighCommands, NormalCommands, HighPriority

(* Between two commands the worker has none, and none is fresh. *)
LEMMA NothingIsNoCommand == NoCommand \notin Commands /\ ~Fresh(NoCommand)
  BY CommandFacts DEF Fresh, NoCommand

(* The loop, autopot and the pool threads are different writers. *)
LEMMA Threads ==
    /\ "loop" \in Writers /\ "autopot" \in Writers /\ "loop" # "autopot"
    /\ \A s \in Sessions : /\ CycleOf[s] \in Writers /\ GearOf[s] \in Writers
                           /\ CycleOf[s] # "loop" /\ CycleOf[s] # "autopot"
                           /\ GearOf[s] # "loop" /\ GearOf[s] # "autopot"
                           /\ \A t \in Sessions : CycleOf[s] # GearOf[t] /\ (s # t => CycleOf[s] # CycleOf[t])
  BY ThreadsAssumption

(* What an acknowledgement changes: the call that waits for this very command, if any does. *)
Answers(c, outcome) ==
    /\ \A w \in Writers : call'[w] = IF w = c.writer /\ call[w].st = "sent" /\ call[w].command = c
                                     THEN [st |-> outcome, command |-> NoCommand] ELSE call[w]
    /\ DOMAIN call' = Writers

(* An acknowledgement reaches the writer only while it waits for this command (command.ack.send). *)
LEMMA AckAnswers ==
    ASSUME CallTypes, NEW c \in Commands, NEW outcome, Ack(c, outcome)
    PROVE  Answers(c, outcome)
  <1>1. c.writer \in Writers
    BY CommandFacts
  <1>2. call[c.writer] \in [st : CallStates, command : Commands \union {NoCommand}]
    BY <1>1 DEF CallTypes
  <1>3. call[c.writer] = [st |-> "sent", command |-> c] <=> call[c.writer].st = "sent" /\ call[c.writer].command = c
    BY <1>2
  <1> QED BY <1>1, <1>3 DEF Ack, Answer, Answers, CallTypes

(* It keeps the types of the calls. *)
LEMMA AnswersTypes ==
    ASSUME CallTypes, NEW c \in Commands, NEW outcome \in {"ok", "skipped", "failed"}, Answers(c, outcome),
           UNCHANGED <<generation, sequence>>
    PROVE  CallTypes'
  BY DEF CallTypes, Answers, CallStates, InCall

(* ------------------------- the steps of the worker ------------------------ *)

Outcomes == {"ok", "skipped", "failed"}
SpamStates == [key : Labels \union {NoKey}, shift : BOOLEAN, mouse : BOOLEAN, cutoff : Nat]

(* Key-up events only release; one that fails spends a failure (release_spam_inputs). *)
LEMMA KeyUpsFacts ==
    ASSUME DeviceTypes, NEW inputs, NEW bad \in SUBSET inputs, KeyUps(inputs, bad)
    PROVE  /\ device' \subseteq device \ (inputs \ bad) /\ faults' \in 0..MaxFaults
           /\ bad = {} => device' = device \ inputs /\ faults' = faults
           /\ bad # {} => faults > 0 /\ faults' = faults - 1
  <1>1. faults \in Nat /\ MaxFaults \in Nat /\ faults <= MaxFaults
    BY InputAssumption DEF DeviceTypes
  <1>2. CASE bad = {}
    BY <1>1, <1>2 DEF KeyUps, DeviceTypes
  <1>3. CASE bad # {}
    <2>1. faults > 0 /\ faults' = faults - 1 /\ \E rest \in SUBSET (device \ (inputs \ bad)) : device' = rest
      BY <1>3 DEF KeyUps
    <2> QED BY <1>1, <1>3, <2>1
  <1> QED BY <1>2, <1>3

(* An emission that fails only releases (device.release). *)
LEMMA EmissionFacts ==
    ASSUME DeviceTypes, EmissionFails
    PROVE  device' \subseteq device /\ faults > 0 /\ faults' = faults - 1 /\ faults' \in 0..MaxFaults
  <1>1. faults \in Nat /\ MaxFaults \in Nat /\ faults <= MaxFaults
    BY InputAssumption DEF DeviceTypes
  <1> QED BY <1>1 DEF EmissionFails

(* What SpamState forgets is what was released. *)
LEMMA ForgetFacts ==
    ASSUME NEW s \in SpamStates, NEW up
    PROVE  /\ Forget(s, up) \in SpamStates
           /\ Forget(s, up).key = (IF s.key \in up THEN NoKey ELSE s.key)
           /\ Forget(s, up).shift = (s.shift /\ Shift \notin up)
           /\ Forget(s, up).mouse = (s.mouse /\ Mouse \notin up)
  BY DEF Forget, SpamStates

(* cancelled_through is a sequence number. *)
LEMMA CutoffTypes ==
    ASSUME DeviceTypes, NEW c \in Commands
    PROVE  CutoffOf(c) \in Nat
  <1>1. spam.cutoff \in Nat /\ c.sequence \in Nat
    BY CommandFacts DEF DeviceTypes
  <1>2. \E x \in {spam.cutoff, c.sequence} : \A y \in {spam.cutoff, c.sequence} : x >= y
    BY <1>1
  <1> QED BY <1>1, <1>2 DEF CutoffOf, Max

(* What is held is a key of the tools, Shift or the button. *)
LEMMA HeldFacts ==
    ASSUME DeviceTypes
    PROVE  /\ Shift \notin Held(spam) /\ (Shift \in HeldSpam(spam) <=> spam.shift)
           /\ (Mouse \in Held(spam) <=> spam.mouse) /\ (Mouse \in HeldSpam(spam) <=> spam.mouse)
           /\ spam.key # NoKey => spam.key \in Held(spam) /\ spam.key \in HeldSpam(spam)
           /\ NoKey \notin HeldSpam(spam) /\ Held(spam) \subseteq HeldSpam(spam)
           /\ spam \in SpamStates
  BY InputAssumption DEF DeviceTypes, Held, HeldSpam, SpamStates, Shift, Mouse, NoKey

(* The two ways of releasing.  With a failure the device may have lost anything, and what failed
   is still in SpamState. *)
LEMMA ReleaseCycleFacts ==
    ASSUME DeviceTypes, KnownInv, NEW bad \in SUBSET Held(spam), ReleaseCycleInputs(bad)
    PROVE  /\ device' \subseteq device /\ spam' \in SpamStates /\ faults' \in 0..MaxFaults
           /\ spam'.shift = spam.shift /\ (Mouse \in device' => spam'.mouse)
           /\ bad = {} => (Shift \in device' <=> Shift \in device) /\ spam'.key = NoKey /\ ~spam'.mouse /\ faults' = faults
           /\ bad # {} => faults > 0 /\ faults' = faults - 1
           /\ Held(spam) = {} => bad = {} /\ spam'.key = spam.key /\ spam'.mouse = spam.mouse
  <1>1. /\ device' \subseteq device \ (Held(spam) \ bad) /\ faults' \in 0..MaxFaults
        /\ bad = {} => device' = device \ Held(spam) /\ faults' = faults
        /\ bad # {} => faults > 0 /\ faults' = faults - 1
    BY KeyUpsFacts DEF ReleaseCycleInputs
  <1>2. /\ spam' \in SpamStates
        /\ spam'.key = (IF spam.key \in Held(spam) \ bad THEN NoKey ELSE spam.key)
        /\ spam'.shift = (spam.shift /\ Shift \notin Held(spam) \ bad)
        /\ spam'.mouse = (spam.mouse /\ Mouse \notin Held(spam) \ bad)
    BY HeldFacts, ForgetFacts DEF ReleaseCycleInputs
  <1> QED BY <1>1, <1>2, HeldFacts DEF KnownInv, SpamStates

(* A release without an error leaves nothing down (release_spam_inputs). *)
LEMMA ReleaseSpamFacts ==
    ASSUME DeviceTypes, KnownInv, NEW cutoff \in Nat, NEW bad \in SUBSET HeldSpam(spam), ReleaseSpamInputs(bad, cutoff)
    PROVE  /\ device' \subseteq device /\ spam' \in SpamStates /\ faults' \in 0..MaxFaults
           /\ (Shift \in device' => spam'.shift) /\ (Mouse \in device' => spam'.mouse)
           /\ bad = {} => /\ spam'.key = NoKey /\ ~spam'.shift /\ ~spam'.mouse /\ faults' = faults
                          /\ Shift \notin device' /\ Mouse \notin device'
           /\ bad # {} => faults > 0 /\ faults' = faults - 1
           /\ HeldSpam(spam) = {} => bad = {}
  <1>1. /\ device' \subseteq device \ (HeldSpam(spam) \ bad) /\ faults' \in 0..MaxFaults
        /\ bad = {} => device' = device \ HeldSpam(spam) /\ faults' = faults
        /\ bad # {} => faults > 0 /\ faults' = faults - 1
    BY KeyUpsFacts DEF ReleaseSpamInputs
  <1>2. Forget(spam, HeldSpam(spam) \ bad) \in SpamStates
    BY HeldFacts, ForgetFacts
  <1>3. /\ spam' \in SpamStates
        /\ spam'.key = (IF spam.key \in HeldSpam(spam) \ bad THEN NoKey ELSE spam.key)
        /\ spam'.shift = (spam.shift /\ Shift \notin HeldSpam(spam) \ bad)
        /\ spam'.mouse = (spam.mouse /\ Mouse \notin HeldSpam(spam) \ bad)
    <2>1. spam' = [Forget(spam, HeldSpam(spam) \ bad) EXCEPT !.cutoff = cutoff]
      BY DEF ReleaseSpamInputs
    <2>2. /\ Forget(spam, HeldSpam(spam) \ bad).key = (IF spam.key \in HeldSpam(spam) \ bad THEN NoKey ELSE spam.key)
          /\ Forget(spam, HeldSpam(spam) \ bad).shift = (spam.shift /\ Shift \notin HeldSpam(spam) \ bad)
          /\ Forget(spam, HeldSpam(spam) \ bad).mouse = (spam.mouse /\ Mouse \notin HeldSpam(spam) \ bad)
      BY HeldFacts, ForgetFacts
    <2> QED BY <1>2, <2>1, <2>2 DEF SpamStates
  <1> QED BY <1>1, <1>3, HeldFacts DEF KnownInv, SpamStates

(* What execute_command does with a command, up to the first sleep. *)
Skips(c) ==
    c.kind = "cycle" /\ Answers(c, "skipped") /\ UNCHANGED <<cmd, wpc, device, spam, faults>>
Starts(c) ==
    /\ c.kind = "cycle" /\ Fresh(c) /\ cmd' = c /\ wpc' = "rearm" /\ UNCHANGED <<call, faults>>
    /\ device' \subseteq device /\ spam' \in SpamStates /\ spam'.shift = spam.shift
    /\ (Shift \in device' <=> Shift \in device) /\ (Mouse \in device' => spam'.mouse)
FailsToStart(c) ==
    /\ c.kind = "cycle" /\ Fresh(c) /\ Answers(c, "failed") /\ UNCHANGED <<cmd, wpc>>
    /\ device' \subseteq device /\ spam' \in SpamStates /\ spam'.shift = spam.shift /\ (Mouse \in device' => spam'.mouse)
    /\ faults > 0 /\ faults' = faults - 1 /\ Held(spam) # {}
Presses(c) ==
    /\ c.kind = "press" /\ cmd' = c /\ wpc' = "press" /\ UNCHANGED <<call, spam, faults>>
    /\ device' = device \union {c.key} /\ c.key \in Labels
FailsToPress(c) ==
    /\ c.kind = "press" /\ Answers(c, "failed") /\ UNCHANGED <<cmd, wpc, spam>>
    /\ device' \subseteq device /\ (Shift \in device' <=> Shift \in device)
    /\ faults' = faults \/ (faults > 0 /\ faults' = faults - 1)
Releases(c, outcome) ==
    /\ c.kind = "release" /\ outcome \in {"ok", "failed"} /\ Answers(c, outcome) /\ UNCHANGED <<cmd, wpc>>
    /\ device' \subseteq device /\ spam' \in SpamStates
    /\ (Shift \in device' => spam'.shift) /\ (Mouse \in device' => spam'.mouse)
    /\ outcome = "ok" => /\ spam'.key = NoKey /\ ~spam'.shift /\ ~spam'.mouse /\ faults' = faults
                         /\ Shift \notin device' /\ Mouse \notin device'
    /\ outcome = "failed" => faults > 0 /\ faults' = faults - 1 /\ HeldSpam(spam) # {}
Executed(c) ==
    Skips(c) \/ Starts(c) \/ FailsToStart(c) \/ Presses(c) \/ FailsToPress(c) \/ \E o \in {"ok", "failed"} : Releases(c, o)

(* execute_command does one of these. *)
LEMMA ExecuteCases ==
    ASSUME DeviceTypes, CallTypes, KnownInv, NEW c \in Commands, Execute(c)
    PROVE  Executed(c)
  <1>1. CASE SkipCycle(c)
    <2>1. Skips(c)
      BY <1>1, AckAnswers DEF SkipCycle, Skips
    <2> QED BY <2>1 DEF Executed
  <1>2. CASE StartCycle(c)
    <2>1. c.kind = "cycle" /\ Fresh(c)
      BY <1>2 DEF StartCycle, Cancelled, Fresh
    <2>2. PICK bad \in SUBSET Held(spam) :
              /\ ReleaseCycleInputs(bad)
              /\ IF bad = {} THEN cmd' = c /\ wpc' = "rearm" /\ UNCHANGED call
                             ELSE Ack(c, "failed") /\ UNCHANGED <<cmd, wpc>>
      BY <1>2 DEF StartCycle
    <2>3. CASE bad = {}
      <3>1. Starts(c)
        BY <2>1, <2>2, <2>3, ReleaseCycleFacts DEF Starts
      <3> QED BY <3>1 DEF Executed
    <2>4. CASE bad # {}
      <3>1. FailsToStart(c)
        BY <2>1, <2>2, <2>4, ReleaseCycleFacts, AckAnswers DEF FailsToStart
      <3> QED BY <3>1 DEF Executed
    <2> QED BY <2>3, <2>4
  <1>3. CASE PressKey(c)
    <2>1. c.kind = "press" /\ c.key \in Labels /\ c.key # Shift
      BY <1>3, CommandFacts, InputAssumption DEF PressKey
    <2>2. CASE c.key = spam.key /\ Ack(c, "failed") /\ UNCHANGED <<cmd, wpc, device, faults>>
      <3>1. FailsToPress(c)
        BY <1>3, <2>1, <2>2, AckAnswers DEF FailsToPress, PressKey
      <3> QED BY <3>1 DEF Executed
    <2>3. CASE device' = device \union {c.key} /\ cmd' = c /\ wpc' = "press" /\ UNCHANGED <<call, faults>>
      <3>1. Presses(c)
        BY <1>3, <2>1, <2>3 DEF Presses, PressKey
      <3> QED BY <3>1 DEF Executed
    <2>4. CASE /\ faults > 0 /\ faults' = faults - 1 /\ Ack(c, "failed") /\ UNCHANGED <<cmd, wpc>>
               /\ \E up \in SUBSET {c.key, Mouse} : device' = device \ up
      <3>1. Answers(c, "failed") /\ UNCHANGED spam
        BY <1>3, <2>4, AckAnswers DEF PressKey
      <3>2. device' \subseteq device /\ (Shift \in device' <=> Shift \in device)
        BY <2>1, <2>4 DEF Shift, Mouse
      <3>3. FailsToPress(c)
        BY <2>1, <2>4, <3>1, <3>2 DEF FailsToPress
      <3> QED BY <3>3 DEF Executed
    <2> QED BY <1>3, <2>2, <2>3, <2>4 DEF PressKey
  <1>4. CASE ReleaseSpam(c)
    <2>1. PICK bad \in SUBSET HeldSpam(spam) :
              ReleaseSpamInputs(bad, CutoffOf(c)) /\ Ack(c, IF bad = {} THEN "ok" ELSE "failed")
      BY <1>4 DEF ReleaseSpam
    <2>2. CutoffOf(c) \in Nat
      BY CutoffTypes
    <2>3. CASE bad = {}
      <3>1. Answers(c, "ok")
        BY <2>1, <2>3, AckAnswers
      <3>2. Releases(c, "ok")
        BY <1>4, <2>1, <2>2, <2>3, <3>1, ReleaseSpamFacts DEF Releases, ReleaseSpam
      <3> QED BY <3>2 DEF Executed
    <2>4. CASE bad # {}
      <3>1. Answers(c, "failed")
        BY <2>1, <2>4, AckAnswers
      <3>2. Releases(c, "failed")
        BY <1>4, <2>1, <2>2, <2>4, <3>1, ReleaseSpamFacts DEF Releases, ReleaseSpam
      <3> QED BY <3>2 DEF Executed
    <2> QED BY <2>3, <2>4
  <1> QED BY <1>1, <1>2, <1>3, <1>4 DEF Execute

(* They keep the types, and the worker still knows what is down. *)
LEMMA ExecutedTypes ==
    ASSUME DeviceTypes, CallTypes, KnownInv, NEW c \in Commands, Executed(c), UNCHANGED <<worker, generation, sequence>>
    PROVE  DeviceTypes' /\ CallTypes' /\ KnownInv'
  <1> USE DEF SpamStates
  <1>0. faults \in Nat /\ faults <= MaxFaults /\ MaxFaults \in Nat
    BY InputAssumption DEF DeviceTypes
  <1>1. CASE Skips(c)
    BY <1>1, AnswersTypes DEF Skips, DeviceTypes, KnownInv
  <1>2. CASE Starts(c)
    BY <1>2 DEF Starts, DeviceTypes, KnownInv, CallTypes, InCall, CycleSteps
  <1>3. CASE FailsToStart(c)
    <2>1. CallTypes'
      BY <1>3, AnswersTypes DEF FailsToStart
    <2> QED BY <1>0, <1>3, <2>1 DEF FailsToStart, DeviceTypes, KnownInv
  <1>4. CASE Presses(c)
    <2>1. DeviceTypes' /\ KnownInv'
      BY <1>4, InputAssumption DEF Presses, DeviceTypes, KnownInv, Inputs, CycleSteps
    <2> QED BY <1>4, <2>1 DEF Presses, CallTypes, InCall
  <1>5. CASE FailsToPress(c)
    <2>1. CallTypes'
      BY <1>5, AnswersTypes DEF FailsToPress
    <2> QED BY <1>0, <1>5, <2>1 DEF FailsToPress, DeviceTypes, KnownInv
  <1>6. ASSUME NEW o \in {"ok", "failed"}, Releases(c, o)
        PROVE  DeviceTypes' /\ CallTypes' /\ KnownInv'
    <2>1. CallTypes'
      BY <1>6, AnswersTypes DEF Releases
    <2> QED BY <1>0, <1>6, <2>1 DEF Releases, DeviceTypes, KnownInv
  <1> QED BY <1>1, <1>2, <1>3, <1>4, <1>5, <1>6 DEF Executed

(* What the worker does between two sleeps of a command: it goes on with a cycle, or ends. *)
GoesOn ==
    /\ cmd.kind = "cycle" /\ Fresh(cmd) /\ UNCHANGED <<cmd, call, faults>>
    /\ \/ /\ wpc = "rearm" /\ wpc' = "modifier" /\ spam' = [spam EXCEPT !.shift = cmd.shift]
          /\ device' \subseteq device \union {Shift} /\ (Mouse \in device' <=> Mouse \in device)
          /\ Shift \in device' <=> IF spam.shift = cmd.shift THEN Shift \in device ELSE cmd.shift
       \/ /\ wpc = "modifier" /\ wpc' = "settle" /\ spam' = [spam EXCEPT !.key = cmd.key]
          /\ device' = device \union {cmd.key}
       \/ /\ wpc = "settle" /\ wpc' = "hold" /\ spam' = [spam EXCEPT !.mouse = TRUE]
          /\ device' = device \union {Mouse}
Ends(outcome) ==
    /\ outcome \in Outcomes /\ Answers(cmd, outcome) /\ cmd' = NoCommand /\ wpc' = "idle"
    /\ device' \subseteq device /\ spam' \in SpamStates
    /\ (Shift \in device' => spam'.shift) /\ (Mouse \in device' => spam'.mouse)
    /\ wpc = "press" => spam' = spam /\ (Shift \in device' <=> Shift \in device)
    /\ outcome = "ok" => spam'.shift = spam.shift /\ (Shift \in device' <=> Shift \in device)
    /\ outcome = "skipped" => ~Fresh(cmd)
    /\ faults' = faults \/ (faults > 0 /\ faults' = faults - 1)
MidStep == PressKeyUp \/ CycleCancelled \/ CycleModifier \/ CycleKeyDown \/ CycleMouseDown \/ CycleMouseUp

(* A cycle whose emission fails ends (spam_cycle). *)
LEMMA CycleFailsEnds ==
    ASSUME DeviceTypes, CallTypes, NEW at \in CycleSteps, wpc = at, EmissionFails, Done("failed"),
           spam' \in SpamStates, Shift \in device => spam'.shift, Mouse \in device => spam'.mouse
    PROVE  Ends("failed")
  <1>1. cmd \in Commands /\ wpc # "press"
    BY DEF DeviceTypes, CycleSteps
  <1>2. Answers(cmd, "failed") /\ cmd' = NoCommand /\ wpc' = "idle"
    BY <1>1, AckAnswers DEF Done
  <1> QED BY <1>1, <1>2, EmissionFacts DEF Ends, Outcomes

(* After a sleep of a command the worker goes on with it or ends it (spam_cycle, press_key). *)
LEMMA MidCases ==
    ASSUME DeviceTypes, CallTypes, KnownInv, MidStep
    PROVE  /\ wpc # "idle" /\ cmd \in Commands
           /\ GoesOn \/ \E o \in Outcomes : Ends(o)
           /\ UNCHANGED <<worker, high, normal, generation, sequence>>
  <1> USE DEF SpamStates
  <1>0. wpc # "idle" /\ cmd \in Commands /\ spam \in SpamStates
    BY DEF MidStep, PressKeyUp, CycleCancelled, CycleModifier, CycleKeyDown, CycleMouseDown, CycleMouseUp,
           Continue, CycleFails, DeviceTypes, CycleSteps
  <1>1. UNCHANGED <<worker, high, normal, generation, sequence>>
    BY DEF MidStep, PressKeyUp, CycleCancelled, CycleModifier, CycleKeyDown, CycleMouseDown, CycleMouseUp
  <1>2. \A at \in {"rearm", "modifier", "settle"} : Continue(at, wpc') =>
           /\ wpc = at /\ cmd.kind = "cycle" /\ Fresh(cmd) /\ UNCHANGED <<cmd, call>> /\ cmd.key \in Labels
           /\ cmd.shift \in BOOLEAN
    <2>1. SUFFICES ASSUME NEW at \in {"rearm", "modifier", "settle"}, Continue(at, wpc')
                   PROVE  /\ wpc = at /\ cmd.kind = "cycle" /\ Fresh(cmd) /\ UNCHANGED <<cmd, call>> /\ cmd.key \in Labels
                          /\ cmd.shift \in BOOLEAN
      OBVIOUS
    <2>2. cmd.kind = "cycle" /\ wpc = at
      BY <2>1 DEF Continue, DeviceTypes, CycleSteps
    <2> QED BY <1>0, <2>1, <2>2, CommandFacts DEF Continue, Requested, Fresh
  <1>3. CASE PressKeyUp
    <2>1. cmd.kind = "press" /\ cmd.key \in Labels /\ cmd.key # Shift
      BY <1>3, CommandFacts, InputAssumption DEF PressKeyUp, DeviceTypes, CycleSteps, Kinds
    <2>2. PICK o \in {"ok", "failed"} : Done(o)
      BY <1>3 DEF PressKeyUp
    <2>3. device' \subseteq device /\ (Shift \in device' <=> Shift \in device)
      BY <1>3, <2>1 DEF PressKeyUp, Shift, Mouse
    <2>4. faults' = faults \/ (faults > 0 /\ faults' = faults - 1)
      BY <1>3 DEF PressKeyUp
    <2>5. Answers(cmd, o) /\ cmd' = NoCommand /\ wpc' = "idle" /\ spam' = spam
      BY <1>0, <1>3, <2>2, AckAnswers DEF Done, PressKeyUp
    <2>6. Ends(o)
      BY <1>0, <2>2, <2>3, <2>4, <2>5 DEF Ends, Outcomes, KnownInv
    <2> QED BY <1>0, <1>1, <2>6 DEF Ends
  <1>4. CASE CycleCancelled
    <2>1. PICK bad \in SUBSET HeldSpam(spam) :
              ReleaseSpamInputs(bad, spam.cutoff) /\ Done(IF bad = {} THEN "skipped" ELSE "failed")
      BY <1>4 DEF CycleCancelled
    <2>2. spam.cutoff \in Nat /\ wpc # "press"
      BY <1>4 DEF DeviceTypes, CycleCancelled
    <2>3. ~Fresh(cmd)
      BY <1>4 DEF CycleCancelled, Requested, Fresh
    <2>4. PICK o \in {"skipped", "failed"} : Done(o)
      BY <2>1
    <2>5. Answers(cmd, o) /\ cmd' = NoCommand /\ wpc' = "idle"
      BY <1>0, <2>4, AckAnswers DEF Done
    <2>6. Ends(o)
      BY <2>1, <2>2, <2>3, <2>5, ReleaseSpamFacts DEF Ends, Outcomes
    <2> QED BY <1>0, <1>1, <2>6 DEF Ends
  <1>5. CASE CycleModifier
    <2>1. CASE Continue("rearm", "modifier")
      <3>1. wpc' = "modifier" /\ Continue("rearm", wpc')
        BY <2>1 DEF Continue
      <3>2. /\ spam' = [spam EXCEPT !.shift = cmd.shift] /\ UNCHANGED faults
            /\ device' = IF spam.shift = cmd.shift THEN device
                         ELSE IF cmd.shift THEN device \union {Shift} ELSE device \ {Shift}
        BY <1>5, <2>1 DEF CycleModifier, CycleFails, Continue, Done
      <3>3. /\ device' \subseteq device \union {Shift} /\ (Mouse \in device' <=> Mouse \in device)
            /\ Shift \in device' <=> IF spam.shift = cmd.shift THEN Shift \in device ELSE cmd.shift
        BY <3>2, InputAssumption DEF Shift, Mouse
      <3>4. GoesOn
        BY <1>2, <3>1, <3>2, <3>3 DEF GoesOn
      <3> QED BY <1>0, <1>1, <3>4
    <2>2. CASE CycleFails("rearm") /\ UNCHANGED spam
      <3>1. Ends("failed")
        BY <2>2, CycleFailsEnds, <1>0 DEF CycleFails, CycleSteps, KnownInv
      <3> QED BY <1>0, <1>1, <3>1 DEF Outcomes
    <2> QED BY <1>5, <2>1, <2>2 DEF CycleModifier
  <1>6. CASE CycleKeyDown
    <2>1. CASE Continue("modifier", "settle") /\ device' = device \union {cmd.key} /\ UNCHANGED faults
      <3>1. wpc' = "settle" /\ Continue("modifier", wpc')
        BY <2>1 DEF Continue
      <3>2. GoesOn
        BY <1>2, <1>6, <2>1, <3>1 DEF GoesOn, CycleKeyDown
      <3> QED BY <1>0, <1>1, <3>2
    <2>2. CASE CycleFails("modifier")
      <3>1. cmd.key \in Labels \union {NoKey}
        BY <1>0, CommandFacts
      <3>2. spam' \in SpamStates /\ spam'.shift = spam.shift /\ spam'.mouse = spam.mouse
        BY <1>0, <1>6, <3>1 DEF CycleKeyDown
      <3>3. Ends("failed")
        BY <2>2, <3>2, CycleFailsEnds DEF CycleFails, CycleSteps, KnownInv
      <3> QED BY <1>0, <1>1, <3>3 DEF Outcomes
    <2> QED BY <1>6, <2>1, <2>2 DEF CycleKeyDown
  <1>7. CASE CycleMouseDown
    <2>1. CASE Continue("settle", "hold") /\ device' = device \union {Mouse} /\ UNCHANGED faults
      <3>1. wpc' = "hold" /\ Continue("settle", wpc')
        BY <2>1 DEF Continue
      <3>2. GoesOn
        BY <1>2, <1>7, <2>1, <3>1 DEF GoesOn, CycleMouseDown
      <3> QED BY <1>0, <1>1, <3>2
    <2>2. CASE CycleFails("settle")
      <3>1. spam' \in SpamStates /\ spam'.shift = spam.shift /\ spam'.mouse = TRUE
        BY <1>0, <1>7 DEF CycleMouseDown
      <3>2. Ends("failed")
        BY <2>2, <3>1, CycleFailsEnds DEF CycleFails, CycleSteps, KnownInv
      <3> QED BY <1>0, <1>1, <3>2 DEF Outcomes
    <2> QED BY <1>7, <2>1, <2>2 DEF CycleMouseDown
  <1>8. CASE CycleMouseUp
    <2>1. CASE device' = device \ {Mouse} /\ spam' = [spam EXCEPT !.mouse = FALSE] /\ Done("ok") /\ UNCHANGED faults
      <3>1. Answers(cmd, "ok") /\ cmd' = NoCommand /\ wpc' = "idle" /\ wpc = "hold"
        BY <1>0, <1>8, <2>1, AckAnswers DEF Done, CycleMouseUp
      <3>2. device' \subseteq device /\ (Shift \in device' <=> Shift \in device) /\ Mouse \notin device'
        BY <2>1 DEF Shift, Mouse
      <3>3. spam' \in SpamStates /\ spam'.shift = spam.shift
        BY <1>0, <2>1
      <3>4. Ends("ok")
        BY <2>1, <3>1, <3>2, <3>3 DEF Ends, Outcomes, KnownInv
      <3> QED BY <1>0, <1>1, <3>4 DEF Outcomes
    <2>2. CASE EmissionFails /\ Done("failed") /\ UNCHANGED spam
      <3>1. Ends("failed")
        BY <1>0, <1>8, <2>2, CycleFailsEnds DEF CycleMouseUp, CycleSteps, KnownInv
      <3> QED BY <1>0, <1>1, <3>1 DEF Outcomes
    <2> QED BY <1>8, <2>1, <2>2 DEF CycleMouseUp
  <1> QED BY <1>3, <1>4, <1>5, <1>6, <1>7, <1>8 DEF MidStep

(* Both keep the types, and the worker still knows what is down. *)
LEMMA MidTypes ==
    ASSUME DeviceTypes, CallTypes, KnownInv, MidStep
    PROVE  DeviceTypes' /\ CallTypes' /\ KnownInv'
  <1> USE DEF SpamStates
  <1>0. faults \in Nat /\ faults <= MaxFaults /\ MaxFaults \in Nat
    BY InputAssumption DEF DeviceTypes
  <1>1. wpc # "idle" /\ cmd \in Commands /\ UNCHANGED <<worker, generation, sequence>>
    BY MidCases
  <1>2. CASE GoesOn
    <2>1. cmd.key \in Labels /\ cmd.shift \in BOOLEAN
      BY <1>1, <1>2, CommandFacts DEF GoesOn
    <2>2. CallTypes'
      BY <1>1, <1>2 DEF GoesOn, CallTypes, InCall
    <2>3. DeviceTypes'
      BY <1>1, <1>2, <2>1 DEF GoesOn, DeviceTypes, Inputs, CycleSteps
    <2>4. KnownInv'
      BY <1>2, <2>1, InputAssumption DEF GoesOn, KnownInv, DeviceTypes, Shift, Mouse
    <2> QED BY <2>2, <2>3, <2>4
  <1>3. ASSUME NEW o \in Outcomes, Ends(o)
        PROVE  DeviceTypes' /\ CallTypes' /\ KnownInv'
    <2>1. CallTypes'
      BY <1>1, <1>3, AnswersTypes DEF Ends, Outcomes
    <2>2. DeviceTypes'
      BY <1>0, <1>1, <1>3 DEF Ends, DeviceTypes, CycleSteps
    <2> QED BY <1>3, <2>1, <2>2 DEF Ends, KnownInv
  <1> QED BY <1>2, <1>3, MidCases

(* ------------------------- the kinds of steps ----------------------------- *)

workerState == <<worker, cmd, wpc, device, spam>>
counters == <<generation, sequence>>

(* The worker takes the first command of a queue. *)
TakesHigh(c) ==
    c \in HighCommands /\ high # <<>> /\ c = Head(high) /\ high' = Tail(high) /\ UNCHANGED normal
TakesNormal(c) ==
    c \in NormalCommands /\ high = <<>> /\ normal # <<>> /\ c = Head(normal) /\ normal' = Tail(normal) /\ UNCHANGED high
Takes(c) ==
    /\ wpc = "idle" /\ cmd = NoCommand /\ c \in Commands /\ Executed(c)
    /\ TakesHigh(c) \/ TakesNormal(c)
    /\ UNCHANGED <<worker, counters, spammerOnly>>

(* A call enters its queue, is refused, or gives up. *)
Enters(w) ==
    /\ w \in Writers /\ worker = "running" /\ call[w].st = "drawn"
    /\ LET c == call[w].command
       IN  \/ c \in HighCommands /\ high' = Append(high, c) /\ Len(high) < HighCapacity /\ UNCHANGED normal
           \/ c \in NormalCommands /\ normal' = Append(normal, c) /\ Len(normal) < NormalCapacity /\ UNCHANGED high
    /\ call' = [call EXCEPT ![w].st = "sent"]
    /\ UNCHANGED <<workerState, counters, spammerOnly, faults>>
IsRefused(w) ==
    /\ w \in Writers /\ InCall(w) /\ call' = [call EXCEPT ![w] = [st |-> "failed", command |-> NoCommand]]
    /\ UNCHANGED <<workerState, high, normal, counters, spammerOnly>>
    /\ \/ faults > 0 /\ faults' = faults - 1
       \/ faults' = faults /\ (worker = "gone" \/ call[w].command.kind # "release")

(* The loop asks for a release: its generation ends every cycle that exists. *)
EndsCycle(s) ==
    \/ task' = task /\ call'[CycleOf[s]] = call[CycleOf[s]]
    \/ /\ task[s].st = "spawned" /\ task' = [task EXCEPT ![s] = NoTask]
       /\ call'[CycleOf[s]] = call[CycleOf[s]]
    \/ /\ task[s].st = "running" /\ task' = [task EXCEPT ![s] = NoTask]
       /\ call'[CycleOf[s]] = NoCall
AsksRelease ==
    /\ UNCHANGED <<workerState, high, normal, session>> /\ faults' \in {faults, faults - 1} \intersect Nat
    /\ loop # "off" /\ Blocked' /\ ~quiet' /\ session \in Sessions
    /\ generation' = generation + 1 /\ sequence' = sequence + 1
    /\ DOMAIN call' = Writers /\ call'["loop"] = CallOf("loop", "release", NoKey, FALSE, 0)
    /\ \A w \in Writers \ {"loop", CycleOf[session]} : call'[w] = call[w]
    /\ EndsCycle(session)
    /\ loop' = "pause" => pending' # <<>>
    /\ loop' = "dropping" => task'[session].st # "spawned"
(* It has its answer; only after a good one it goes on. *)
HasAnswer ==
    /\ UNCHANGED <<workerState, high, normal, counters, session, ready, faults>>
    /\ Blocked /\ Answered("loop") /\ call' = [call EXCEPT !["loop"] = NoCall]
    /\ quiet' = (call["loop"].st = "ok")
    /\ \/ loop' \in {"select", "equip"} /\ call["loop"].st = "ok" /\ task' = task
       \/ loop' = "joining" /\ loop = "ending" /\ task' = [task EXCEPT ![session] = IF @.st = "spawned" THEN NoTask ELSE @]
       \/ loop' = "off" /\ loop = "dropping" /\ task' = task

(* Steps that neither call nor start anything. *)
StaysLocal ==
    /\ UNCHANGED <<workerState, high, normal, counters, call, session, quiet, task>>
    /\ faults' \in {faults, faults - 1} \intersect Nat
    /\ \/ UNCHANGED <<loop, ready>> /\ loop # "pause" /\ loop # "readying"
       \/ UNCHANGED <<loop, ready, pending>>
       \/ loop = "equip" /\ loop' = "select" /\ UNCHANGED ready
StartsSession ==
    /\ UNCHANGED <<inputVars, quiet, task, ready>>
    /\ loop = "off" /\ loop' = "select" /\ worker = "running"
    /\ session' = session + 1 /\ session' \in Sessions
Dispatches ==
    /\ UNCHANGED <<inputVars, session, loop, ready>>
    /\ loop = "select" /\ ready /\ session \in Sessions /\ ~quiet'
    /\ task[session].st = "none" /\ active \in Keys
    /\ task' = [task EXCEPT ![session] = [st |-> "spawned", key |-> active, ticket |-> generation]]

(* A cycle's thread asks for it, and ends. *)
AsksCycle(s) ==
    /\ UNCHANGED <<workerState, high, normal, session, loop, ready, quiet, generation, pending, faults>>
    /\ task[s].st = "spawned" /\ task' = [task EXCEPT ![s].st = "running"] /\ task[s].key \in Labels
    /\ call' = [call EXCEPT ![CycleOf[s]] = CallOf(CycleOf[s], "cycle", task[s].key, task[s].key \in ShiftKeys, task[s].ticket)]
    /\ sequence' = sequence + 1
CycleEnds(s) ==
    /\ UNCHANGED <<workerState, high, normal, session, loop, ready, quiet, counters, pending, faults>>
    /\ task[s].st = "running" /\ task' = [task EXCEPT ![s] = NoTask]
    /\ call' = [call EXCEPT ![CycleOf[s]] = NoCall]
    /\ \/ s = session /\ loop = "select" /\ Own.st \in {"ok", "skipped"}
       \/ s # session
       \/ loop \in {"joining", "dropping", "off"}

(* Autopot and the gear switch press their keys. *)
Pressers == {"autopot"} \union {GearOf[s] : s \in Sessions}
AsksPress(w, c) ==
    /\ UNCHANGED <<workerState, session, loop, ready, quiet, task, counters, pending, faults>>
    /\ w \in Pressers /\ c \in Commands /\ c.kind = "press" /\ c.writer = w
    /\ DOMAIN call' = Writers /\ \A v \in Writers \ {w} : call'[v] = call[v]
    /\ \/ /\ call'[w] = [st |-> "sent", command |-> c]
          /\ \/ c \in HighCommands /\ high' = Append(high, c) /\ Len(high) < HighCapacity /\ UNCHANGED normal
             \/ c \in NormalCommands /\ normal' = Append(normal, c) /\ Len(normal) < NormalCapacity /\ UNCHANGED high
       \/ call'[w] = [st |-> "failed", command |-> NoCommand] /\ UNCHANGED <<high, normal>>
PressEnds(w) ==
    /\ UNCHANGED <<workerState, high, normal, session, loop, ready, quiet, task, counters, pending, faults>>
    /\ w \in Pressers /\ call' = [call EXCEPT ![w] = NoCall]

(* worker_loop takes the first command of the high queue, or of the normal one. *)
LEMMA TakesCases ==
    ASSUME QueueTypes, DeviceTypes, CallTypes, KnownInv, WorkerTakes, UNCHANGED spammerOnly
    PROVE  \E c \in Commands : Takes(c)
  <1>1. wpc = "idle" /\ cmd = NoCommand /\ UNCHANGED <<worker, counters>>
    BY DEF WorkerTakes, DeviceTypes, counters
  <1>2. CASE high # <<>> /\ high' = Tail(high) /\ UNCHANGED normal /\ Execute(Head(high))
    <2>1. Head(high) \in HighCommands
      BY <1>2, Taken DEF QueueTypes
    <2>2. Head(high) \in Commands
      BY <2>1 DEF HighCommands
    <2>3. Executed(Head(high))
      BY <1>2, <2>2, ExecuteCases
    <2>4. TakesHigh(Head(high))
      BY <1>2, <2>1 DEF TakesHigh
    <2> QED BY <1>1, <2>2, <2>3, <2>4 DEF Takes
  <1>3. CASE high = <<>> /\ normal # <<>> /\ normal' = Tail(normal) /\ UNCHANGED high /\ Execute(Head(normal))
    <2>1. Head(normal) \in NormalCommands
      BY <1>3, Taken DEF QueueTypes
    <2>2. Head(normal) \in Commands
      BY <2>1 DEF NormalCommands
    <2>3. Executed(Head(normal))
      BY <1>3, <2>2, ExecuteCases
    <2>4. TakesNormal(Head(normal))
      BY <1>3, <2>1 DEF TakesNormal
    <2> QED BY <1>1, <2>2, <2>3, <2>4 DEF Takes
  <1> QED BY <1>2, <1>3 DEF WorkerTakes

(* That keeps the types, and the worker still knows what is down. *)
LEMMA TakesTypes ==
    ASSUME QueueTypes, DeviceTypes, CallTypes, KnownInv, NEW c, Takes(c)
    PROVE  QueueTypes' /\ DeviceTypes' /\ CallTypes' /\ KnownInv'
  <1>1. DeviceTypes' /\ CallTypes' /\ KnownInv'
    BY ExecutedTypes DEF Takes, counters
  <1>2. CASE TakesHigh(c)
    <2>1. high' \in Seq(HighCommands) /\ Len(high') = Len(high) - 1 /\ Len(high) \in Nat /\ normal' = normal
      BY <1>2, Taken DEF TakesHigh, QueueTypes
    <2> QED BY <1>1, <2>1, InputAssumption DEF QueueTypes
  <1>3. CASE TakesNormal(c)
    <2>1. normal' \in Seq(NormalCommands) /\ Len(normal') = Len(normal) - 1 /\ Len(normal) \in Nat /\ high' = high
      BY <1>3, Taken DEF TakesNormal, QueueTypes
    <2> QED BY <1>1, <2>1, InputAssumption DEF QueueTypes
  <1> QED BY <1>2, <1>3 DEF Takes

(* ------------------- the calls and the device: the invariant -------------- *)

InputInv ==
    /\ QueueTypes /\ DeviceTypes /\ CallTypes
    /\ Slots /\ TicketInv /\ CalmInv /\ FreshInv /\ ReleaseInv /\ ShiftInv

(* Autopot and the gear switch are neither the loop nor a cycle. *)
LEMMA PresserFacts ==
    ASSUME NEW w \in Pressers
    PROVE  w \in Writers /\ w # "loop" /\ \A s \in Sessions : w # CycleOf[s]
  BY Threads DEF Pressers

(* Steps of the loop and of the keyboard that call nobody keep the invariant. *)
LEMMA StaysLocalKeeps ==
    ASSUME InputInv, LoopTypes, StaysLocal
    PROVE  InputInv'
  <1>1. /\ UNCHANGED <<high, normal, worker, cmd, wpc, device, spam, generation, sequence, call, session, quiet, task>>
        /\ Live' = Live /\ Blocked' = Blocked
        /\ loop' = loop \/ (loop = "equip" /\ loop' = "select")
    BY DEF StaysLocal, workerState, counters, Live, Blocked
  <1>2. QueueTypes' /\ DeviceTypes' /\ CallTypes'
    <2>1. faults' \in 0..MaxFaults
      BY InputAssumption DEF StaysLocal, InputInv, DeviceTypes
    <2> QED BY <1>1, <2>1 DEF InputInv, QueueTypes, DeviceTypes, CallTypes, InCall
  <1>3. Slots'
    <2>1. loop' = "pause" => pending' # <<>>
      BY DEF StaysLocal, InputInv, Slots
    <2> QED BY <1>1, <2>1 DEF InputInv, Slots
  <1>4. TicketInv'
    BY <1>1 DEF InputInv, TicketInv, TicketsUpTo, Stale, InCall
  <1>5. CalmInv'
    BY <1>1 DEF InputInv, CalmInv, KnownInv, Calm
  <1>6. FreshInv'
    BY <1>1 DEF InputInv, FreshInv, Fresh, FreshAt, OwnIs, Own, InCall
  <1>7. ReleaseInv'
    BY <1>1 DEF InputInv, ReleaseInv, ReleaseAt, InCall
  <1>8. ShiftInv'
    BY <1>1 DEF InputInv, ShiftInv, Own, NoFresh, Fresh, FreshAt
  <1> QED BY <1>2, <1>3, <1>4, <1>5, <1>6, <1>7, <1>8 DEF InputInv

(* So does an answered press (press_key). *)
LEMMA PressEndsKeeps ==
    ASSUME InputInv, LoopTypes, NEW w, PressEnds(w)
    PROVE  InputInv'
  <1>1. /\ UNCHANGED <<high, normal, worker, cmd, wpc, device, spam, generation, sequence, session, quiet, task,
                       loop, ready, pending, faults>>
        /\ Live' = Live /\ Blocked' = Blocked
    BY DEF PressEnds, workerState, counters, Live, Blocked
  <1>2. /\ w \in Writers /\ \A v \in Writers : call'[v] = IF v = w THEN NoCall ELSE call[v]
        /\ DOMAIN call' = Writers
    BY PresserFacts DEF PressEnds, InputInv, CallTypes
  <1>3. call'["loop"] = call["loop"] /\ \A s \in Sessions : call'[CycleOf[s]] = call[CycleOf[s]]
    BY <1>2, PresserFacts, Threads DEF PressEnds
  <1>4. QueueTypes' /\ DeviceTypes' /\ CallTypes'
    BY <1>1, <1>2 DEF InputInv, QueueTypes, DeviceTypes, CallTypes, InCall, NoCall, CallStates
  <1>5. Slots'
    BY <1>1, <1>3 DEF InputInv, Slots
  <1>6. TicketInv'
    BY <1>1, <1>3 DEF InputInv, TicketInv, TicketsUpTo, Stale, InCall
  <1>7. CalmInv'
    BY <1>1, <1>3 DEF InputInv, CalmInv, KnownInv, Calm
  <1>8. FreshInv'
    BY <1>1, <1>3 DEF InputInv, FreshInv, Fresh, FreshAt, OwnIs, Own, InCall
  <1>9. ReleaseInv'
    BY <1>1, <1>3 DEF InputInv, ReleaseInv, ReleaseAt, InCall
  <1>10. ShiftInv'
    BY <1>1, <1>3, Threads DEF InputInv, ShiftInv, Own, NoFresh, Fresh, FreshAt, Live, LoopTypes
  <1> QED BY <1>4, <1>5, <1>6, <1>7, <1>8, <1>9, <1>10 DEF InputInv

(* So does a press that enters its queue or is refused (press_key, submit). *)
LEMMA AsksPressKeeps ==
    ASSUME InputInv, LoopTypes, NEW w, NEW c, AsksPress(w, c)
    PROVE  InputInv'
  <1>1. /\ UNCHANGED <<worker, cmd, wpc, device, spam, generation, sequence, session, quiet, task,
                       loop, ready, pending, faults>>
        /\ Live' = Live /\ Blocked' = Blocked
    BY DEF AsksPress, workerState, counters, Live, Blocked
  <1>2. /\ w \in Writers /\ DOMAIN call' = Writers /\ \A v \in Writers \ {w} : call'[v] = call[v]
        /\ call'[w] \in {[st |-> "sent", command |-> c], [st |-> "failed", command |-> NoCommand]}
        /\ c \in Commands /\ c.writer = w /\ c.kind = "press"
    BY PresserFacts DEF AsksPress
  <1>3. call'["loop"] = call["loop"] /\ \A s \in Sessions : call'[CycleOf[s]] = call[CycleOf[s]]
    BY <1>2, PresserFacts, Threads DEF AsksPress
  <1>4. CallTypes' /\ DeviceTypes'
    BY <1>1, <1>2 DEF InputInv, DeviceTypes, CallTypes, InCall, CallStates
  <1>5. CASE UNCHANGED <<high, normal>>
    <2>1. QueueTypes'
      BY <1>5 DEF InputInv, QueueTypes
    <2>2. Slots'
      BY <1>1, <1>3 DEF InputInv, Slots
    <2>3. TicketInv'
      BY <1>1, <1>3, <1>5 DEF InputInv, TicketInv, TicketsUpTo, Stale, InCall
    <2>4. CalmInv'
      BY <1>1, <1>3 DEF InputInv, CalmInv, KnownInv, Calm
    <2>5. FreshInv'
      BY <1>1, <1>3, <1>5 DEF InputInv, FreshInv, Fresh, FreshAt, OwnIs, Own, InCall
    <2>6. ReleaseInv'
      BY <1>1, <1>3, <1>5 DEF InputInv, ReleaseInv, ReleaseAt, InCall
    <2>7. ShiftInv'
      BY <1>1, <1>3, <1>5, Threads DEF InputInv, ShiftInv, Own, NoFresh, Fresh, FreshAt, Live, LoopTypes
    <2> QED BY <1>4, <2>1, <2>2, <2>3, <2>4, <2>5, <2>6, <2>7 DEF InputInv
  <1>6. CASE c \in HighCommands /\ high' = Append(high, c) /\ Len(high) < HighCapacity /\ UNCHANGED normal
    <2>1. /\ high' \in Seq(HighCommands) /\ Len(high') = Len(high) + 1 /\ Len(high) \in Nat
          /\ DOMAIN high = 1..Len(high) /\ DOMAIN high' = 1..(Len(high) + 1)
          /\ \A i \in DOMAIN high : i \in DOMAIN high' /\ high'[i] = high[i]
          /\ high'[Len(high) + 1] = c
          /\ \A i \in DOMAIN high' : i \in DOMAIN high \/ i = Len(high) + 1
      BY <1>6, Added DEF InputInv, QueueTypes
    <2>2. \A i \in DOMAIN high' : (ReleaseAt(i)' => ReleaseAt(i)) /\ (high'[i] = call["loop"].command /\ InCall("loop") => i \in DOMAIN high)
      <3>1. InCall("loop") => call["loop"].command.writer = "loop"
        BY Threads DEF InputInv, CallTypes
      <3> QED BY <1>2, <2>1, <3>1, PresserFacts, CommandFacts DEF ReleaseAt, AsksPress
    <2>3. QueueTypes'
      BY <1>6, <2>1, InputAssumption DEF InputInv, QueueTypes
    <2>4. Slots'
      BY <1>1, <1>3 DEF InputInv, Slots
    <2>5. TicketInv'
      BY <1>1, <1>3, <1>6 DEF InputInv, TicketInv, TicketsUpTo, Stale, InCall
    <2>6. CalmInv'
      BY <1>1, <1>3 DEF InputInv, CalmInv, KnownInv, Calm
    <2>7. FreshInv'
      BY <1>1, <1>3, <1>6 DEF InputInv, FreshInv, Fresh, FreshAt, OwnIs, Own, InCall
    <2>8. ReleaseInv'
      BY <1>1, <1>3, <2>1, <2>2 DEF InputInv, ReleaseInv, ReleaseAt, InCall
    <2>9. ShiftInv'
      BY <1>1, <1>3, <1>6, Threads DEF InputInv, ShiftInv, Own, NoFresh, Fresh, FreshAt, Live, LoopTypes
    <2> QED BY <1>4, <2>3, <2>4, <2>5, <2>6, <2>7, <2>8, <2>9 DEF InputInv
  <1>7. CASE c \in NormalCommands /\ normal' = Append(normal, c) /\ Len(normal) < NormalCapacity /\ UNCHANGED high
    <2>1. /\ normal' \in Seq(NormalCommands) /\ Len(normal') = Len(normal) + 1 /\ Len(normal) \in Nat
          /\ DOMAIN normal = 1..Len(normal) /\ DOMAIN normal' = 1..(Len(normal) + 1)
          /\ \A i \in DOMAIN normal : i \in DOMAIN normal' /\ normal'[i] = normal[i]
          /\ normal'[Len(normal) + 1] = c
          /\ \A i \in DOMAIN normal' : i \in DOMAIN normal \/ i = Len(normal) + 1
      BY <1>7, Added DEF InputInv, QueueTypes
    <2>2. \A i \in DOMAIN normal' : normal'[i].kind = "cycle" => i \in DOMAIN normal /\ normal'[i] = normal[i]
      BY <1>2, <2>1
    <2>3. QueueTypes'
      BY <1>7, <2>1, InputAssumption DEF InputInv, QueueTypes
    <2>4. Slots'
      BY <1>1, <1>3 DEF InputInv, Slots
    <2>5. TicketInv'
      BY <1>1, <1>3, <2>1, <2>2 DEF InputInv, TicketInv, TicketsUpTo, Stale, InCall
    <2>6. CalmInv'
      BY <1>1, <1>3 DEF InputInv, CalmInv, KnownInv, Calm
    <2>7. \A i \in DOMAIN normal' : FreshAt(i)' => FreshAt(i) /\ normal'[i] = normal[i]
      BY <1>1, <2>2 DEF FreshAt, Fresh
    <2>8. FreshInv'
      BY <1>1, <1>3, <2>1, <2>7 DEF InputInv, FreshInv, Fresh, OwnIs, Own, InCall, FreshAt
    <2>9. ReleaseInv'
      BY <1>1, <1>3, <1>7 DEF InputInv, ReleaseInv, ReleaseAt, InCall
    <2>10. NoFresh => NoFresh'
      BY <1>1, <2>7 DEF NoFresh, Fresh, FreshAt
    <2>11. ShiftInv'
      BY <1>1, <1>3, <2>10, Threads DEF InputInv, ShiftInv, Own, Fresh, Live, LoopTypes
    <2> QED BY <1>4, <2>3, <2>4, <2>5, <2>6, <2>8, <2>9, <2>11 DEF InputInv
  <1> QED BY <1>5, <1>6, <1>7 DEF AsksPress

(* When every cycle is older than the generation, none may click (SpamCancellation::requested). *)
LEMMA StaleFacts ==
    ASSUME InputInv, Stale
    PROVE  /\ NoFresh /\ \A s \in Sessions : InCall(CycleOf[s]) => ~Fresh(call[CycleOf[s]].command)
           /\ \A s \in Sessions : task[s].st = "spawned" => task[s].ticket <= generation - 1
  <1>1. generation \in Nat /\ generation >= 1
    BY DEF InputInv, CallTypes, TicketInv
  <1>2. \A s \in Sessions : CycleOf[s] \in Writers
    BY Threads
  <1>3. \A s \in Sessions : InCall(CycleOf[s]) => ~Fresh(call[CycleOf[s]].command)
    BY <1>1, <1>2, CommandFacts DEF InputInv, CallTypes, Stale, TicketsUpTo, Fresh
  <1>4. \A i \in DOMAIN normal : ~FreshAt(i)
    <2>1. \A i \in DOMAIN normal : normal[i] \in Commands
      BY DEF InputInv, QueueTypes, NormalCommands
    <2> QED BY <1>1, <2>1, CommandFacts DEF Stale, TicketsUpTo, FreshAt, Fresh
  <1>5. ~Fresh(cmd)
    <2>1. cmd.kind = "cycle" => wpc \in CycleSteps /\ cmd \in Commands
      BY DEF InputInv, DeviceTypes, NoCommand
    <2> QED BY <1>1, <2>1, CommandFacts DEF Stale, TicketsUpTo, Fresh
  <1> QED BY <1>3, <1>4, <1>5 DEF NoFresh, Stale, TicketsUpTo

(* A session that starts keeps the invariant (start_session). *)
LEMMA StartsSessionKeeps ==
    ASSUME InputInv, LoopTypes, WorkInv, StartsSession
    PROVE  InputInv'
  <1>1. /\ UNCHANGED <<high, normal, worker, cmd, wpc, device, spam, generation, sequence, call, quiet, task, faults>>
        /\ ~Live' /\ ~Blocked' /\ ~Live /\ ~Blocked
    BY DEF StartsSession, inputVars, Live, Blocked, WorkInv
  <1>2. QueueTypes' /\ DeviceTypes' /\ CallTypes'
    BY <1>1 DEF InputInv, QueueTypes, DeviceTypes, CallTypes, InCall
  <1>3. session \in Nat /\ session' = session + 1 /\ session' \in Sessions /\ Sessions \subseteq Nat
    BY MaxSessionsAssumption DEF StartsSession, LoopTypes, Sessions
  <1>4. \A s \in Sessions : task[s].st # "spawned"
    BY DEF InputInv, Slots, StartsSession
  <1>5. Slots'
    BY <1>1, <1>3, <1>4 DEF InputInv, Slots, StartsSession
  <1>6. Stale
    BY <1>1 DEF InputInv, TicketInv
  <1>7. TicketInv'
    BY <1>1 DEF InputInv, TicketInv, TicketsUpTo, Stale, InCall
  <1>8. CalmInv'
    BY <1>1 DEF InputInv, CalmInv, KnownInv, Calm
  <1>9. NoFresh /\ \A s \in Sessions : InCall(CycleOf[s]) => ~Fresh(call[CycleOf[s]].command)
    BY <1>6, StaleFacts
  <1>10. FreshInv'
    BY <1>1, <1>9 DEF FreshInv, Fresh, FreshAt, NoFresh, InCall
  <1>11. ReleaseInv'
    BY <1>1 DEF InputInv, ReleaseInv, ReleaseAt, InCall
  <1>12. ShiftInv'
    BY <1>1, <1>9 DEF ShiftInv, Fresh, NoFresh
  <1> QED BY <1>2, <1>5, <1>7, <1>8, <1>10, <1>11, <1>12 DEF InputInv

(* So does the timer that dispatches a cycle with the present ticket (spam_ticket). *)
LEMMA DispatchesKeeps ==
    ASSUME InputInv, LoopTypes, Dispatches
    PROVE  InputInv'
  <1>1. /\ UNCHANGED <<high, normal, worker, cmd, wpc, device, spam, generation, sequence, call, session, loop, faults>>
        /\ Live' /\ ~Blocked' /\ Live /\ ~Blocked /\ ~quiet' /\ loop = "select" /\ session \in Sessions
    BY DEF Dispatches, inputVars, Live, Blocked
  <1>2. QueueTypes' /\ DeviceTypes' /\ CallTypes'
    BY <1>1 DEF InputInv, QueueTypes, DeviceTypes, CallTypes, InCall
  <1>3. generation \in Nat
    BY DEF InputInv, CallTypes
  <1>4. \A s \in Sessions : task'[s] = IF s = session THEN [st |-> "spawned", key |-> active, ticket |-> generation] ELSE task[s]
    BY DEF Dispatches, LoopTypes
  <1>5. Slots'
    <2>1. call[CycleOf[session]].st = "none"
      BY <1>1 DEF InputInv, Slots, Dispatches
    <2>2. \A s \in Sessions : ~(s > session /\ s = session)
      BY MaxSessionsAssumption DEF Sessions
    <2> QED BY <1>1, <1>4, <2>1, <2>2 DEF InputInv, Slots
  <1>6. TicketInv'
    BY <1>1, <1>3, <1>4 DEF InputInv, TicketInv, TicketsUpTo, Stale, InCall
  <1>7. CalmInv'
    BY <1>1 DEF InputInv, CalmInv, KnownInv, Calm
  <1>8. FreshInv'
    BY <1>1 DEF InputInv, FreshInv, Fresh, FreshAt, OwnIs, Own, InCall
  <1>9. ReleaseInv'
    BY <1>1 DEF InputInv, ReleaseInv, ReleaseAt, InCall
  <1>10. ShiftInv'
    BY <1>1 DEF InputInv, ShiftInv, Own, NoFresh, Fresh, FreshAt
  <1> QED BY <1>2, <1>5, <1>6, <1>7, <1>8, <1>9, <1>10 DEF InputInv

(* So does the cycle that starts on the pool with the ticket of its dispatch (spam_cycle_with_ticket). *)
LEMMA AsksCycleKeeps ==
    ASSUME InputInv, LoopTypes, NEW s \in Sessions, AsksCycle(s)
    PROVE  InputInv'
  <1> DEFINE c == [writer |-> CycleOf[s], kind |-> "cycle", key |-> task[s].key, shift |-> task[s].key \in ShiftKeys,
                   ticket |-> task[s].ticket, sequence |-> sequence]
  <1>1. /\ UNCHANGED <<high, normal, worker, cmd, wpc, device, spam, session, loop, ready, quiet, generation, pending, faults>>
        /\ Live' = Live /\ Blocked' = Blocked /\ sequence' = sequence + 1 /\ sequence \in Nat
    BY DEF AsksCycle, workerState, Live, Blocked, InputInv, CallTypes
  <1>2. s = session /\ task[s].st = "spawned" /\ loop \notin {"joining", "dropping", "off"} /\ call[CycleOf[s]].st = "none"
    BY DEF AsksCycle, InputInv, Slots
  <1>3. CycleOf[s] \in Writers /\ CycleOf[s] # "loop" /\ \A t \in Sessions \ {s} : CycleOf[t] # CycleOf[s]
    BY Threads
  <1>4. c \in Commands
    <2>1. task[s].key \in Labels /\ task[s].ticket \in Nat
      BY DEF AsksCycle, LoopTypes, Tasks
    <2>2. c \in Command
      BY <1>1, <1>3, <2>1 DEF Command, Kinds
    <2>3. Asked(c)
      BY <2>1 DEF Asked
    <2> QED BY <2>2, <2>3 DEF Commands
  <1>5. \A w \in Writers : call'[w] = IF w = CycleOf[s] THEN [st |-> "drawn", command |-> c] ELSE call[w]
    BY DEF AsksCycle, CallOf, InputInv, CallTypes
  <1>6. DOMAIN call' = Writers /\ c.kind = "cycle" /\ c.writer = CycleOf[s] /\ c.ticket = task[s].ticket
    BY DEF AsksCycle, InputInv, CallTypes
  <1>7. \A t \in Sessions : task'[t].st = IF t = s THEN "running" ELSE task[t].st
    BY DEF AsksCycle, LoopTypes, Tasks
  <1>8. \A t \in Sessions : task'[t].ticket = task[t].ticket
    BY DEF AsksCycle, LoopTypes, Tasks
  <1> HIDE DEF c
  <1>9. /\ call'["loop"] = call["loop"] /\ call'[CycleOf[s]] = [st |-> "drawn", command |-> c]
        /\ \A t \in Sessions \ {s} : call'[CycleOf[t]] = call[CycleOf[t]]
    BY <1>3, <1>5, Threads
  <1>10. QueueTypes' /\ DeviceTypes' /\ CallTypes'
    <2>1. CallTypes'
      BY <1>1, <1>4, <1>5, <1>6 DEF InputInv, CallTypes, InCall, CallStates
    <2> QED BY <1>1, <2>1 DEF InputInv, QueueTypes, DeviceTypes
  <1>11. Slots'
    BY <1>1, <1>2, <1>7, <1>9, <1>10, MaxSessionsAssumption DEF InputInv, Slots, Sessions
  <1>12. TicketInv'
    BY <1>1, <1>2, <1>6, <1>7, <1>8, <1>9 DEF InputInv, TicketInv, TicketsUpTo, Stale, InCall
  <1>13. CalmInv'
    BY <1>1, <1>9 DEF InputInv, CalmInv, KnownInv, Calm
  <1>14. NoFresh /\ Own.st = "none"
    BY <1>2 DEF InputInv, FreshInv, OwnIs, Own, NoFresh
  <1>15. FreshInv'
    BY <1>1, <1>2, <1>9, <1>14 DEF InputInv, FreshInv, Fresh, FreshAt, NoFresh, InCall
  <1>16. ReleaseInv'
    <2>1. \A i \in DOMAIN high : high[i].sequence \in Nat
      BY CommandFacts DEF InputInv, QueueTypes, HighCommands
    <2>2. InCall("loop") => call["loop"].command.sequence \in Nat
      BY Threads, CommandFacts DEF InputInv, CallTypes
    <2> QED BY <1>1, <1>9, <2>1, <2>2 DEF InputInv, ReleaseInv, ReleaseAt, InCall
  <1>17. ShiftInv'
    BY <1>1, <1>14 DEF InputInv, ShiftInv, NoFresh, Fresh
  <1> QED BY <1>10, <1>11, <1>12, <1>13, <1>15, <1>16, <1>17 DEF InputInv

(* So does a cycle that ends and is joined or forgotten (cycle_tasks). *)
LEMMA CycleEndsKeeps ==
    ASSUME InputInv, LoopTypes, NEW s \in Sessions, CycleEnds(s)
    PROVE  InputInv'
  <1>1. /\ UNCHANGED <<high, normal, worker, cmd, wpc, device, spam, session, loop, ready, quiet, generation, sequence, pending, faults>>
        /\ Live' = Live /\ Blocked' = Blocked
    BY DEF CycleEnds, workerState, counters, Live, Blocked
  <1>2. CycleOf[s] \in Writers /\ CycleOf[s] # "loop" /\ \A t \in Sessions \ {s} : CycleOf[t] # CycleOf[s]
    BY Threads
  <1>3. \A w \in Writers : call'[w] = IF w = CycleOf[s] THEN NoCall ELSE call[w]
    BY DEF CycleEnds, InputInv, CallTypes
  <1>4. \A t \in Sessions : task'[t] = IF t = s THEN NoTask ELSE task[t]
    BY DEF CycleEnds, LoopTypes
  <1>5. /\ call'["loop"] = call["loop"] /\ call'[CycleOf[s]] = NoCall
        /\ \A t \in Sessions \ {s} : call'[CycleOf[t]] = call[CycleOf[t]]
    BY <1>2, <1>3, Threads
  <1>6. QueueTypes' /\ DeviceTypes' /\ CallTypes'
    <2>1. DOMAIN call' = Writers
      BY DEF CycleEnds, InputInv, CallTypes
    <2>2. CallTypes'
      BY <1>1, <1>3, <2>1 DEF InputInv, CallTypes, InCall, NoCall, CallStates
    <2> QED BY <1>1, <2>2 DEF InputInv, QueueTypes, DeviceTypes
  <1>7. Slots'
    BY <1>1, <1>4, <1>5 DEF InputInv, Slots, NoCall, NoTask
  <1>8. TicketInv'
    BY <1>1, <1>4, <1>5 DEF InputInv, TicketInv, TicketsUpTo, Stale, InCall, NoCall, NoTask
  <1>9. CalmInv'
    BY <1>1, <1>5 DEF InputInv, CalmInv, KnownInv, Calm
  <1>10. s = session => NoFresh
    <2>1. CASE loop = "select" /\ Own.st \in {"ok", "skipped"}
      BY <2>1 DEF InputInv, FreshInv, OwnIs, Own, NoFresh
    <2>2. CASE loop \in {"joining", "dropping", "off"}
      BY <2>2, StaleFacts DEF InputInv, TicketInv, Live
    <2> QED BY <2>1, <2>2 DEF CycleEnds
  <1>11. FreshInv'
    <2>1. CASE s = session
      BY <1>1, <1>5, <1>10, <2>1 DEF InputInv, FreshInv, Fresh, FreshAt, NoFresh, InCall, NoCall
    <2>2. CASE s # session
      <3>1. session \in Sessions => Own' = Own
        BY <1>1, <1>5, <2>2 DEF Own
      <3> QED BY <1>1, <1>5, <2>2, <3>1 DEF InputInv, FreshInv, Fresh, FreshAt, OwnIs, InCall, NoCall
    <2> QED BY <2>1, <2>2
  <1>12. ReleaseInv'
    BY <1>1, <1>5 DEF InputInv, ReleaseInv, ReleaseAt, InCall
  <1>13. ShiftInv'
    <2>1. CASE s = session /\ Live
      <3>1. Own.st # "failed"
        BY <2>1 DEF CycleEnds, Live
      <3> QED BY <1>1, <2>1, <3>1 DEF InputInv, ShiftInv, Fresh
    <2>2. CASE s # session /\ Live
      <3>1. Own' = Own
        BY <1>1, <1>5, <2>2 DEF Own, LoopTypes, Live
      <3> QED BY <1>1, <2>2, <3>1 DEF InputInv, ShiftInv, Fresh, NoFresh, FreshAt
    <2>3. CASE ~Live
      BY <1>1, <2>3 DEF InputInv, ShiftInv, Fresh
    <2> QED BY <2>1, <2>2, <2>3
  <1> QED BY <1>6, <1>7, <1>8, <1>9, <1>11, <1>12, <1>13 DEF InputInv

(* A request of a release makes every cycle older than the generation (release_spam). *)
LEMMA AsksReleaseKeeps ==
    ASSUME InputInv, LoopTypes, AsksRelease
    PROVE  InputInv'
  <1> DEFINE c == [writer |-> "loop", kind |-> "release", key |-> NoKey, shift |-> FALSE, ticket |-> 0, sequence |-> sequence]
  <1>1. /\ UNCHANGED <<high, normal, worker, cmd, wpc, device, spam, session>>
        /\ ~Live' /\ Blocked' /\ ~quiet' /\ loop # "off" /\ session \in Sessions
        /\ sequence' = sequence + 1 /\ sequence \in Nat /\ generation' = generation + 1 /\ generation \in Nat
    BY DEF AsksRelease, workerState, Live, Blocked, InputInv, CallTypes
  <1>2. "loop" \in Writers /\ CycleOf[session] \in Writers /\ \A t \in Sessions : CycleOf[t] # "loop" /\ (t # session => CycleOf[t] # CycleOf[session])
    BY <1>1, Threads
  <1>3. c \in Commands
    BY <1>1, <1>2 DEF Commands, Command, Kinds, Asked
  <1>4. /\ DOMAIN call' = Writers /\ call'["loop"] = [st |-> "drawn", command |-> c]
        /\ \A w \in Writers \ {"loop", CycleOf[session]} : call'[w] = call[w]
        /\ \A t \in Sessions \ {session} : call'[CycleOf[t]] = call[CycleOf[t]] /\ task'[t] = task[t]
        /\ \/ task'[session] = task[session] /\ call'[CycleOf[session]] = call[CycleOf[session]]
           \/ task[session].st = "spawned" /\ task'[session] = NoTask /\ call'[CycleOf[session]] = call[CycleOf[session]]
           \/ task[session].st = "running" /\ task'[session] = NoTask /\ call'[CycleOf[session]] = NoCall
    <2>1. /\ DOMAIN call' = Writers /\ call'["loop"] = [st |-> "drawn", command |-> c]
          /\ \A w \in Writers \ {"loop", CycleOf[session]} : call'[w] = call[w]
      BY DEF AsksRelease, CallOf
    <2>2. \A t \in Sessions \ {session} : CycleOf[t] \in Writers
      BY Threads
    <2>3. \A t \in Sessions \ {session} : call'[CycleOf[t]] = call[CycleOf[t]]
      BY <1>2, <2>1, <2>2
    <2> QED BY <1>1, <2>1, <2>3 DEF AsksRelease, EndsCycle, LoopTypes
  <1>5. c.kind = "release" /\ c.writer = "loop" /\ c.sequence = sequence
    OBVIOUS
  <1> HIDE DEF c
  <1>6. \A w \in Writers : call'[w] \in {call[w], NoCall} \/ (w = "loop" /\ call'[w] = [st |-> "drawn", command |-> c])
    BY <1>1, <1>2, <1>4
  <1>7. QueueTypes' /\ DeviceTypes' /\ CallTypes'
    <2>1. CallTypes'
      <3>1. \A w \in Writers :
              /\ call'[w] \in [st : CallStates, command : Commands \union {NoCommand}]
              /\ InCall(w)' => call'[w].command \in Commands /\ call'[w].command.writer = w
              /\ call'[w].st = "drawn" => call'[w].command.kind # "press"
        BY <1>3, <1>5, <1>6 DEF InputInv, CallTypes, InCall, NoCall, CallStates
      <3> QED BY <1>1, <1>4, <3>1 DEF CallTypes
    <2>2. faults' \in 0..MaxFaults
      BY InputAssumption DEF AsksRelease, InputInv, DeviceTypes
    <2> QED BY <1>1, <2>1, <2>2 DEF InputInv, QueueTypes, DeviceTypes
  <1>8. Slots'
    <2>1. \A t \in Sessions : call'[CycleOf[t]].st # "none" <=> task'[t].st = "running"
      BY <1>4 DEF InputInv, Slots, NoCall, NoTask
    <2>2. \A t \in Sessions : task'[t].st = "spawned" => task[t].st = "spawned" /\ t = session
      BY <1>1, <1>4 DEF InputInv, Slots, NoTask
    <2>3. \A t \in Sessions : t > session => task'[t].st = "none"
      BY <1>1, <1>4, MaxSessionsAssumption DEF InputInv, Slots, Sessions
    <2>4. loop' \notin {"joining", "off"} /\ (loop' = "dropping" => task'[session].st # "spawned") /\ (loop' = "pause" => pending' # <<>>)
      BY DEF AsksRelease, Blocked
    <2> QED BY <1>1, <1>4, <2>1, <2>2, <2>3, <2>4 DEF InputInv, Slots
  <1>9. TicketsUpTo(generation)'
    <2>1. TicketsUpTo(generation)
      BY DEF InputInv, TicketInv
    <2>2. \A t \in Sessions : task'[t].st = "spawned" => task'[t].ticket <= generation
      BY <1>4, <2>1 DEF TicketsUpTo, NoTask
    <2>3. \A t \in Sessions : InCall(CycleOf[t])' => call'[CycleOf[t]].command.ticket <= generation
      BY <1>4, <2>1 DEF TicketsUpTo, NoCall, InCall
    <2>4. \A i \in DOMAIN normal : normal[i].kind = "cycle" => normal[i].ticket \in Nat
      BY CommandFacts DEF InputInv, QueueTypes, NormalCommands
    <2>5. wpc \in CycleSteps => cmd.ticket \in Nat
      BY CommandFacts DEF InputInv, DeviceTypes
    <2>6. \A t \in Sessions : task'[t].st = "spawned" => task'[t].ticket \in Nat
      <3>1. \A t \in Sessions : task'[t] = task[t] \/ task'[t].st = "none"
        BY <1>4 DEF NoTask
      <3> QED BY <3>1 DEF LoopTypes, Tasks
    <2>7. \A t \in Sessions : InCall(CycleOf[t])' => call'[CycleOf[t]].command.ticket \in Nat
      BY <1>7, Threads, CommandFacts DEF CallTypes
    <2> QED BY <1>1, <2>1, <2>2, <2>3, <2>4, <2>5, <2>6, <2>7 DEF TicketsUpTo
  <1>10. Stale'
    <2>1. \A t \in Sessions : task'[t].st = "spawned" => task'[t].ticket <= generation
      BY <1>4 DEF InputInv, TicketInv, TicketsUpTo, NoTask
    <2>2. \A t \in Sessions : InCall(CycleOf[t])' => call'[CycleOf[t]].command.ticket <= generation
      BY <1>4 DEF InputInv, TicketInv, TicketsUpTo, NoCall, InCall
    <2>3. generation' - 1 = generation
      BY <1>1
    <2> QED BY <1>1, <2>1, <2>2, <2>3 DEF InputInv, TicketInv, Stale, TicketsUpTo
  <1>11. TicketInv'
    BY <1>1, <1>9, <1>10 DEF InputInv, TicketInv
  <1>12. CalmInv'
    BY <1>1, <1>4 DEF InputInv, CalmInv, KnownInv
  <1>13. NoFresh' /\ \A t \in Sessions : InCall(CycleOf[t])' => ~Fresh(call[CycleOf[t]].command)'
    <2>1. \A i \in DOMAIN normal : normal[i].kind = "cycle" => normal[i].ticket \in Nat /\ normal[i].ticket # generation + 1
      <3>1. \A i \in DOMAIN normal : normal[i].kind = "cycle" => normal[i].ticket \in Nat /\ normal[i].ticket <= generation
        BY CommandFacts DEF InputInv, QueueTypes, NormalCommands, TicketInv, TicketsUpTo
      <3> QED BY <1>1, <3>1
    <2>2. cmd.kind = "cycle" => cmd.ticket # generation + 1
      <3>1. cmd.kind = "cycle" => wpc \in CycleSteps /\ cmd \in Commands
        BY DEF InputInv, DeviceTypes, NoCommand
      <3>2. cmd.kind = "cycle" => cmd.ticket \in Nat /\ cmd.ticket <= generation
        BY <3>1, CommandFacts DEF InputInv, TicketInv, TicketsUpTo
      <3> QED BY <1>1, <3>2
    <2>3. \A t \in Sessions : InCall(CycleOf[t])' => call'[CycleOf[t]].command.ticket # generation + 1
      <3>1. \A t \in Sessions : InCall(CycleOf[t])' => call'[CycleOf[t]].command.ticket \in Nat /\ call'[CycleOf[t]].command.ticket <= generation
        BY <1>1, <1>7, <1>10, Threads, CommandFacts DEF CallTypes, Stale, TicketsUpTo
      <3> QED BY <1>1, <3>1
    <2> QED BY <1>1, <2>1, <2>2, <2>3 DEF NoFresh, FreshAt, Fresh
  <1>14. FreshInv'
    BY <1>13 DEF FreshInv, NoFresh
  <1>15. ReleaseInv'
    <2>1. \A i \in DOMAIN high : high[i].sequence \in Nat
      BY CommandFacts DEF InputInv, QueueTypes, HighCommands
    <2> QED BY <1>1, <1>4, <1>5, <2>1 DEF InputInv, ReleaseInv, ReleaseAt, InCall
  <1>16. ShiftInv'
    BY <1>1, <1>13 DEF ShiftInv, NoFresh
  <1> QED BY <1>7, <1>8, <1>11, <1>12, <1>14, <1>15, <1>16 DEF InputInv

(* The answer to a release: a good one found the device quiet (release_spam). *)
LEMMA HasAnswerKeeps ==
    ASSUME InputInv, LoopTypes, HasAnswer
    PROVE  InputInv'
  <1>1. /\ UNCHANGED <<high, normal, worker, cmd, wpc, device, spam, session, generation, sequence, ready, faults>>
        /\ Blocked /\ ~Live /\ ~Blocked' /\ loop # "off" /\ session \in Sessions /\ loop' # "pause"
        /\ quiet' = (call["loop"].st = "ok")
    BY DEF HasAnswer, workerState, counters, Live, Blocked, LoopTypes
  <1>2. "loop" \in Writers /\ \A t \in Sessions : CycleOf[t] \in Writers /\ CycleOf[t] # "loop"
    BY Threads
  <1>3. DOMAIN call' = Writers /\ \A w \in Writers : call'[w] = IF w = "loop" THEN NoCall ELSE call[w]
    BY <1>2 DEF HasAnswer, InputInv, CallTypes
  <1>4. call'["loop"] = NoCall /\ \A t \in Sessions : call'[CycleOf[t]] = call[CycleOf[t]]
    BY <1>2, <1>3
  <1>5. Stale /\ NoFresh /\ \A s \in Sessions : InCall(CycleOf[s]) => ~Fresh(call[CycleOf[s]].command)
    BY <1>1, StaleFacts DEF InputInv, TicketInv
  <1>6. \A t \in Sessions : task'[t] = task[t] \/ (t = session /\ task[t].st = "spawned" /\ task'[t] = NoTask)
    BY DEF HasAnswer, LoopTypes
  <1>7. QueueTypes' /\ DeviceTypes' /\ CallTypes'
    <2>1. CallTypes'
      BY <1>1, <1>3 DEF InputInv, CallTypes, InCall, NoCall, CallStates
    <2> QED BY <1>1, <2>1 DEF InputInv, QueueTypes, DeviceTypes
  <1>8. Slots'
    <2>1. \A t \in Sessions : call'[CycleOf[t]].st # "none" <=> task'[t].st = "running"
      BY <1>4, <1>6 DEF InputInv, Slots, NoTask
    <2>2. \A t \in Sessions : task'[t].st = "spawned" => task[t].st = "spawned" /\ task'[t] = task[t] /\ t = session
      BY <1>6 DEF InputInv, Slots, NoTask
    <2>3. loop' \in {"joining", "off", "dropping"} => task'[session].st # "spawned"
      BY <1>1 DEF HasAnswer, InputInv, Slots, LoopTypes, NoTask
    <2>4. \A t \in Sessions : t > session => task'[t].st = "none"
      BY <1>6 DEF InputInv, Slots, NoTask
    <2> QED BY <1>1, <1>4, <2>1, <2>2, <2>3, <2>4 DEF InputInv, Slots, NoCall
  <1>9. Stale' /\ TicketsUpTo(generation)'
    BY <1>1, <1>4, <1>5, <1>6 DEF InputInv, TicketInv, TicketsUpTo, Stale, InCall, NoTask
  <1>10. TicketInv'
    BY <1>1, <1>9 DEF InputInv, TicketInv
  <1>11. CalmInv'
    <2>1. quiet' => call["loop"].st = "ok"
      BY <1>1
    <2>2. call'["loop"].st # "ok"
      BY <1>4 DEF NoCall
    <2> QED BY <1>1, <2>1, <2>2 DEF InputInv, CalmInv, KnownInv, Calm
  <1>12. NoFresh' /\ FreshInv'
    BY <1>1, <1>4, <1>5 DEF FreshInv, NoFresh, FreshAt, Fresh, InCall
  <1>13. Live' => call["loop"].st = "ok"
    BY DEF HasAnswer, Live
  <1>14. ReleaseInv'
    BY <1>1, <1>4, <1>13 DEF InputInv, ReleaseInv, ReleaseAt, InCall, NoCall
  <1>15. ShiftInv'
    BY <1>1, <1>12, <1>13 DEF InputInv, CalmInv, Calm, ShiftInv, NoFresh
  <1> QED BY <1>7, <1>8, <1>10, <1>11, <1>12, <1>14, <1>15 DEF InputInv

(* A call that is refused or gives up keeps the invariant (submit, recv_timeout). *)
LEMMA IsRefusedKeeps ==
    ASSUME InputInv, LoopTypes, NEW w, IsRefused(w)
    PROVE  InputInv'
  <1>1. /\ UNCHANGED <<high, normal, worker, cmd, wpc, device, spam, session, generation, sequence, loop, loopVars, quiet, task>>
        /\ Live' = Live /\ Blocked' = Blocked
    BY DEF IsRefused, workerState, counters, spammerOnly, loopVars, Live, Blocked
  <1>2. /\ w \in Writers /\ InCall(w) /\ DOMAIN call' = Writers
        /\ \A v \in Writers : call'[v] = IF v = w THEN [st |-> "failed", command |-> NoCommand] ELSE call[v]
    BY DEF IsRefused, InputInv, CallTypes
  <1>3. \A v \in Writers : /\ call'[v] = call[v] \/ (InCall(v) /\ call'[v].st = "failed")
                           /\ call'[v].st # "none" <=> call[v].st # "none"
                           /\ call[v].st = "failed" => call'[v].st = "failed"
                           /\ InCall(v)' => call'[v] = call[v] /\ InCall(v)
    BY <1>2 DEF InCall
  <1>4. "loop" \in Writers /\ \A s \in Sessions : CycleOf[s] \in Writers
    BY Threads
  <1>5. QueueTypes' /\ DeviceTypes' /\ CallTypes'
    <2>1. faults' \in 0..MaxFaults
      BY InputAssumption DEF IsRefused, InputInv, DeviceTypes
    <2>2. CallTypes'
      BY <1>1, <1>2 DEF InputInv, CallTypes, InCall, CallStates
    <2> QED BY <1>1, <2>1, <2>2 DEF InputInv, QueueTypes, DeviceTypes
  <1>6. Slots'
    BY <1>1, <1>3, <1>4 DEF InputInv, Slots, loopVars
  <1>7. TicketInv'
    BY <1>1, <1>3, <1>4 DEF InputInv, TicketInv, TicketsUpTo, Stale
  <1>8. CalmInv'
    <2>1. call'["loop"].st = "ok" => call["loop"].st = "ok"
      BY <1>3, <1>4
    <2> QED BY <1>1, <2>1 DEF InputInv, CalmInv, KnownInv, Calm
  <1>9. session \in Sessions => Own' = Own \/ (InCall(CycleOf[session]) /\ Own'.st = "failed")
    BY <1>1, <1>3, <1>4 DEF Own
  <1>10. FreshInv'
    <2>1. \A s \in Sessions : InCall(CycleOf[s])' /\ Fresh(call[CycleOf[s]].command)' => s = session
      BY <1>1, <1>3, <1>4 DEF InputInv, FreshInv, Fresh
    <2>2. \A c : session \in Sessions /\ OwnIs(c) => OwnIs(c)'
      BY <1>9 DEF OwnIs
    <2> QED BY <1>1, <2>1, <2>2 DEF InputInv, FreshInv, Fresh, FreshAt, OwnIs, Own
  <1>11. ReleaseInv'
    <2>1. call'["loop"] = call["loop"] \/ call'["loop"].st = "failed"
      BY <1>3, <1>4
    <2> QED BY <1>1, <2>1 DEF InputInv, ReleaseInv, ReleaseAt, InCall
  <1>12. ShiftInv'
    <2>1. Live /\ Own.st = "failed" => Own'.st = "failed"
      BY <1>1, <1>3, <1>4 DEF Own, Live, LoopTypes
    <2> QED BY <1>1, <2>1 DEF InputInv, ShiftInv, NoFresh, FreshAt, Fresh
  <1> QED BY <1>5, <1>6, <1>7, <1>8, <1>10, <1>11, <1>12 DEF InputInv

(* A command enters its queue behind the older ones (submit). *)
LEMMA EntersKeeps ==
    ASSUME InputInv, LoopTypes, NEW w, Enters(w)
    PROVE  InputInv'
  <1> DEFINE c == call[w].command
  <1>1. /\ UNCHANGED <<worker, cmd, wpc, device, spam, session, generation, sequence, loop, ready, pending, quiet, task, faults>>
        /\ Live' = Live /\ Blocked' = Blocked
    BY DEF Enters, workerState, counters, spammerOnly, loopVars, Live, Blocked
  <1>2. /\ w \in Writers /\ call[w].st = "drawn" /\ DOMAIN call' = Writers
        /\ \A v \in Writers : call'[v] = IF v = w THEN [st |-> "sent", command |-> c] ELSE call[v]
        /\ c \in Commands /\ c.writer = w /\ c.kind # "press" /\ InCall(w)
    BY DEF Enters, InputInv, CallTypes, InCall
  <1>3. \A v \in Writers : /\ call'[v].st # "none" <=> call[v].st # "none"
                           /\ call[v].st = "failed" <=> call'[v].st = "failed"
                           /\ InCall(v)' <=> InCall(v)
                           /\ call'[v].command = call[v].command
                           /\ call'[v].st = "ok" => call[v].st = "ok"
    BY <1>2 DEF InCall
  <1>4. "loop" \in Writers /\ \A s \in Sessions : CycleOf[s] \in Writers /\ CycleOf[s] # "loop"
    BY Threads
  <1> HIDE DEF c
  <1>5. DeviceTypes' /\ CallTypes'
    BY <1>1, <1>2 DEF InputInv, DeviceTypes, CallTypes, InCall, CallStates
  <1>6. Slots'
    BY <1>1, <1>3, <1>4 DEF InputInv, Slots
  <1>7. CalmInv'
    BY <1>1, <1>3, <1>4 DEF InputInv, CalmInv, KnownInv, Calm
  <1>8. CASE c \in HighCommands /\ high' = Append(high, c) /\ Len(high) < HighCapacity /\ UNCHANGED normal
    <2>1. c.kind = "release" /\ w = "loop" /\ c = call["loop"].command /\ call["loop"].st = "drawn"
      BY <1>2, <1>8, CommandFacts DEF Kinds, c
    <2>2. /\ high' \in Seq(HighCommands) /\ Len(high') = Len(high) + 1 /\ Len(high) \in Nat
          /\ DOMAIN high = 1..Len(high) /\ DOMAIN high' = 1..(Len(high) + 1)
          /\ \A i \in DOMAIN high : i \in Nat /\ i <= Len(high) /\ high'[i] = high[i]
          /\ high'[Len(high) + 1] = c
          /\ \A i \in DOMAIN high' : i \in DOMAIN high \/ i = Len(high) + 1
      BY <1>8, Added DEF InputInv, QueueTypes
    <2>3. \A s \in Sessions : call'[CycleOf[s]] = call[CycleOf[s]]
      BY <1>2, <1>4, <2>1
    <2>4. QueueTypes'
      BY <1>8, <2>2, InputAssumption DEF InputInv, QueueTypes
    <2>5. TicketInv'
      BY <1>1, <1>8, <2>3 DEF InputInv, TicketInv, TicketsUpTo, Stale, InCall
    <2>6. FreshInv'
      BY <1>1, <1>8, <2>3 DEF InputInv, FreshInv, Fresh, FreshAt, OwnIs, Own, InCall
    <2>7. ReleaseInv'
      <3>1. c.sequence < sequence /\ c.sequence \in Nat
        BY <1>2, <2>1, CommandFacts DEF InputInv, ReleaseInv
      <3>2. \A i \in DOMAIN high : ReleaseAt(i) => high[i].sequence < c.sequence /\ high[i] # c /\ high[i].sequence < sequence
        <4>1. \A i \in DOMAIN high : ReleaseAt(i) => high[i].sequence < c.sequence /\ high[i].sequence < sequence
          BY <2>1 DEF InputInv, ReleaseInv
        <4> QED BY <3>1, <4>1
      <3>3. \A i \in DOMAIN high' : ReleaseAt(i)' => high'[i].sequence < sequence'
        BY <1>1, <2>2, <3>1, <3>2 DEF ReleaseAt
      <3>4. call'["loop"] = [st |-> "sent", command |-> c]
        BY <1>2, <2>1
      <3>5. \A i \in DOMAIN high' : high'[i] = c => i = Len(high) + 1
        BY <2>1, <2>2, <3>2 DEF ReleaseAt
      <3>6. \A i, j \in DOMAIN high' : high'[i] = c => j <= i
        BY <2>2, <3>5
      <3>7. ~Live
        BY <1>2, <2>1 DEF InputInv, Slots, Live, Blocked
      <3> QED BY <1>1, <3>1, <3>3, <3>4, <3>6, <3>7 DEF ReleaseInv, InCall
    <2>8. ShiftInv'
      <3>1. Live => Own' = Own
        BY <1>1, <2>3 DEF Own, Live, LoopTypes
      <3> QED BY <1>1, <1>8, <3>1 DEF InputInv, ShiftInv, NoFresh, Fresh, FreshAt
    <2> QED BY <1>5, <1>6, <1>7, <2>4, <2>5, <2>6, <2>7, <2>8 DEF InputInv
  <1>9. CASE c \in NormalCommands /\ normal' = Append(normal, c) /\ Len(normal) < NormalCapacity /\ UNCHANGED high
    <2>1. PICK s \in Sessions : w = CycleOf[s]
      BY <1>2, <1>9, CommandFacts DEF Kinds
    <2>2. /\ normal' \in Seq(NormalCommands) /\ Len(normal') = Len(normal) + 1 /\ Len(normal) \in Nat
          /\ DOMAIN normal = 1..Len(normal) /\ DOMAIN normal' = 1..(Len(normal) + 1)
          /\ \A i \in DOMAIN normal : i \in DOMAIN normal' /\ normal'[i] = normal[i] /\ i # Len(normal) + 1
          /\ normal'[Len(normal) + 1] = c
          /\ \A i \in DOMAIN normal' : i \in DOMAIN normal \/ i = Len(normal) + 1
      BY <1>9, Added DEF InputInv, QueueTypes
    <2>3. QueueTypes'
      BY <1>9, <2>2, InputAssumption DEF InputInv, QueueTypes
    <2>4. call'["loop"] = call["loop"]
      BY <1>2, <1>4, <2>1
    <2>5. ReleaseInv'
      BY <1>1, <1>9, <2>4 DEF InputInv, ReleaseInv, ReleaseAt, InCall
    <2>6. \A n : TicketsUpTo(n) => TicketsUpTo(n)'
      <3>1. SUFFICES ASSUME NEW n, TicketsUpTo(n) PROVE TicketsUpTo(n)'
        OBVIOUS
      <3>2. c.ticket <= n
        BY <1>2, <2>1, <3>1 DEF TicketsUpTo, c
      <3> QED BY <1>1, <1>3, <1>4, <2>2, <3>1, <3>2 DEF TicketsUpTo
    <2>7. TicketInv'
      BY <1>1, <2>6 DEF InputInv, TicketInv, Stale
    <2>8. \A t \in Sessions : t # s => call'[CycleOf[t]] = call[CycleOf[t]]
      BY <1>2, <1>4, <2>1, Threads
    <2>9. call'[CycleOf[s]] = [st |-> "sent", command |-> c] /\ call[CycleOf[s]].st = "drawn" /\ call[CycleOf[s]].command = c
      BY <1>2, <2>1 DEF c
    <2>10. Fresh(c) => s = session
      BY <1>2, <2>1, <2>9 DEF InputInv, FreshInv
    <2>11. s = session => NoFresh /\ Own.st = "drawn"
      BY <2>9 DEF InputInv, FreshInv, OwnIs, Own, NoFresh
    <2>12. \A i \in DOMAIN normal' : FreshAt(i)' => FreshAt(i) \/ (i = Len(normal) + 1 /\ Fresh(c))
      BY <1>1, <2>2 DEF FreshAt, Fresh
    <2>13. FreshInv'
      <3>1. \A t \in Sessions : InCall(CycleOf[t])' /\ Fresh(call[CycleOf[t]].command)' => t = session
        BY <1>1, <1>3, <1>4 DEF InputInv, FreshInv, Fresh
      <3>2. CASE s = session
        <4>1. \A i \in DOMAIN normal' : FreshAt(i)' => i = Len(normal) + 1
          BY <2>11, <2>12, <3>2 DEF NoFresh, FreshAt
        <4>2. ~Fresh(cmd)'
          BY <1>1, <2>11, <3>2 DEF NoFresh, Fresh
        <4>3. Own'.st = "sent" /\ Own'.command = c
          BY <1>1, <2>9, <3>2 DEF Own
        <4>4. \A i \in DOMAIN normal' : FreshAt(i)' => normal'[i] = c /\ OwnIs(normal[i])'
          BY <2>2, <4>1, <4>3 DEF OwnIs
        <4> QED BY <1>1, <3>1, <3>2, <4>1, <4>2, <4>4 DEF FreshInv
      <3>3. CASE s # session
        <4>1. session \in Sessions => Own' = Own
          BY <1>1, <2>8, <3>3 DEF Own
        <4>2. \A i \in DOMAIN normal' : FreshAt(i)' => FreshAt(i) /\ i \in DOMAIN normal
          BY <2>10, <2>12, <3>3 DEF FreshAt
        <4> QED BY <1>1, <2>2, <3>1, <4>1, <4>2 DEF InputInv, FreshInv, OwnIs, Fresh
      <3> QED BY <3>2, <3>3
    <2>14. ShiftInv'
      <3>1. CASE s = session
        BY <1>1, <2>11, <3>1 DEF InputInv, ShiftInv, Fresh
      <3>2. CASE s # session
        <4>1. Live => Own' = Own
          BY <1>1, <2>8, <3>2 DEF Own, Live, LoopTypes
        <4>2. NoFresh => NoFresh'
          BY <1>1, <2>10, <2>12, <3>2 DEF NoFresh, Fresh, FreshAt
        <4> QED BY <1>1, <4>1, <4>2 DEF InputInv, ShiftInv, Fresh
      <3> QED BY <3>1, <3>2
    <2> QED BY <1>5, <1>6, <1>7, <2>3, <2>5, <2>7, <2>13, <2>14 DEF InputInv
  <1> QED BY <1>8, <1>9 DEF Enters, c

(* The worker ends only without a session, and its device goes with it (shutdown). *)
LEMMA ShutdownKeeps ==
    ASSUME InputInv, LoopTypes, loop = "off", WorkerShutdown, UNCHANGED spammerOnly
    PROVE  InputInv'
  <1>1. /\ UNCHANGED <<cmd, wpc, session, generation, sequence, loop, ready, pending, quiet, task, faults>>
        /\ wpc = "idle" /\ high' = <<>> /\ normal' = <<>> /\ device' = {} /\ worker' = "gone"
        /\ ~Live' /\ ~Live /\ ~Blocked' /\ ~Blocked
    BY DEF WorkerShutdown, spammerOnly, loopVars, Live, Blocked
  <1>2. DOMAIN call' = Writers /\ \A w \in Writers : call'[w] = IF call[w].st = "sent" THEN [st |-> "failed", command |-> NoCommand] ELSE call[w]
    BY DEF WorkerShutdown, Answer
  <1>3. \A w \in Writers : /\ call'[w].st # "none" <=> call[w].st # "none"
                           /\ InCall(w)' => call'[w] = call[w] /\ InCall(w)
                           /\ call'[w].st = "ok" => call[w].st = "ok"
    BY <1>2 DEF InCall
  <1>4. "loop" \in Writers /\ \A s \in Sessions : CycleOf[s] \in Writers
    BY Threads
  <1>5. /\ spam' \in SpamStates /\ spam'.key = NoKey /\ ~spam'.shift /\ ~spam'.mouse
    <2>1. spam' = Forget(spam, HeldSpam(spam))
      BY DEF WorkerShutdown
    <2> QED BY <2>1, HeldFacts, ForgetFacts DEF InputInv
  <1>6. QueueTypes' /\ DeviceTypes' /\ CallTypes'
    <2>1. CallTypes'
      BY <1>1, <1>2 DEF InputInv, CallTypes, InCall, CallStates
    <2>2. QueueTypes'
      BY <1>1, InputAssumption DEF QueueTypes
    <2> QED BY <1>1, <1>5, <2>1, <2>2 DEF InputInv, DeviceTypes, SpamStates
  <1>7. Slots'
    BY <1>1, <1>3, <1>4 DEF InputInv, Slots, LoopPlaces, LoopTypes
  <1>8. Stale /\ NoFresh /\ \A s \in Sessions : InCall(CycleOf[s]) => ~Fresh(call[CycleOf[s]].command)
    BY <1>1, StaleFacts DEF InputInv, TicketInv
  <1>9. TicketInv'
    BY <1>1, <1>3, <1>4 DEF InputInv, TicketInv, TicketsUpTo, Stale
  <1>10. CalmInv'
    BY <1>1, <1>5 DEF CalmInv, KnownInv, Calm, CycleSteps
  <1>11. FreshInv'
    BY <1>1, <1>3, <1>4, <1>8 DEF FreshInv, NoFresh, Fresh, FreshAt
  <1>12. ReleaseInv'
    BY <1>1, <1>3, <1>4 DEF InputInv, ReleaseInv, ReleaseAt, Slots, InCall
  <1>13. ShiftInv'
    BY <1>1, <1>8 DEF ShiftInv, NoFresh, Fresh
  <1> QED BY <1>6, <1>7, <1>9, <1>10, <1>11, <1>12, <1>13 DEF InputInv

(* What a queue keeps when its first command is taken from one of the two. *)
LEMMA TakesQueues ==
    ASSUME InputInv, NEW c, Takes(c)
    PROVE  /\ \/ \A i \in DOMAIN high' : i \in Nat /\ i + 1 \in DOMAIN high /\ high'[i] = high[i + 1]
              \/ high' = high
           /\ \/ /\ \A i \in DOMAIN normal' : i \in Nat /\ i + 1 \in DOMAIN normal /\ normal'[i] = normal[i + 1]
                 /\ 1 \in DOMAIN normal /\ normal[1] = c
              \/ normal' = normal
           /\ c.kind = "release" =>
                 /\ 1 \in DOMAIN high /\ high[1] = c /\ normal' = normal
                 /\ \A i \in DOMAIN high' : i \in Nat /\ i + 1 \in DOMAIN high /\ high'[i] = high[i + 1]
           /\ c.kind = "cycle" =>
                 /\ 1 \in DOMAIN normal /\ normal[1] = c /\ high' = high
                 /\ \A i \in DOMAIN normal' : i \in Nat /\ i + 1 \in DOMAIN normal /\ normal'[i] = normal[i + 1]
  <1>1. c \in Commands
    BY DEF Takes
  <1>2. CASE TakesHigh(c)
    <2>1. c.kind # "cycle"
      BY <1>1, <1>2, CommandFacts DEF TakesHigh
    <2> QED BY <1>2, <2>1, Taken DEF TakesHigh, InputInv, QueueTypes
  <1>3. CASE TakesNormal(c)
    <2>1. c.kind # "release"
      BY <1>1, <1>3, CommandFacts DEF TakesNormal
    <2> QED BY <1>3, <2>1, Taken DEF TakesNormal, InputInv, QueueTypes
  <1> QED BY <1>2, <1>3 DEF Takes

(* A command taken from its queue: an older cycle is skipped, a release leaves nothing down. *)
LEMMA TakesKeeps ==
    ASSUME InputInv, LoopTypes, NEW c, Takes(c)
    PROVE  InputInv'
  <1>1. /\ UNCHANGED <<worker, session, generation, sequence, loop, ready, pending, quiet, task>>
        /\ Live' = Live /\ Blocked' = Blocked /\ wpc = "idle" /\ cmd = NoCommand /\ c \in Commands /\ Executed(c)
    BY DEF Takes, counters, spammerOnly, loopVars, Live, Blocked
  <1>2. QueueTypes' /\ DeviceTypes' /\ CallTypes' /\ KnownInv'
    BY TakesTypes DEF InputInv, CalmInv
  <1>3. "loop" \in Writers /\ \A s \in Sessions : CycleOf[s] \in Writers /\ CycleOf[s] # "loop"
    BY Threads
  <1>4. /\ DOMAIN call' = Writers
        /\ \A v \in Writers : \/ call'[v] = call[v]
                              \/ /\ v = c.writer /\ call[v].st = "sent" /\ call[v].command = c
                                 /\ call'[v].st \in {"ok", "skipped", "failed"} /\ cmd' = cmd
    BY <1>1 DEF Executed, Skips, Starts, FailsToStart, Presses, FailsToPress, Releases, Answers, InputInv, CallTypes
  <1>5. \A v \in Writers : /\ call'[v].st # "none" <=> call[v].st # "none"
                           /\ InCall(v)' => call'[v] = call[v] /\ InCall(v)
                           /\ call[v].st = "failed" => call'[v] = call[v]
    BY <1>4 DEF InCall
  <1>6. Slots'
    BY <1>1, <1>3, <1>5 DEF InputInv, Slots
  <1>7. \A i \in DOMAIN normal' : \E j \in DOMAIN normal : normal'[i] = normal[j]
    BY TakesQueues
  <1>8. cmd' \in {cmd, c} /\ (cmd' = c /\ wpc' \in CycleSteps => c.kind = "cycle") /\ (wpc' \in CycleSteps => cmd' = c)
    BY <1>1 DEF Executed, Skips, Starts, FailsToStart, Presses, FailsToPress, Releases, CycleSteps
  <1>9. \A n : TicketsUpTo(n) => TicketsUpTo(n)'
    <2>1. SUFFICES ASSUME NEW n, TicketsUpTo(n) PROVE TicketsUpTo(n)'
      OBVIOUS
    <2>2. wpc' \in CycleSteps => cmd'.ticket <= n
      BY <1>8, <2>1, TakesQueues DEF TicketsUpTo
    <2>3. \A i \in DOMAIN normal' : normal'[i].kind = "cycle" => normal'[i].ticket <= n
      BY <1>7, <2>1 DEF TicketsUpTo
    <2>4. \A s \in Sessions : InCall(CycleOf[s])' => call'[CycleOf[s]].command.ticket <= n
      BY <1>3, <1>5, <2>1 DEF TicketsUpTo
    <2> QED BY <1>1, <2>1, <2>2, <2>3, <2>4 DEF TicketsUpTo
  <1>10. TicketInv'
    BY <1>1, <1>9 DEF InputInv, TicketInv, Stale
  <1>11. c.kind # "cycle" => \A s \in Sessions : call'[CycleOf[s]] = call[CycleOf[s]]
    BY <1>1, <1>3, <1>4, CommandFacts
  <1>12. c.kind # "release" => call'["loop"] = call["loop"]
    BY <1>1, <1>3, <1>4, CommandFacts
  <1>13. c.kind # "release" => ReleaseInv'
    <2>1. ASSUME c.kind # "release" PROVE ReleaseInv'
      <3>1. \A i \in DOMAIN high' : i \in Nat /\ (high' = high \/ (i + 1 \in DOMAIN high /\ high'[i] = high[i + 1]))
        BY TakesQueues DEF InputInv, QueueTypes
      <3>2. CASE high' = high
        BY <1>1, <1>12, <2>1, <3>2 DEF InputInv, ReleaseInv, ReleaseAt, InCall
      <3>3. CASE \A i \in DOMAIN high' : i \in Nat /\ i + 1 \in DOMAIN high /\ high'[i] = high[i + 1]
        <4>1. \A i \in DOMAIN high' : ReleaseAt(i)' => ReleaseAt(i + 1) /\ high'[i] = high[i + 1] /\ i + 1 \in DOMAIN high
          BY <3>3 DEF ReleaseAt
        <4> QED BY <1>1, <1>12, <2>1, <3>3, <4>1 DEF InputInv, ReleaseInv, InCall
      <3> QED BY <3>2, <3>3, TakesQueues
    <2> QED BY <2>1
  <1>14. \A i, j \in DOMAIN normal' : FreshAt(i)' /\ FreshAt(j)' => i = j
    <2>1. CASE normal' = normal
      BY <1>1, <2>1 DEF InputInv, FreshInv, FreshAt, Fresh
    <2>2. CASE \A i \in DOMAIN normal' : i \in Nat /\ i + 1 \in DOMAIN normal /\ normal'[i] = normal[i + 1]
      <3>1. \A i \in DOMAIN normal' : FreshAt(i)' => FreshAt(i + 1) /\ i + 1 \in DOMAIN normal /\ i \in Nat
        BY <1>1, <2>2 DEF FreshAt, Fresh
      <3>2. \A i, j \in DOMAIN normal' : FreshAt(i)' /\ FreshAt(j)' => i + 1 = j + 1
        BY <3>1 DEF InputInv, FreshInv
      <3> QED BY <2>2, <3>2
    <2> QED BY <2>1, <2>2, TakesQueues
  <1>15. \A i \in DOMAIN normal' : FreshAt(i)' => \E j \in DOMAIN normal : FreshAt(j) /\ normal'[i] = normal[j]
    BY <1>1, <1>7 DEF FreshAt, Fresh
  <1>16. NoFresh /\ c.kind # "cycle" => NoFresh'
    BY <1>1, <1>8, <1>15 DEF NoFresh, Fresh
  <1>17. \A s \in Sessions : InCall(CycleOf[s])' /\ Fresh(call[CycleOf[s]].command)' => s = session
    BY <1>1, <1>3, <1>5 DEF InputInv, FreshInv, Fresh
  <1>18. c.kind # "cycle" => FreshInv'
    <2>1. ASSUME c.kind # "cycle" PROVE FreshInv'
      <3>1. ~Fresh(cmd)'
        BY <1>1, <1>8, <2>1, NothingIsNoCommand DEF Fresh, NoCommand
      <3>2. session \in Sessions => Own' = Own
        BY <1>1, <1>11, <2>1 DEF Own
      <3>3. \A i \in DOMAIN normal' : FreshAt(i)' => session \in Sessions /\ OwnIs(normal[i])'
        BY <1>15, <3>2 DEF InputInv, FreshInv, OwnIs
      <3> QED BY <1>1, <1>14, <1>17, <3>1, <3>3 DEF FreshInv
    <2> QED BY <2>1
  <1>19. c.kind = "cycle" /\ Fresh(c) => /\ FreshAt(1) /\ Live /\ ~quiet /\ OwnIs(c) /\ session \in Sessions
                                         /\ (Shift \in device <=> spam.shift)
                                         /\ \A i \in DOMAIN normal' : ~FreshAt(i)'
    <2>1. ASSUME c.kind = "cycle", Fresh(c)
          PROVE  /\ FreshAt(1) /\ Live /\ ~quiet /\ OwnIs(c) /\ session \in Sessions
                 /\ (Shift \in device <=> spam.shift)
                 /\ \A i \in DOMAIN normal' : ~FreshAt(i)'
      <3>1. 1 \in DOMAIN normal /\ normal[1] = c /\ \A i \in DOMAIN normal' : i \in Nat /\ i + 1 \in DOMAIN normal /\ normal'[i] = normal[i + 1]
        BY <2>1, TakesQueues
      <3>2. FreshAt(1) /\ ~NoFresh
        BY <2>1, <3>1 DEF FreshAt, NoFresh
      <3>3. Live /\ ~quiet
        BY <3>2, StaleFacts DEF InputInv, TicketInv
      <3>4. OwnIs(c) /\ session \in Sessions
        BY <3>1, <3>2 DEF InputInv, FreshInv
      <3>5. \A i \in DOMAIN normal' : ~FreshAt(i)'
        <4>1. SUFFICES ASSUME NEW i \in DOMAIN normal', FreshAt(i)' PROVE FALSE
          OBVIOUS
        <4>2. FreshAt(i + 1) /\ i \in Nat /\ i + 1 \in DOMAIN normal
          BY <1>1, <3>1, <4>1 DEF FreshAt, Fresh
        <4>3. i + 1 = 1
          BY <3>1, <3>2, <4>2 DEF InputInv, FreshInv
        <4>4. i = 0 /\ normal' \in Seq(NormalCommands)
          BY <1>2, <4>2, <4>3 DEF QueueTypes
        <4> QED BY <4>4
      <3> QED BY <3>2, <3>3, <3>4, <3>5 DEF InputInv, ShiftInv
    <2> QED BY <2>1
  <1>20. CASE Skips(c)
    <2>1. UNCHANGED <<cmd, wpc, device, spam>> /\ c.kind = "cycle" /\ Answers(c, "skipped")
      BY <1>20 DEF Skips
    <2>2. CalmInv'
      BY <1>1, <1>2, <1>12, <2>1 DEF InputInv, CalmInv, Calm
    <2>3. \A i \in DOMAIN normal' : FreshAt(i)' => session \in Sessions /\ OwnIs(normal[i])'
      <3>1. SUFFICES ASSUME NEW i \in DOMAIN normal', FreshAt(i)' PROVE session \in Sessions /\ OwnIs(normal[i])'
        OBVIOUS
      <3>2. ~Fresh(c)
        BY <1>19, <2>1, <3>1
      <3>3. PICK j \in DOMAIN normal : FreshAt(j) /\ normal'[i] = normal[j]
        BY <1>15, <3>1
      <3>4. session \in Sessions /\ OwnIs(normal[j]) /\ normal[j] # c
        BY <3>2, <3>3 DEF InputInv, FreshInv, FreshAt
      <3>5. Own' = Own
        BY <1>1, <1>3, <1>4, <3>4 DEF Own, OwnIs
      <3> QED BY <3>3, <3>4, <3>5 DEF OwnIs
    <2>4. ~Fresh(cmd)'
      BY <1>1, <2>1, NothingIsNoCommand DEF Fresh
    <2>5. FreshInv'
      BY <1>1, <1>14, <1>17, <2>3, <2>4 DEF FreshInv
    <2>6. ShiftInv'
      <3>1. NoFresh => NoFresh'
        BY <1>15, <2>4 DEF NoFresh
      <3>2. Live /\ Own.st = "failed" => Own'.st = "failed"
        BY <1>1, <1>3, <1>5 DEF Own, Live, LoopTypes
      <3> QED BY <1>1, <2>1, <3>1, <3>2 DEF InputInv, ShiftInv, Fresh
    <2> QED BY <1>2, <1>6, <1>10, <1>13, <2>1, <2>2, <2>5, <2>6 DEF InputInv
  <1>21. CASE Starts(c)
    <2>1. /\ c.kind = "cycle" /\ Fresh(c) /\ cmd' = c /\ wpc' = "rearm" /\ call' = call
          /\ spam'.shift = spam.shift /\ (Shift \in device' <=> Shift \in device)
      BY <1>21 DEF Starts
    <2>2. Live /\ ~quiet /\ OwnIs(c) /\ session \in Sessions /\ (Shift \in device <=> spam.shift)
      BY <1>19, <2>1
    <2>3. CalmInv'
      BY <1>1, <1>2, <2>1, <2>2 DEF InputInv, CalmInv, Slots, Live, Blocked
    <2>4. FreshInv'
      <3>1. OwnIs(c) => OwnIs(cmd)'
        BY <1>1, <2>1 DEF OwnIs, Own
      <3> QED BY <1>1, <1>17, <1>19, <2>1, <2>2, <3>1 DEF FreshInv
    <2>5. ShiftInv'
      BY <1>1, <2>1, <2>2 DEF ShiftInv, Fresh
    <2> QED BY <1>2, <1>6, <1>10, <1>13, <2>1, <2>3, <2>4, <2>5 DEF InputInv
  <1>22. CASE FailsToStart(c)
    <2>1. c.kind = "cycle" /\ Fresh(c) /\ Answers(c, "failed") /\ UNCHANGED <<cmd, wpc>>
      BY <1>22 DEF FailsToStart
    <2>2. Live /\ ~quiet /\ OwnIs(c) /\ session \in Sessions
      BY <1>19, <2>1
    <2>3. CalmInv'
      BY <1>1, <1>2, <1>12, <2>1, <2>2 DEF InputInv, CalmInv, Slots, Live, Blocked
    <2>4. NoFresh'
      BY <1>1, <1>19, <2>1, NothingIsNoCommand DEF NoFresh, Fresh
    <2>5. FreshInv'
      BY <1>1, <1>17, <2>4 DEF FreshInv, NoFresh
    <2>6. Own'.st = "failed"
      <3>1. Own.st = "sent" => Own.command.writer = CycleOf[session]
        BY <1>3, <2>2 DEF InputInv, CallTypes, Own, InCall
      <3>2. Own.st = "failed" \/ (Own.st = "sent" /\ Own.command = c /\ c.writer = CycleOf[session])
        BY <2>2, <3>1 DEF OwnIs
      <3> QED BY <1>1, <1>3, <2>1, <2>2, <3>2 DEF Own, Answers
    <2>7. ShiftInv'
      BY <1>1, <2>1, <2>4, <2>6 DEF ShiftInv, NoFresh, CycleSteps
    <2> QED BY <1>2, <1>6, <1>10, <1>13, <2>1, <2>3, <2>5, <2>7 DEF InputInv
  <1>23. CASE Presses(c) \/ FailsToPress(c)
    <2>1. c.kind = "press" /\ spam' = spam /\ wpc' \in {"idle", "press"} /\ (Shift \in device' <=> Shift \in device)
      BY <1>1, <1>23, InputAssumption DEF Presses, FailsToPress
    <2>2. Mouse \in device' => Mouse \in device
      BY <1>23, InputAssumption DEF Presses, FailsToPress
    <2>3. CalmInv'
      BY <1>1, <1>2, <1>12, <2>1, <2>2 DEF InputInv, CalmInv, Calm, CycleSteps
    <2>4. ~Fresh(cmd)'
      BY <1>1, <1>8, <2>1, NothingIsNoCommand DEF Fresh, NoCommand
    <2>5. ShiftInv'
      <3>1. Live => Own' = Own
        BY <1>1, <1>11, <2>1 DEF Own, Live, LoopTypes
      <3> QED BY <1>1, <1>16, <2>1, <2>4, <3>1 DEF InputInv, ShiftInv, CycleSteps
    <2> QED BY <1>2, <1>6, <1>10, <1>13, <1>18, <2>1, <2>3, <2>5 DEF InputInv
  <1>24. ASSUME NEW o \in {"ok", "failed"}, Releases(c, o)
         PROVE  InputInv'
    <2>1. c.kind = "release" /\ Answers(c, o) /\ UNCHANGED <<cmd, wpc>> /\ c.writer = "loop"
      BY <1>1, <1>24, CommandFacts DEF Releases
    <2>2. /\ 1 \in DOMAIN high /\ high[1] = c /\ normal' = normal
          /\ \A i \in DOMAIN high' : i \in Nat /\ i + 1 \in DOMAIN high /\ high'[i] = high[i + 1]
      BY <2>1, TakesQueues
    <2>3. ReleaseAt(1) /\ ~Live /\ call["loop"].st # "ok"
      BY <2>1, <2>2 DEF ReleaseAt, InputInv, ReleaseInv
    <2>4. o = "ok" => Calm'
      BY <1>1, <1>24, <2>1 DEF Releases, Calm, CycleSteps
    <2>5. quiet => o = "ok"
      <3>1. quiet => spam.key = NoKey /\ ~spam.shift /\ ~spam.mouse
        BY DEF InputInv, CalmInv, Calm
      <3>2. quiet => HeldSpam(spam) = {}
        BY <3>1 DEF HeldSpam, Held
      <3> QED BY <1>24, <3>2 DEF Releases
    <2>6. call'["loop"] = call["loop"] \/ (call["loop"].st = "sent" /\ call["loop"].command = c /\ call'["loop"].st = o)
      BY <1>3, <2>1 DEF Answers
    <2>7. CalmInv'
      BY <1>1, <1>2, <2>3, <2>4, <2>5, <2>6 DEF CalmInv
    <2>8. \A i \in DOMAIN high' : ReleaseAt(i)' => ReleaseAt(i + 1) /\ high'[i] = high[i + 1] /\ i + 1 \in DOMAIN high /\ i \in Nat
      BY <2>2 DEF ReleaseAt
    <2>9. ReleaseInv'
      <3>1. \A i \in DOMAIN high' : ReleaseAt(i)' => high'[i].sequence < sequence'
        BY <1>1, <2>8 DEF InputInv, ReleaseInv
      <3>2. CASE call'["loop"] = call["loop"]
        <4>1. call'["loop"].st = "sent" => \A i, j \in DOMAIN high' : high'[i] = call'["loop"].command /\ ReleaseAt(j)' => j <= i
          <5>1. SUFFICES ASSUME call["loop"].st = "sent", NEW i \in DOMAIN high', NEW j \in DOMAIN high',
                                high'[i] = call["loop"].command, ReleaseAt(j)'
                         PROVE  j <= i
            BY <3>2
          <5>2. i \in Nat /\ j \in Nat /\ i + 1 \in DOMAIN high /\ j + 1 \in DOMAIN high /\ high[i + 1] = call["loop"].command /\ ReleaseAt(j + 1)
            BY <2>2, <2>8, <5>1
          <5>3. j + 1 <= i + 1
            BY <5>1, <5>2 DEF InputInv, ReleaseInv
          <5> QED BY <5>2, <5>3
        <4>2. call'["loop"].st = "drawn" => \A i \in DOMAIN high' : ReleaseAt(i)' => high'[i].sequence < call'["loop"].command.sequence
          BY <2>8, <3>2 DEF InputInv, ReleaseInv
        <4>3. InCall("loop")' => call'["loop"].command.sequence < sequence'
          BY <1>1, <3>2 DEF InputInv, ReleaseInv, InCall
        <4> QED BY <1>1, <2>3, <3>1, <3>2, <4>1, <4>2, <4>3 DEF ReleaseInv
      <3>3. CASE call["loop"].st = "sent" /\ call["loop"].command = c /\ call'["loop"].st = o
        <4>1. \A j \in DOMAIN high : ReleaseAt(j) => j <= 1
          BY <2>2, <3>3 DEF InputInv, ReleaseInv
        <4>2. \A i \in DOMAIN high' : ~ReleaseAt(i)'
          <5>1. SUFFICES ASSUME NEW i \in DOMAIN high', ReleaseAt(i)' PROVE FALSE
            OBVIOUS
          <5>2. i + 1 <= 1 /\ i \in Nat
            BY <2>8, <4>1, <5>1
          <5>3. i = 0 /\ high' \in Seq(HighCommands)
            BY <1>2, <5>2 DEF QueueTypes
          <5> QED BY <5>1, <5>3
        <4> QED BY <3>1, <3>3, <4>2 DEF ReleaseInv, InCall
      <3> QED BY <2>6, <3>2, <3>3
    <2>10. ShiftInv'
      <3>1. ~Fresh(cmd)'
        BY <1>1, <2>1, NothingIsNoCommand DEF Fresh
      <3> QED BY <1>1, <2>3, <3>1 DEF ShiftInv
    <2> QED BY <1>2, <1>6, <1>10, <1>18, <2>1, <2>7, <2>9, <2>10 DEF InputInv
  <1> QED BY <1>1, <1>20, <1>21, <1>22, <1>23, <1>24 DEF Executed

(* A cycle goes on only while no release was requested since its dispatch. *)
LEMMA MidKeeps ==
    ASSUME InputInv, LoopTypes, MidStep, UNCHANGED spammerOnly
    PROVE  InputInv'
  <1>1. /\ UNCHANGED <<worker, high, normal, session, generation, sequence, loop, ready, pending, quiet, task>>
        /\ Live' = Live /\ Blocked' = Blocked /\ wpc # "idle" /\ cmd \in Commands
        /\ GoesOn \/ \E o \in Outcomes : Ends(o)
    BY MidCases DEF spammerOnly, loopVars, Live, Blocked, InputInv, CalmInv
  <1>2. QueueTypes' /\ DeviceTypes' /\ CallTypes' /\ KnownInv'
    BY <1>1, MidTypes DEF InputInv, CalmInv, QueueTypes
  <1>3. "loop" \in Writers /\ \A s \in Sessions : CycleOf[s] \in Writers /\ CycleOf[s] # "loop"
    BY Threads
  <1>4. CASE GoesOn
    <2>1. cmd.kind = "cycle" /\ Fresh(cmd) /\ UNCHANGED <<cmd, call>> /\ cmd.key \in Labels /\ cmd.shift \in BOOLEAN
      BY <1>1, <1>4, CommandFacts DEF GoesOn
    <2>2. Live /\ ~quiet /\ ~NoFresh
      BY <2>1, StaleFacts DEF InputInv, TicketInv, NoFresh
    <2>3. Slots'
      BY <1>1, <2>1 DEF InputInv, Slots
    <2>4. TicketInv'
      BY <1>1, <1>4, <2>1 DEF InputInv, TicketInv, TicketsUpTo, Stale, InCall, GoesOn, CycleSteps
    <2>5. CalmInv'
      BY <1>1, <1>2, <2>1, <2>2 DEF InputInv, CalmInv, Slots, Live, Blocked
    <2>6. FreshInv'
      BY <1>1, <2>1 DEF InputInv, FreshInv, Fresh, FreshAt, OwnIs, Own, InCall
    <2>7. ReleaseInv'
      BY <1>1, <2>1 DEF InputInv, ReleaseInv, ReleaseAt, InCall
    <2>8. Shift \in device <=> spam.shift
      BY <2>2 DEF InputInv, ShiftInv
    <2>9. spam \in SpamStates /\ cmd.key # Shift
      BY <2>1, InputAssumption DEF InputInv, DeviceTypes, SpamStates
    <2>10. /\ Shift \in device' <=> spam'.shift
           /\ wpc' \in {"modifier", "settle", "hold"} /\ spam'.shift = cmd.shift
           /\ wpc' = "settle" => cmd.key \in device'
      <3>1. CASE wpc = "rearm" /\ wpc' = "modifier" /\ spam' = [spam EXCEPT !.shift = cmd.shift]
        BY <1>4, <2>1, <2>8, <2>9, <3>1 DEF GoesOn, SpamStates
      <3>2. CASE wpc = "modifier" /\ wpc' = "settle" /\ spam' = [spam EXCEPT !.key = cmd.key]
        BY <1>4, <2>1, <2>8, <2>9, <3>2 DEF GoesOn, SpamStates, InputInv, ShiftInv
      <3>3. CASE wpc = "settle" /\ wpc' = "hold" /\ spam' = [spam EXCEPT !.mouse = TRUE]
        BY <1>4, <2>1, <2>8, <2>9, <3>3 DEF GoesOn, SpamStates, InputInv, ShiftInv, Shift, Mouse
      <3> QED BY <1>4, <3>1, <3>2, <3>3 DEF GoesOn
    <2>11. ShiftInv'
      BY <1>1, <2>1, <2>10 DEF ShiftInv, Fresh
    <2> QED BY <1>2, <2>3, <2>4, <2>5, <2>6, <2>7, <2>11 DEF InputInv
  <1>5. ASSUME NEW o \in Outcomes, Ends(o)
        PROVE  InputInv'
    <2>1. Answers(cmd, o) /\ cmd' = NoCommand /\ wpc' = "idle" /\ ~Fresh(cmd)' /\ wpc' \notin CycleSteps
      BY <1>5, NothingIsNoCommand DEF Ends, Fresh, NoCommand, CycleSteps
    <2>2. cmd.kind # "release" /\ cmd.writer # "loop" /\ (cmd.kind = "press" => wpc = "press") /\ (wpc = "press" => cmd.kind = "press")
      BY <1>1, CommandFacts DEF InputInv, DeviceTypes, CycleSteps
    <2>3. \A v \in Writers : /\ call'[v].st # "none" <=> call[v].st # "none"
                             /\ InCall(v)' => call'[v] = call[v] /\ InCall(v)
                             /\ call[v].st = "failed" => call'[v] = call[v]
                             /\ call'[v] = call[v] \/ (v = cmd.writer /\ call[v].st = "sent" /\ call[v].command = cmd /\ call'[v].st = o)
      BY <2>1, <1>5 DEF Answers, InCall, Outcomes, Ends
    <2>4. call'["loop"] = call["loop"]
      BY <1>3, <2>2, <2>3
    <2>5. Slots'
      BY <1>1, <1>3, <2>3 DEF InputInv, Slots
    <2>6. TicketInv'
      BY <1>1, <1>3, <2>1, <2>3 DEF InputInv, TicketInv, TicketsUpTo, Stale
    <2>7. CalmInv'
      <3>1. ASSUME quiet \/ call["loop"].st = "ok" PROVE Calm'
        <4>1. Calm /\ wpc = "press"
          BY <1>1, <3>1 DEF InputInv, CalmInv, Calm, DeviceTypes
        <4> QED BY <1>5, <2>1, <4>1 DEF Calm, Ends
      <3> QED BY <1>1, <1>2, <2>4, <3>1 DEF CalmInv
    <2>8. \A i \in DOMAIN normal' : FreshAt(i)' => FreshAt(i) /\ normal'[i] = normal[i]
      BY <1>1 DEF FreshAt, Fresh
    <2>9. FreshInv'
      <3>1. \A s \in Sessions : InCall(CycleOf[s])' /\ Fresh(call[CycleOf[s]].command)' => s = session
        BY <1>1, <1>3, <2>3 DEF InputInv, FreshInv, Fresh
      <3>2. ASSUME NEW i \in DOMAIN normal', FreshAt(i)'
            PROVE  session \in Sessions /\ OwnIs(normal[i])'
        <4>1. FreshAt(i) /\ normal'[i] = normal[i] /\ session \in Sessions /\ OwnIs(normal[i]) /\ ~Fresh(cmd) /\ normal[i] # cmd
          BY <1>1, <2>8, <3>2 DEF InputInv, FreshInv, FreshAt
        <4>2. Own' = Own
          BY <1>1, <1>3, <2>3, <4>1 DEF Own, OwnIs
        <4> QED BY <1>1, <4>1, <4>2 DEF OwnIs
      <3> QED BY <1>1, <2>1, <2>8, <3>1, <3>2 DEF InputInv, FreshInv
    <2>10. ReleaseInv'
      BY <1>1, <2>4 DEF InputInv, ReleaseInv, ReleaseAt, InCall
    <2>11. NoFresh => NoFresh'
      BY <1>1, <2>1, <2>8 DEF NoFresh
    <2>12. ShiftInv'
      <3>1. CASE ~Live
        BY <1>1, <2>1, <3>1 DEF ShiftInv
      <3>2. CASE Live /\ wpc = "press"
        <4>1. spam' = spam /\ (Shift \in device' <=> Shift \in device)
          BY <1>5, <3>2 DEF Ends
        <4>2. Own.st = "failed" => Own'.st = "failed"
          BY <1>1, <1>3, <2>3, <3>2 DEF Own, Live, LoopTypes
        <4> QED BY <1>1, <2>1, <2>11, <3>2, <4>1, <4>2 DEF InputInv, ShiftInv
      <3>3. CASE Live /\ wpc # "press"
        <4>1. wpc \in CycleSteps /\ Fresh(cmd)
          BY <1>1, <3>3 DEF InputInv, DeviceTypes, ShiftInv
        <4>2. session \in Sessions /\ OwnIs(cmd) /\ \A i \in DOMAIN normal : ~FreshAt(i)
          BY <4>1 DEF InputInv, FreshInv
        <4>3. (Shift \in device <=> spam.shift) /\ NoFresh'
          BY <1>1, <2>1, <2>8, <3>3, <4>1, <4>2 DEF InputInv, ShiftInv, NoFresh
        <4>4. CASE o = "ok"
          BY <1>5, <2>1, <4>3, <4>4 DEF ShiftInv, Ends
        <4>5. CASE o = "failed"
          <5>1. Own.st = "sent" => Own.command.writer = CycleOf[session]
            BY <1>3, <4>2 DEF InputInv, CallTypes, Own, InCall
          <5>2. Own'.st = "failed"
            BY <1>1, <1>3, <2>1, <2>3, <4>2, <4>5, <5>1 DEF Own, OwnIs, Answers
          <5> QED BY <2>1, <4>3, <5>2 DEF ShiftInv
        <4>6. o # "skipped"
          BY <1>5, <4>1 DEF Ends
        <4> QED BY <4>4, <4>5, <4>6 DEF Outcomes
      <3> QED BY <3>1, <3>2, <3>3
    <2> QED BY <1>2, <2>5, <2>6, <2>7, <2>9, <2>10, <2>12 DEF InputInv
  <1> QED BY <1>1, <1>4, <1>5

(* ----------------------- every step is of one kind ------------------------ *)

(* What makes a step of the loop a request of a release. *)
LEMMA AsksReleaseIntro ==
    ASSUME LoopTypes, DeviceTypes, CallTypes,
           UNCHANGED <<worker, cmd, wpc, device, spam, high, normal, session>>,
           faults' = faults \/ (faults > 0 /\ faults' = faults - 1),
           loop # "off", loop' \in {"readying", "cancel", "pause", "ending", "dropping"}, ~quiet', SubmitRelease("loop"),
           \/ task' = task /\ loop' # "dropping"
           \/ task' = task /\ task[session].st # "spawned"
           \/ AbortTasks,
           loop' = "pause" => pending' # <<>>
    PROVE  AsksRelease
  <1>1. session \in Sessions /\ faults \in Nat
    BY InputAssumption DEF LoopTypes, DeviceTypes
  <1>2. faults' \in {faults, faults - 1} \intersect Nat
    BY <1>1
  <1>3. /\ generation' = generation + 1 /\ sequence' = sequence + 1 /\ DOMAIN call' = Writers
        /\ call'["loop"] = CallOf("loop", "release", NoKey, FALSE, 0)
        /\ \A w \in Writers \ {"loop"} : call'[w] = call[w]
    BY Threads DEF SubmitRelease, CallTypes
  <1>4. call'[CycleOf[session]] = call[CycleOf[session]]
    BY <1>1, <1>3, Threads
  <1>5. EndsCycle(session) /\ (loop' = "dropping" => task'[session].st # "spawned")
    <2>1. CASE task' = task /\ (loop' = "dropping" => task[session].st # "spawned")
      BY <1>4, <2>1 DEF EndsCycle
    <2>2. CASE AbortTasks
      <3>1. CASE task[session].st = "spawned"
        BY <1>1, <1>4, <2>2, <3>1 DEF EndsCycle, AbortTasks, LoopTypes, NoTask
      <3>2. CASE task[session].st # "spawned"
        <4>1. task' = task
          BY <1>1, <2>2, <3>2 DEF AbortTasks, LoopTypes
        <4> QED BY <1>4, <3>2, <4>1 DEF EndsCycle
      <3> QED BY <3>1, <3>2
    <2> QED BY <2>1, <2>2
  <1> QED BY <1>1, <1>2, <1>3, <1>5 DEF AsksRelease, workerState, Blocked

Local == StaysLocal \/ StartsSession \/ Dispatches
Calls ==
    \/ AsksRelease \/ HasAnswer
    \/ \E s \in Sessions : AsksCycle(s) \/ CycleEnds(s)
    \/ \E w : PressEnds(w) \/ \E c : AsksPress(w, c)

(* Every step of the loop is of one of the kinds (run). *)
LEMMA LoopStepCases ==
    ASSUME LoopTypes, InputdTypes, InputInv, WorkInv, LoopStep
    PROVE  Local \/ Calls
  <1> USE DEF Local, Calls
  <1>0. LoopTypes /\ DeviceTypes /\ CallTypes /\ Slots /\ faults \in Nat
    BY InputAssumption DEF InputInv, DeviceTypes
  <1>1. CASE SeesStop \/ ReadyTimeout \/ SeesEof \/ ReadFatal
    <2>1. loop = "select" /\ BreakMain /\ task' = task /\ UNCHANGED LoopFrame
      BY <1>1 DEF SeesStop, ReadyTimeout, SeesEof, ReadFatal, Line
    <2> QED BY <1>0, <2>1, AsksReleaseIntro DEF BreakMain, LoopFrame, workerOnly
  <1>2. CASE ReadReady
    BY <1>0, <1>2, AsksReleaseIntro DEF ReadReady, Line, LoopFrame, workerOnly
  <1>3. CASE ReadTrigger
    <2>1. loop = "select" /\ task' = task /\ UNCHANGED LoopFrame /\ ready' = ready
      BY <1>3 DEF ReadTrigger, Line
    <2>2. CASE loop' = "cancel" /\ SubmitRelease("loop") /\ quiet' = FALSE
      BY <1>0, <2>1, <2>2, AsksReleaseIntro DEF LoopFrame, workerOnly
    <2>3. CASE pending' # <<>> /\ loop' = "pause" /\ SubmitRelease("loop") /\ quiet' = FALSE
      BY <1>0, <2>1, <2>3, AsksReleaseIntro DEF LoopFrame, workerOnly
    <2>4. CASE UNCHANGED <<loop, quiet, call, generation, sequence>>
      BY <1>0, <2>1, <2>4 DEF StaysLocal, LoopFrame, workerOnly, workerState, counters
    <2> QED BY <1>3, <2>2, <2>3, <2>4 DEF ReadTrigger
  <1>4. CASE ReleaseReturns
    <2>1. Answered("loop") /\ Blocked /\ UNCHANGED <<session, workerOnly>> /\ loop # "off"
      BY <1>0, <1>4 DEF ReleaseReturns, Slots, Answered, Blocked
    <2>2. CASE call["loop"].st # "ok" /\ loop' = "ending" /\ SubmitRelease("loop") /\ quiet' = FALSE /\ UNCHANGED <<task, equips>>
      BY <1>0, <2>1, <2>2, AsksReleaseIntro DEF workerOnly
    <2>3. CASE /\ loop \in {"readying", "cancel"} /\ call["loop"].st = "ok" /\ loop' = "select" /\ call' = [call EXCEPT !["loop"] = NoCall]
               /\ quiet' = (call["loop"].st = "ok") /\ UNCHANGED <<generation, sequence, loopVars, task>>
      BY <2>1, <2>3 DEF HasAnswer, workerOnly, workerState, counters, loopVars
    <2>4. CASE pending # <<>> /\ loop' = "pause" /\ SubmitRelease("loop") /\ quiet' = FALSE /\ UNCHANGED <<loopVars, task, equips>>
      BY <1>0, <2>1, <2>4, AsksReleaseIntro DEF workerOnly, loopVars
    <2>5. CASE /\ loop = "pause" /\ call["loop"].st = "ok" /\ loop' = "equip" /\ call' = [call EXCEPT !["loop"] = NoCall]
               /\ quiet' = (call["loop"].st = "ok") /\ UNCHANGED <<generation, sequence, ready, task>>
      BY <2>1, <2>5 DEF HasAnswer, workerOnly, workerState, counters, loopVars
    <2>6. CASE /\ loop = "ending" /\ loop' = "joining" /\ call' = [call EXCEPT !["loop"] = NoCall]
               /\ quiet' = (call["loop"].st = "ok") /\ UNCHANGED <<generation, sequence, loopVars>> /\ AbortTasks
      BY <2>1, <2>6 DEF HasAnswer, workerOnly, workerState, counters, loopVars, AbortTasks
    <2>7. CASE /\ loop = "dropping" /\ loop' = "off" /\ call' = [call EXCEPT !["loop"] = NoCall]
               /\ quiet' = (call["loop"].st = "ok") /\ UNCHANGED <<generation, sequence, loopVars, task>>
      BY <2>1, <2>7 DEF HasAnswer, workerOnly, workerState, counters, loopVars
    <2> QED BY <1>4, <2>2, <2>3, <2>4, <2>5, <2>6, <2>7 DEF ReleaseReturns
  <1>5. CASE EquipDone
    BY <1>0, <1>5 DEF EquipDone, StaysLocal, inputVars, loopVars, workerState, counters
  <1>6. CASE TimerFires
    <2>1. CASE active = NoKey
      BY <1>0, <1>6, <2>1 DEF TimerFires, StaysLocal, inputVars, workerState, counters
    <2>2. CASE active # NoKey
      <3>1. session \in Sessions /\ active \in Keys /\ task[session].st = "none"
        BY <1>6, <2>2 DEF TimerFires, LoopTypes, WorkInv
      <3> QED BY <1>6, <2>2, <3>1 DEF TimerFires, Dispatches, TicketNow
    <2> QED BY <2>1, <2>2
  <1>7. CASE JoinCycle
    <2>1. session \in Sessions /\ loop = "select" /\ task[session].st = "running" /\ task' = [task EXCEPT ![session] = NoTask] /\ UNCHANGED <<session, workerOnly>>
      BY <1>7 DEF JoinCycle, LoopTypes
    <2>2. CASE /\ call[CycleOf[session]].st \in {"ok", "skipped"} /\ call' = [call EXCEPT ![CycleOf[session]] = NoCall]
               /\ UNCHANGED <<loop, quiet, generation, sequence, ready, pending>>
      BY <2>1, <2>2 DEF CycleEnds, workerOnly, workerState, counters, Own
    <2>3. CASE /\ loop' = "ending" /\ quiet' = FALSE /\ generation' = generation + 1 /\ sequence' = sequence + 1
               /\ call' = [call EXCEPT ![CycleOf[session]] = NoCall, !["loop"] = CallOf("loop", "release", NoKey, FALSE, 0)]
      <3>1. "loop" \in Writers /\ CycleOf[session] \in Writers /\ CycleOf[session] # "loop"
        BY <2>1, Threads
      <3>2. DOMAIN call' = Writers /\ call'[CycleOf[session]] = NoCall /\ call'["loop"] = CallOf("loop", "release", NoKey, FALSE, 0)
            /\ \A w \in Writers \ {"loop", CycleOf[session]} : call'[w] = call[w]
        BY <1>0, <2>3, <3>1 DEF CallTypes
      <3>3. task'[session] = NoTask /\ NoTask.st # "spawned"
        BY <2>1 DEF LoopTypes, NoTask
      <3> QED BY <1>0, <2>1, <2>3, <3>2, <3>3 DEF AsksRelease, EndsCycle, workerOnly, workerState, Blocked
    <2> QED BY <1>7, <2>2, <2>3 DEF JoinCycle
  <1>8. CASE JoinAll
    <2>1. task[session].st # "spawned"
      BY <1>0, <1>8 DEF JoinAll, Slots, LoopTypes
    <2> QED BY <1>0, <1>8, <2>1, AsksReleaseIntro DEF JoinAll, workerOnly
  <1> QED BY <1>1, <1>2, <1>3, <1>4, <1>5, <1>6, <1>7, <1>8 DEF LoopStep

(* What press_key sends is a command. *)
LEMMA PressCommands ==
    ASSUME NEW w \in Pressers, NEW key \in Labels
    PROVE  [writer |-> w, kind |-> "press", key |-> key, shift |-> FALSE, ticket |-> 0, sequence |-> 0] \in Commands
  BY PresserFacts DEF Commands, Command, Asked, Kinds

(* What is pushed goes into the queue of its priority, which had room. *)
LEMMA QueueRoom ==
    ASSUME QueueTypes, NEW c \in Commands, Push(c)
    PROVE  \/ c \in HighCommands /\ high' = Append(high, c) /\ Len(high) < HighCapacity /\ UNCHANGED normal
           \/ c \in NormalCommands /\ normal' = Append(normal, c) /\ Len(normal) < NormalCapacity /\ UNCHANGED high
  <1>1. Len(high) \in Nat /\ Len(normal) \in Nat /\ HighCapacity \in Nat /\ NormalCapacity \in Nat
    BY InputAssumption DEF QueueTypes
  <1> QED BY <1>1, CommandFacts DEF Push, Full, QueueTypes

(* press_key asks for a press. *)
LEMMA SubmitPressAsks ==
    ASSUME QueueTypes, CallTypes, NEW w \in Pressers, NEW key \in Labels, SubmitPress(w, key),
           UNCHANGED <<session, loop, ready, quiet, task, pending>>
    PROVE  \E c : AsksPress(w, c)
  <1> DEFINE c == [writer |-> w, kind |-> "press", key |-> key, shift |-> FALSE, ticket |-> 0, sequence |-> 0]
  <1>1. c \in Commands /\ c.kind = "press" /\ c.writer = w
    BY PressCommands
  <1>2. w \in Writers /\ UNCHANGED <<worker, cmd, wpc, device, spam, generation, sequence, faults>>
    BY PresserFacts DEF SubmitPress
  <1>3. \/ Push(c) /\ call' = [call EXCEPT ![w] = [st |-> "sent", command |-> c]]
        \/ call' = [call EXCEPT ![w] = [st |-> "failed", command |-> NoCommand]] /\ UNCHANGED <<high, normal>>
    BY DEF SubmitPress, Refuse, Answer
  <1> HIDE DEF c
  <1>4. DOMAIN call' = Writers /\ \A v \in Writers \ {w} : call'[v] = call[v]
    BY <1>2, <1>3 DEF CallTypes
  <1>5. AsksPress(w, c)
    <2>1. CASE Push(c) /\ call' = [call EXCEPT ![w] = [st |-> "sent", command |-> c]]
      <3>1. call'[w] = [st |-> "sent", command |-> c]
        BY <1>2, <2>1 DEF CallTypes
      <3> QED BY <1>1, <1>2, <1>4, <2>1, <3>1, QueueRoom DEF AsksPress, workerState, counters
    <2>2. CASE call' = [call EXCEPT ![w] = [st |-> "failed", command |-> NoCommand]] /\ UNCHANGED <<high, normal>>
      <3>1. call'[w] = [st |-> "failed", command |-> NoCommand]
        BY <1>2, <2>2 DEF CallTypes
      <3> QED BY <1>1, <1>2, <1>4, <2>2, <3>1 DEF AsksPress, workerState, counters
    <2> QED BY <1>3, <2>1, <2>2
  <1> QED BY <1>5

(* Every step of a pool thread is of one of the kinds. *)
LEMMA PoolStepCases ==
    ASSUME LoopTypes, InputInv, PoolStep
    PROVE  Calls
  <1> USE DEF Calls
  <1>1. PICK s \in Sessions : EquipPress(s) \/ EquipReturns(s) \/ CycleStarts(s) \/ CycleReturns(s)
    BY DEF PoolStep
  <1>2. GearOf[s] \in Pressers
    BY DEF Pressers
  <1>3. CASE EquipPress(s)
    <2>1. Head(equips[s]) \in Labels
      BY <1>3, Taken DEF EquipPress, LoopTypes
    <2> QED BY <1>2, <1>3, <2>1, SubmitPressAsks DEF EquipPress, loopVars, InputInv
  <1>4. CASE EquipReturns(s)
    <2>1. PressEnds(GearOf[s])
      BY <1>2, <1>4 DEF EquipReturns, PressEnds, loopVars, workerOnly, workerState, counters
    <2> QED BY <2>1
  <1>5. CASE CycleStarts(s)
    <2>1. task[s].key \in Labels
      BY <1>5, KeysAssumption DEF CycleStarts, LoopTypes
    <2>2. AsksCycle(s)
      BY <1>5, <2>1 DEF CycleStarts, AsksCycle, SubmitCycle, loopVars, workerOnly, workerState
    <2> QED BY <2>2
  <1>6. CASE CycleReturns(s)
    <2>1. CycleEnds(s)
      BY <1>6 DEF CycleReturns, CycleEnds, loopVars, workerOnly, workerState, counters
    <2> QED BY <2>1
  <1> QED BY <1>1, <1>3, <1>4, <1>5, <1>6

(* So is every step of ro-inputd, the keyboard, the session controller and autopot. *)
LEMMA OtherStepCases ==
    ASSUME LoopTypes, InputInv, InputdStarts \/ InputdDies \/ KeyboardEvent \/ StartSpammer \/ StopSpammer \/ AbortLoop \/ AutopotPress
    PROVE  Local \/ Calls
  <1> USE DEF Local, Calls
  <1>0. LoopTypes /\ DeviceTypes /\ CallTypes /\ Slots /\ QueueTypes /\ faults \in Nat
    BY InputAssumption DEF InputInv, DeviceTypes
  <1>1. CASE InputdStarts \/ KeyboardEvent \/ StopSpammer
    BY <1>0, <1>1 DEF InputdStarts, KeyboardEvent, StopSpammer, StaysLocal, inputVars, loopVars, workerState, counters
  <1>2. CASE InputdDies
    BY <1>0, <1>2 DEF InputdDies, StaysLocal, loopVars, workerState, counters
  <1>3. CASE StartSpammer
    <2>1. session \in Nat /\ left.sessions \in Nat /\ session + left.sessions <= MaxSessions /\ MaxSessions \in Nat /\ left.sessions > 0
      BY <1>3, MaxSessionsAssumption DEF LoopTypes, StartSpammer, Bounds
    <2>2. session + 1 \in Sessions
      BY <2>1 DEF Sessions
    <2> QED BY <1>3, <2>2 DEF StartSpammer, StartsSession, loopVars
  <1>4. CASE AbortLoop
    BY <1>0, <1>4, AsksReleaseIntro DEF AbortLoop
  <1>5. CASE AutopotPress
    BY <1>0, <1>5, KeysAssumption, SubmitPressAsks DEF AutopotPress, Pressers, loopVars
  <1> QED BY <1>1, <1>2, <1>3, <1>4, <1>5

(* A waiting call enters its queue, is refused, or gives up. *)
LEMMA CallStepCases ==
    ASSUME QueueTypes, CallTypes, Slots, CallStep, UNCHANGED spammerOnly
    PROVE  \E w : Enters(w) \/ IsRefused(w)
  <1>1. PICK w \in Writers : Enqueue(w) \/ AckTimeout(w)
    BY DEF CallStep
  <1>2. CASE AckTimeout(w)
    <2>1. IsRefused(w)
      BY <1>2 DEF AckTimeout, IsRefused, InCall, Refuse, Answer, workerState, counters
    <2> QED BY <2>1
  <1>3. CASE Enqueue(w)
    <2>1. /\ call[w].st = "drawn" /\ InCall(w) /\ call[w].command \in Commands
          /\ UNCHANGED <<worker, cmd, wpc, device, spam, generation, sequence>>
      BY <1>3 DEF Enqueue, CallTypes, InCall
    <2>2. CASE worker = "running" /\ Push(call[w].command) /\ UNCHANGED faults /\ call' = [call EXCEPT ![w].st = "sent"]
      <3>1. Enters(w)
        BY <2>1, <2>2, QueueRoom DEF Enters, workerState, counters
      <3> QED BY <3>1
    <2>3. CASE worker = "gone" /\ Refuse(w) /\ UNCHANGED <<high, normal, faults>>
      <3>1. IsRefused(w)
        BY <2>1, <2>3 DEF IsRefused, Refuse, Answer, workerState, counters
      <3> QED BY <3>1
    <2>4. CASE /\ Refuse(w) /\ UNCHANGED <<high, normal>>
               /\ IF call[w].command.kind = "release" THEN faults > 0 /\ faults' = faults - 1 ELSE UNCHANGED faults
      <3>1. IsRefused(w)
        BY <2>1, <2>4 DEF IsRefused, Refuse, Answer, workerState, counters
      <3> QED BY <3>1
    <2> QED BY <1>3, <2>2, <2>3, <2>4 DEF Enqueue
  <1> QED BY <1>1, <1>2, <1>3

(* The invariant of the calls and the device survives every step. *)
LEMMA InputInvStep ==
    ASSUME InputInv, LoopTypes, InputdTypes, WorkInv, SpammerNext
    PROVE  InputInv'
  <1>0. QueueTypes /\ CallTypes /\ DeviceTypes /\ Slots /\ KnownInv
    BY DEF InputInv, CalmInv
  <1>1. Local \/ Calls => InputInv'
    BY StaysLocalKeeps, StartsSessionKeeps, DispatchesKeeps, AsksReleaseKeeps, HasAnswerKeeps, AsksCycleKeeps,
       CycleEndsKeeps, PressEndsKeeps, AsksPressKeeps DEF Local, Calls
  <1>2. CASE LoopStep \/ PoolStep \/ InputdStarts \/ InputdDies \/ KeyboardEvent \/ StartSpammer \/ StopSpammer
             \/ AbortLoop \/ AutopotPress
    BY <1>1, <1>2, LoopStepCases, PoolStepCases, OtherStepCases
  <1>3. CASE WorkerStep /\ UNCHANGED spammerOnly
    <2>1. CASE WorkerTakes
      BY <1>0, <1>3, <2>1, TakesCases, TakesKeeps
    <2>2. CASE MidStep
      BY <1>3, <2>2, MidKeeps
    <2> QED BY <1>3, <2>1, <2>2 DEF WorkerStep, MidStep
  <1>4. CASE CallStep /\ UNCHANGED spammerOnly
    BY <1>0, <1>4, CallStepCases, EntersKeeps, IsRefusedKeeps
  <1>5. CASE loop = "off" /\ WorkerShutdown /\ UNCHANGED spammerOnly
    BY <1>5, ShutdownKeeps
  <1> QED BY <1>2, <1>3, <1>4, <1>5 DEF SpammerNext

(* ------------------------------ the loop's steps -------------------------- *)

(* A list without one element (held_keys.retain). *)
LEMMA Removed ==
    ASSUME NEW S, NEW s \in Seq(S), NEW i \in DOMAIN s
    PROVE  /\ RemoveAt(s, i) \in Seq(S) /\ Len(RemoveAt(s, i)) = Len(s) - 1 /\ Len(s) \in Nat
           /\ DOMAIN s = 1..Len(s) /\ DOMAIN RemoveAt(s, i) = 1..(Len(s) - 1)
           /\ \A j \in 1..(Len(s) - 1) : RemoveAt(s, i)[j] = IF j < i THEN s[j] ELSE s[j + 1]
  <1> DEFINE a == SubSeq(s, 1, i - 1)
             b == SubSeq(s, i + 1, Len(s))
  <1>1. Len(s) \in Nat /\ DOMAIN s = 1..Len(s) /\ i \in 1..Len(s)
    OBVIOUS
  <1>2. a \in Seq(S) /\ Len(a) = i - 1 /\ \A j \in 1..(i - 1) : a[j] = s[j]
    BY <1>1
  <1>3. b \in Seq(S) /\ Len(b) = Len(s) - i /\ \A j \in 1..(Len(s) - i) : b[j] = s[i + j]
    BY <1>1
  <1>4. RemoveAt(s, i) = a \o b
    BY DEF RemoveAt
  <1> HIDE DEF a, b
  <1>5. /\ a \o b \in Seq(S) /\ Len(a \o b) = Len(s) - 1
        /\ \A j \in 1..(Len(s) - 1) : (a \o b)[j] = IF j <= i - 1 THEN a[j] ELSE b[j - (i - 1)]
    <2>1. Len(a) \in Nat /\ Len(b) \in Nat /\ Len(a) + Len(b) = Len(s) - 1
      BY <1>1, <1>2, <1>3
    <2>2. a \o b \in Seq(S) /\ Len(a \o b) = Len(a) + Len(b)
      BY <1>2, <1>3, ConcatProperties
    <2>3. \A j \in 1..(Len(a) + Len(b)) : (a \o b)[j] = IF j <= Len(a) THEN a[j] ELSE b[j - Len(a)]
      BY <1>2, <1>3, ConcatProperties
    <2> QED BY <1>2, <2>1, <2>2, <2>3
  <1>6. \A j \in 1..(Len(s) - 1) : (a \o b)[j] = IF j < i THEN s[j] ELSE s[j + 1]
    <2>1. SUFFICES ASSUME NEW j \in 1..(Len(s) - 1) PROVE (a \o b)[j] = IF j < i THEN s[j] ELSE s[j + 1]
      OBVIOUS
    <2>2. CASE j < i
      BY <1>1, <1>2, <1>5, <2>2
    <2>3. CASE j >= i
      <3>1. j - (i - 1) \in 1..(Len(s) - i) /\ i + (j - (i - 1)) = j + 1
        BY <1>1, <2>3
      <3>2. (a \o b)[j] = b[j - (i - 1)] /\ b[j - (i - 1)] = s[i + (j - (i - 1))]
        BY <1>1, <1>3, <1>5, <2>3, <3>1
      <3> QED BY <1>1, <2>3, <3>1, <3>2
    <2>4. j < i \/ j >= i
      BY <1>1
    <2> QED BY <2>2, <2>3, <2>4
  <1>7. DOMAIN (a \o b) = 1..(Len(s) - 1)
    BY <1>5
  <1> QED BY <1>1, <1>4, <1>5, <1>6, <1>7

(* held_keys after a trigger line: the key itself is in or out, the others stay, each once. *)
LEMMA HeldAfterFacts ==
    ASSUME LoopTypes, IsHeldOnce, NEW k \in Keys, NEW h \in BOOLEAN
    PROVE  /\ HeldAfter(k, h) \in Seq(Keys)
           /\ \A x : (\E i \in DOMAIN HeldAfter(k, h) : HeldAfter(k, h)[i] = x) <=> IF x = k THEN h ELSE IsHeld(x)
           /\ \A i, j \in DOMAIN HeldAfter(k, h) : HeldAfter(k, h)[i] = HeldAfter(k, h)[j] => i = j
  <1>0. held \in Seq(Keys)
    BY DEF LoopTypes
  <1>1. CASE h /\ ~IsHeld(k)
    <2>1. HeldAfter(k, h) = Append(held, k)
      BY <1>1 DEF HeldAfter
    <2>2. /\ Append(held, k) \in Seq(Keys) /\ DOMAIN Append(held, k) = 1..(Len(held) + 1) /\ DOMAIN held = 1..Len(held) /\ Len(held) \in Nat
          /\ \A i \in DOMAIN held : Append(held, k)[i] = held[i]
          /\ Append(held, k)[Len(held) + 1] = k
          /\ \A i \in DOMAIN Append(held, k) : i \in DOMAIN held \/ i = Len(held) + 1
      BY <1>0, Added
    <2>3. \A x : (\E i \in DOMAIN Append(held, k) : Append(held, k)[i] = x) <=> IF x = k THEN h ELSE IsHeld(x)
      <3>1. SUFFICES ASSUME NEW x PROVE (\E i \in DOMAIN Append(held, k) : Append(held, k)[i] = x) <=> IF x = k THEN h ELSE IsHeld(x)
        OBVIOUS
      <3>2. CASE x = k
        <4>1. Len(held) + 1 \in DOMAIN Append(held, k)
          BY <2>2
        <4> QED BY <1>1, <2>2, <3>2, <4>1
      <3>3. CASE x # k
        <4>1. DOMAIN held \subseteq DOMAIN Append(held, k)
          BY <2>2
        <4> QED BY <2>2, <3>3, <4>1 DEF IsHeld
      <3> QED BY <3>2, <3>3
    <2>4. \A i, j \in DOMAIN Append(held, k) : Append(held, k)[i] = Append(held, k)[j] => i = j
      <3>1. \A i \in DOMAIN held : held[i] # k
        BY <1>1 DEF IsHeld
      <3> QED BY <2>2, <3>1 DEF IsHeldOnce
    <2> QED BY <2>1, <2>2, <2>3, <2>4
  <1>2. CASE ~h /\ IsHeld(k)
    <2>1. PICK n \in DOMAIN held : held[n] = k /\ HeldAfter(k, h) = RemoveAt(held, n)
      BY <1>2 DEF HeldAfter, IsHeld
    <2>2. /\ RemoveAt(held, n) \in Seq(Keys) /\ Len(held) \in Nat /\ DOMAIN held = 1..Len(held) /\ DOMAIN RemoveAt(held, n) = 1..(Len(held) - 1)
          /\ \A j \in 1..(Len(held) - 1) : RemoveAt(held, n)[j] = IF j < n THEN held[j] ELSE held[j + 1]
      BY <1>0, Removed
    <2>3. n \in 1..Len(held)
      BY <2>2
    <2>4. \A j \in 1..(Len(held) - 1) : RemoveAt(held, n)[j] # k
      BY <2>1, <2>2, <2>3 DEF IsHeldOnce
    <2>5. \A x : (\E i \in DOMAIN RemoveAt(held, n) : RemoveAt(held, n)[i] = x) <=> IF x = k THEN h ELSE IsHeld(x)
      <3>1. SUFFICES ASSUME NEW x PROVE (\E i \in DOMAIN RemoveAt(held, n) : RemoveAt(held, n)[i] = x) <=> IF x = k THEN h ELSE IsHeld(x)
        OBVIOUS
      <3>2. CASE x = k
        BY <1>2, <2>2, <2>4, <3>2
      <3>3. CASE x # k /\ IsHeld(x)
        <4>1. PICK m \in 1..Len(held) : held[m] = x /\ m # n
          BY <2>1, <2>2, <3>3 DEF IsHeld
        <4>2. CASE m < n
          <5>1. m \in 1..(Len(held) - 1)
            BY <2>2, <2>3, <4>2
          <5> QED BY <2>2, <3>3, <4>1, <4>2, <5>1
        <4>3. CASE m > n
          <5>1. m - 1 \in 1..(Len(held) - 1) /\ ~(m - 1 < n) /\ (m - 1) + 1 = m
            BY <2>2, <2>3, <4>3
          <5>2. RemoveAt(held, n)[m - 1] = x
            BY <2>2, <4>1, <5>1
          <5> QED BY <2>2, <3>3, <5>1, <5>2
        <4> QED BY <2>3, <4>1, <4>2, <4>3
      <3>4. CASE x # k /\ ~IsHeld(x)
        <4>1. \A m \in 1..Len(held) : held[m] # x
          BY <2>2, <3>4 DEF IsHeld
        <4>2. \A j \in 1..(Len(held) - 1) : j \in 1..Len(held) /\ j + 1 \in 1..Len(held)
          BY <2>2
        <4> QED BY <2>2, <3>4, <4>1, <4>2
      <3> QED BY <3>2, <3>3, <3>4
    <2>6. \A i, j \in DOMAIN RemoveAt(held, n) : RemoveAt(held, n)[i] = RemoveAt(held, n)[j] => i = j
      <3>1. SUFFICES ASSUME NEW i \in 1..(Len(held) - 1), NEW j \in 1..(Len(held) - 1), RemoveAt(held, n)[i] = RemoveAt(held, n)[j]
                     PROVE  i = j
        BY <2>2
      <3> DEFINE p(x) == IF x < n THEN x ELSE x + 1
      <3>2. p(i) \in 1..Len(held) /\ p(j) \in 1..Len(held) /\ held[p(i)] = held[p(j)]
        BY <2>2, <2>3, <3>1
      <3>3. p(i) = p(j)
        BY <2>2, <3>2 DEF IsHeldOnce
      <3> QED BY <2>2, <2>3, <3>3
    <2> QED BY <2>1, <2>2, <2>5, <2>6
  <1>3. CASE (h /\ IsHeld(k)) \/ (~h /\ ~IsHeld(k))
    <2>1. HeldAfter(k, h) = held
      BY <1>3 DEF HeldAfter
    <2> QED BY <1>0, <1>3, <2>1 DEF IsHeld, IsHeldOnce
  <1> QED BY <1>1, <1>2, <1>3 DEF IsHeld

LoopInv == LoopTypes /\ InputdTypes /\ WorkInv /\ IsHeldOnce

(* The empty output. *)
LEMMA NoLines == <<>> \in Seq(StdoutLine) /\ DOMAIN <<>> = {}
  OBVIOUS

(* The output of ro-inputd without its first line. *)
LEMMA LinesFacts ==
    ASSUME InputdTypes
    PROVE  /\ lines \in Seq(StdoutLine) /\ <<>> \in Seq(StdoutLine)
           /\ lines # <<>> =>
                /\ Tail(lines) \in Seq(StdoutLine) /\ lines[1] = Head(lines) /\ Head(lines) \in StdoutLine
                /\ Head(lines).type = "trigger" => Head(lines).key \in Keys
                /\ \A i \in DOMAIN Tail(lines) : Tail(lines)[i].type = "trigger" => Tail(lines)[i].key \in Keys
           /\ \A l \in StdoutLine : (l.type = "trigger" => l.key \in Keys) =>
                /\ Append(lines, l) \in Seq(StdoutLine)
                /\ \A i \in DOMAIN Append(lines, l) : Append(lines, l)[i].type = "trigger" => Append(lines, l)[i].key \in Keys
  <1>1. lines \in Seq(StdoutLine) /\ \A i \in DOMAIN lines : lines[i].type = "trigger" => lines[i].key \in Keys
    BY DEF InputdTypes
  <1>2. ASSUME lines # <<>>
        PROVE  /\ Tail(lines) \in Seq(StdoutLine) /\ lines[1] = Head(lines) /\ Head(lines) \in StdoutLine
               /\ Head(lines).type = "trigger" => Head(lines).key \in Keys
               /\ \A i \in DOMAIN Tail(lines) : Tail(lines)[i].type = "trigger" => Tail(lines)[i].key \in Keys
    <2>1. /\ Tail(lines) \in Seq(StdoutLine) /\ Head(lines) \in StdoutLine /\ Head(lines) = lines[1] /\ 1 \in DOMAIN lines
          /\ \A i \in DOMAIN Tail(lines) : i + 1 \in DOMAIN lines /\ Tail(lines)[i] = lines[i + 1]
      BY <1>1, <1>2, Taken
    <2> QED BY <1>1, <2>1
  <1>3. ASSUME NEW l \in StdoutLine, l.type = "trigger" => l.key \in Keys
        PROVE  /\ Append(lines, l) \in Seq(StdoutLine)
               /\ \A i \in DOMAIN Append(lines, l) : Append(lines, l)[i].type = "trigger" => Append(lines, l)[i].key \in Keys
    <2>1. /\ Append(lines, l) \in Seq(StdoutLine) /\ Append(lines, l)[Len(lines) + 1] = l
          /\ \A i \in DOMAIN lines : Append(lines, l)[i] = lines[i]
          /\ \A i \in DOMAIN Append(lines, l) : i \in DOMAIN lines \/ i = Len(lines) + 1
      BY <1>1, <1>3, Added
    <2> QED BY <1>1, <1>3, <2>1
  <1> QED BY <1>1, <1>2, <1>3

(* A loop that ends has no key, no timer and holds nothing. *)
LEMMA ForgottenLocals ==
    ASSUME LoopTypes, ForgetLocals, loop' \in {"ending", "dropping"}
    PROVE  /\ WorkInv' /\ IsHeldOnce' /\ active' = NoKey /\ held' \in Seq(Keys) /\ armed' \in BOOLEAN /\ ready' \in BOOLEAN
           /\ pending' \in Seq(Seq(Labels))
  <1>1. active' = NoKey /\ held' = <<>> /\ armed' = FALSE /\ ready' = FALSE /\ pending' = <<>>
    BY DEF ForgetLocals
  <1>2. held' \in Seq(Keys) /\ pending' \in Seq(Seq(Labels)) /\ DOMAIN held' = {}
    BY <1>1
  <1> QED BY <1>1, <1>2 DEF WorkInv, IsHeldOnce, Live

(* The bounds stay natural numbers when one is spent. *)
LEMMA LeftFacts ==
    ASSUME LoopTypes, NEW b \in Bounds, left[b] > 0, left' = [left EXCEPT ![b] = @ - 1]
    PROVE  left' \in [Bounds -> Nat] /\ (b # "sessions" => left'.sessions = left.sessions)
                                      /\ (b = "sessions" => left'.sessions = left.sessions - 1)
  <1>1. left \in [Bounds -> Nat] /\ "sessions" \in Bounds
    BY DEF LoopTypes, Bounds
  <1>2. left[b] - 1 \in Nat
    BY <1>1
  <1> QED BY <1>1, <1>2

(* The bounds by name. *)
LEMMA BoundsNamed == {"presses", "cycles", "pots", "sessions"} = Bounds
  BY DEF Bounds

(* The steps of the loop keep its own invariant (run). *)
LEMMA LoopStepKeeps ==
    ASSUME LoopInv, CallTypes, Slots, LoopStep, gearOn' = gearOn
    PROVE  LoopInv'
  <1>0. LoopTypes /\ InputdTypes /\ WorkInv /\ IsHeldOnce
    BY DEF LoopInv
  <1>1. CASE SeesStop \/ ReadyTimeout \/ SeesEof \/ ReadFatal
    <2>1. BreakMain /\ UNCHANGED <<task, inputd, LoopFrame>> /\ (lines' = lines \/ (lines # <<>> /\ lines' = Tail(lines))) /\ loop = "select"
      BY <1>1 DEF SeesStop, ReadyTimeout, SeesEof, ReadFatal, Line
    <2>2. WorkInv' /\ IsHeldOnce'
      BY <1>0, <2>1, ForgottenLocals DEF BreakMain
    <2>3. InputdTypes'
      BY <1>0, <2>1, LinesFacts DEF InputdTypes, LoopFrame
    <2>4. LoopTypes'
      BY <1>0, <2>1, ForgottenLocals DEF LoopTypes, BreakMain, LoopFrame, LoopPlaces
    <2> QED BY <2>2, <2>3, <2>4 DEF LoopInv
  <1>2. CASE ReadReady
    <2>1. /\ loop = "select" /\ loop' = "readying" /\ ready' = TRUE /\ quiet' = FALSE /\ lines # <<>> /\ lines' = Tail(lines)
          /\ UNCHANGED <<active, held, armed, pending, task, inputd, LoopFrame>>
      BY <1>2 DEF ReadReady, Line
    <2>2. WorkInv' /\ IsHeldOnce'
      BY <1>0, <2>1 DEF WorkInv, IsHeldOnce, Live, LoopFrame
    <2>3. InputdTypes'
      BY <1>0, <2>1, LinesFacts DEF InputdTypes, LoopFrame
    <2>4. LoopTypes'
      BY <1>0, <2>1 DEF LoopTypes, LoopFrame, LoopPlaces
    <2> QED BY <2>2, <2>3, <2>4 DEF LoopInv
  <1>3. CASE ReadTrigger
    <2> DEFINE k == Head(lines).key
               h == Head(lines).held
    <2>1. /\ loop = "select" /\ lines # <<>> /\ lines' = Tail(lines) /\ ready /\ ready' = ready
          /\ held' = HeldAfter(k, h) /\ active' = ActiveAfter(k, h) /\ armed' = ArmedAfter(k, h) /\ pending' = GearAfter(k, h)
          /\ UNCHANGED <<task, inputd, LoopFrame>> /\ Head(lines).type = "trigger"
          /\ \/ loop' \in {"cancel", "pause"} /\ quiet' = FALSE
             \/ (active = NoKey \/ active' = active) /\ UNCHANGED <<loop, quiet>>
      BY <1>3 DEF ReadTrigger, Line
    <2>2. k \in Keys /\ h \in BOOLEAN
      BY <1>0, <2>1, LinesFacts DEF StdoutLine
    <2> HIDE DEF k, h
    <2>3. held' \in Seq(Keys) /\ IsHeldOnce'
      BY <1>0, <2>1, <2>2, HeldAfterFacts DEF IsHeldOnce
    <2>4. active' \in Keys \union {NoKey}
      BY <1>0, <2>1, <2>2, <2>3 DEF ActiveAfter, LoopTypes
    <2>5. pending' \in Seq(Seq(Labels))
      BY <2>1, KeysAssumption DEF GearAfter
    <2>6. armed' \in BOOLEAN /\ (armed' => task[session].st = "none") /\ (active' # NoKey => armed' = (task[session].st = "none"))
      BY <1>0, <2>1 DEF ArmedAfter, LoopTypes, WorkInv
    <2>7. Live' /\ active' = NoKey => quiet'
      BY <1>0, <2>1 DEF WorkInv, Live
    <2>8. WorkInv'
      BY <2>1, <2>6, <2>7 DEF WorkInv, LoopFrame
    <2>9. InputdTypes'
      BY <1>0, <2>1, LinesFacts DEF InputdTypes, LoopFrame
    <2>10. LoopTypes'
      BY <1>0, <2>1, <2>3, <2>4, <2>5, <2>6 DEF LoopTypes, LoopFrame, LoopPlaces
    <2> QED BY <2>3, <2>8, <2>9, <2>10 DEF LoopInv
  <1>4. CASE ReleaseReturns
    <2>1. Answered("loop") /\ Blocked /\ UNCHANGED <<session, stop, inputdVars, left>> /\ loop # "off"
      BY <1>0, <1>4 DEF ReleaseReturns, Slots, Answered, Blocked
    <2>2. InputdTypes'
      BY <1>0, <2>1 DEF InputdTypes, inputdVars
    <2>3. CASE loop' = "ending" /\ quiet' = FALSE /\ ForgetLocals /\ UNCHANGED <<task, equips>>
      <3>1. WorkInv' /\ IsHeldOnce'
        BY <1>0, <2>3, ForgottenLocals
      <3>2. LoopTypes'
        BY <1>0, <2>1, <2>3, ForgottenLocals DEF LoopTypes, LoopPlaces
      <3> QED BY <2>2, <3>1, <3>2 DEF LoopInv
    <2>4. CASE /\ \/ loop \in {"readying", "cancel"} /\ loop' = "select" /\ quiet'
                  \/ loop = "cancel" /\ loop' = "pause" /\ ~quiet'
                  \/ loop = "dropping" /\ loop' = "off"
               /\ quiet' \in BOOLEAN /\ UNCHANGED <<loopVars, task, equips>>
      <3>1. WorkInv' /\ IsHeldOnce'
        BY <1>0, <2>1, <2>4 DEF WorkInv, IsHeldOnce, loopVars, Live
      <3>2. LoopTypes'
        BY <1>0, <2>1, <2>4 DEF LoopTypes, LoopPlaces, loopVars
      <3> QED BY <2>2, <3>1, <3>2 DEF LoopInv
    <2>5. CASE /\ loop = "pause" /\ loop' = "equip" /\ quiet' = TRUE /\ equips' = [equips EXCEPT ![session] = pending[1]]
               /\ pending' = <<>> /\ UNCHANGED <<active, held, armed, ready, task>>
      <3>1. WorkInv' /\ IsHeldOnce'
        BY <1>0, <2>1, <2>5 DEF WorkInv, IsHeldOnce, Live
      <3>2. pending[1] \in Seq(Labels)
        BY <1>0, <2>5, Taken DEF LoopTypes, Slots
      <3>3. LoopTypes'
        BY <1>0, <2>1, <2>5, <3>2 DEF LoopTypes, LoopPlaces
      <3> QED BY <2>2, <3>1, <3>3 DEF LoopInv
    <2>6. CASE loop = "ending" /\ loop' = "joining" /\ quiet' \in BOOLEAN /\ AbortTasks /\ UNCHANGED <<loopVars, equips>>
      <3>1. WorkInv' /\ IsHeldOnce'
        BY <1>0, <2>1, <2>6 DEF WorkInv, IsHeldOnce, loopVars, Live
      <3>2. task' \in [Sessions -> Tasks] /\ \A s \in Sessions : task'[s].st = "spawned" => task'[s].key \in Keys
        BY <1>0, <2>1, <2>6 DEF LoopTypes, AbortTasks, NoTask, Tasks
      <3>3. LoopTypes'
        BY <1>0, <2>1, <2>6, <3>2 DEF LoopTypes, LoopPlaces, loopVars
      <3> QED BY <2>2, <3>1, <3>3 DEF LoopInv
    <2> QED BY <1>4, <2>3, <2>4, <2>5, <2>6 DEF ReleaseReturns
  <1>5. CASE EquipDone
    <2>1. WorkInv' /\ IsHeldOnce'
      BY <1>0, <1>5 DEF EquipDone, WorkInv, IsHeldOnce, loopVars, Live
    <2>2. LoopTypes' /\ InputdTypes'
      BY <1>0, <1>5 DEF EquipDone, LoopTypes, InputdTypes, LoopPlaces, loopVars, inputdVars
    <2> QED BY <2>1, <2>2 DEF LoopInv
  <1>6. CASE TimerFires
    <2>1. /\ loop = "select" /\ armed' = FALSE /\ armed /\ ready /\ session \in Sessions
          /\ UNCHANGED <<loop, active, held, ready, pending, equips, session, stop, inputdVars>>
      BY <1>0, <1>6 DEF TimerFires, LoopTypes
    <2>2. CASE active = NoKey /\ UNCHANGED <<task, quiet, left>>
      <3>1. WorkInv' /\ IsHeldOnce'
        BY <1>0, <2>1, <2>2 DEF WorkInv, IsHeldOnce, Live
      <3>2. LoopTypes' /\ InputdTypes'
        BY <1>0, <2>1, <2>2 DEF LoopTypes, InputdTypes, inputdVars
      <3> QED BY <3>1, <3>2 DEF LoopInv
    <2>3. CASE /\ active # NoKey /\ left.cycles > 0 /\ left' = [left EXCEPT !.cycles = @ - 1] /\ quiet' = FALSE
               /\ task' = [task EXCEPT ![session] = [st |-> "spawned", key |-> active, ticket |-> generation]]
      <3>1. /\ task' \in [Sessions -> Tasks] /\ task'[session].st = "spawned"
            /\ \A s \in Sessions : task'[s].st = "spawned" => task'[s].key \in Keys
        BY <1>0, <2>1, <2>3 DEF LoopTypes, Tasks, CallTypes
      <3>2. WorkInv' /\ IsHeldOnce'
        BY <1>0, <2>1, <2>3, <3>1 DEF WorkInv, IsHeldOnce, Live
      <3>3. left' \in [Bounds -> Nat] /\ left'.sessions = left.sessions
        BY <1>0, <2>3, LeftFacts, BoundsNamed
      <3>4. LoopTypes' /\ InputdTypes'
        BY <1>0, <2>1, <2>3, <3>1, <3>3 DEF LoopTypes, InputdTypes, inputdVars
      <3> QED BY <3>2, <3>4 DEF LoopInv
    <2> QED BY <1>6, <2>2, <2>3 DEF TimerFires, TicketNow
  <1>7. CASE JoinCycle
    <2>1. /\ loop = "select" /\ session \in Sessions /\ task' = [task EXCEPT ![session] = NoTask]
          /\ UNCHANGED <<equips, session, stop, inputdVars, left>>
      BY <1>0, <1>7 DEF JoinCycle, LoopTypes
    <2>2. /\ task' \in [Sessions -> Tasks] /\ task'[session].st = "none"
          /\ \A s \in Sessions : task'[s].st = "spawned" => task'[s].key \in Keys
      BY <1>0, <2>1 DEF LoopTypes, Tasks, NoTask
    <2>3. CASE armed' = (armed \/ active # NoKey) /\ UNCHANGED <<loop, quiet, active, held, ready, pending>>
      <3>1. WorkInv' /\ IsHeldOnce'
        BY <1>0, <2>1, <2>2, <2>3 DEF WorkInv, IsHeldOnce, Live
      <3>2. LoopTypes' /\ InputdTypes'
        BY <1>0, <2>1, <2>2, <2>3 DEF LoopTypes, InputdTypes, inputdVars
      <3> QED BY <3>1, <3>2 DEF LoopInv
    <2>4. CASE loop' = "ending" /\ quiet' = FALSE /\ ForgetLocals
      <3>1. WorkInv' /\ IsHeldOnce'
        BY <1>0, <2>4, ForgottenLocals
      <3>2. LoopTypes' /\ InputdTypes'
        BY <1>0, <2>1, <2>2, <2>4, ForgottenLocals DEF LoopTypes, InputdTypes, LoopPlaces, inputdVars
      <3> QED BY <3>1, <3>2 DEF LoopInv
    <2> QED BY <1>7, <2>3, <2>4 DEF JoinCycle
  <1>8. CASE JoinAll
    <2>1. WorkInv' /\ IsHeldOnce'
      BY <1>0, <1>8 DEF JoinAll, WorkInv, IsHeldOnce, loopVars, Live
    <2>2. LoopTypes' /\ InputdTypes'
      BY <1>0, <1>8, NoLines DEF JoinAll, LoopTypes, InputdTypes, LoopPlaces, loopVars
    <2> QED BY <2>1, <2>2 DEF LoopInv
  <1> QED BY <1>1, <1>2, <1>3, <1>4, <1>5, <1>6, <1>7, <1>8 DEF LoopStep

(* So do the pool threads. *)
LEMMA PoolStepKeeps ==
    ASSUME LoopInv, GearInv, PoolStep, gearOn' = gearOn
    PROVE  LoopInv'
  <1>0. LoopTypes /\ InputdTypes /\ WorkInv /\ IsHeldOnce
    BY DEF LoopInv
  <1>1. PICK s \in Sessions : EquipPress(s) \/ EquipReturns(s) \/ CycleStarts(s) \/ CycleReturns(s)
    BY DEF PoolStep
  <1>2. UNCHANGED <<loop, loopVars, session, stop, inputdVars, left, quiet>>
    BY <1>1 DEF EquipPress, EquipReturns, CycleStarts, CycleReturns
  <1>3. InputdTypes' /\ IsHeldOnce'
    BY <1>0, <1>2 DEF InputdTypes, IsHeldOnce, loopVars, inputdVars
  <1>4. CASE EquipPress(s) \/ EquipReturns(s)
    <2>1. task' = task /\ equips' \in [Sessions -> Seq(Labels)]
      <3>1. equips[s] \in Seq(Labels) /\ (equips[s] # <<>> => Tail(equips[s]) \in Seq(Labels))
        BY <1>0, Taken DEF LoopTypes
      <3>2. CASE EquipPress(s)
        BY <1>0, <3>2 DEF EquipPress, LoopTypes
      <3>3. CASE EquipReturns(s)
        <4>1. Tail(equips[s]) \in Seq(Labels)
          BY <3>1, <3>3 DEF EquipReturns, Answered, GearInv
        <4> QED BY <1>0, <3>3, <4>1 DEF EquipReturns, LoopTypes
      <3> QED BY <1>4, <3>2, <3>3
    <2>2. LoopTypes'
      BY <1>0, <1>2, <2>1 DEF LoopTypes, loopVars
    <2>3. WorkInv'
      BY <1>0, <1>2, <2>1 DEF WorkInv, Live, loopVars
    <2> QED BY <1>3, <2>2, <2>3 DEF LoopInv
  <1>5. CASE CycleStarts(s) \/ CycleReturns(s)
    <2>1. /\ equips' = equips /\ task' \in [Sessions -> Tasks]
          /\ \A t \in Sessions : task'[t].st = "spawned" => task'[t].key \in Keys
      <3>1. task[s] \in Tasks /\ (task[s].st = "spawned" => task[s].key \in Keys) /\ NoTask \in Tasks
        BY <1>0 DEF LoopTypes, Tasks, NoTask
      <3>2. [task[s] EXCEPT !.st = "running"] \in Tasks /\ [task[s] EXCEPT !.st = "running"].st = "running"
        BY <3>1 DEF Tasks
      <3>3. CASE CycleStarts(s)
        <4>1. task' = [task EXCEPT ![s] = [task[s] EXCEPT !.st = "running"]] /\ equips' = equips
          BY <3>3 DEF CycleStarts
        <4> QED BY <1>0, <3>2, <4>1 DEF LoopTypes
      <3>4. CASE CycleReturns(s)
        <4>1. task' = [task EXCEPT ![s] = NoTask] /\ equips' = equips /\ NoTask.st = "none"
          BY <3>4 DEF CycleReturns, NoTask
        <4> QED BY <1>0, <3>1, <4>1 DEF LoopTypes
      <3> QED BY <1>5, <3>3, <3>4
    <2>2. LoopTypes'
      BY <1>0, <1>2, <2>1 DEF LoopTypes, loopVars
    <2>3. session \in Sessions => \/ task'[session].st = "none" <=> task[session].st = "none"
                                  \/ loop \in {"joining", "dropping", "off"} /\ task'[session].st = "none"
      BY <1>0, <1>5 DEF CycleStarts, CycleReturns, LoopTypes, Tasks, NoTask
    <2>4. WorkInv'
      <3>1. loop = "off" \/ session \in Sessions
        BY <1>0 DEF LoopTypes
      <3> QED BY <1>0, <1>2, <2>3, <3>1 DEF WorkInv, Live, loopVars
    <2> QED BY <1>3, <2>2, <2>4 DEF LoopInv
  <1> QED BY <1>1, <1>4, <1>5

(* So do ro-inputd, the keyboard, the session controller and autopot. *)
LEMMA OtherStepKeeps ==
    ASSUME LoopInv, gearOn' = gearOn,
           InputdStarts \/ InputdDies \/ KeyboardEvent \/ StartSpammer \/ StopSpammer \/ AbortLoop \/ AutopotPress
    PROVE  LoopInv'
  <1>0. LoopTypes /\ InputdTypes /\ WorkInv /\ IsHeldOnce
    BY DEF LoopInv
  <1>1. CASE InputdStarts \/ InputdDies \/ KeyboardEvent
    <2>1. UNCHANGED <<loop, loopVars, task, equips, session, stop, quiet>>
      BY <1>1 DEF InputdStarts, InputdDies, KeyboardEvent
    <2>2. WorkInv' /\ IsHeldOnce'
      BY <1>0, <2>1 DEF WorkInv, IsHeldOnce, loopVars, Live
    <2>3. left' \in [Bounds -> Nat] /\ left'.sessions = left.sessions
      <3>1. left' = left \/ (left["presses"] > 0 /\ left' = [left EXCEPT !["presses"] = @ - 1])
        BY <1>1 DEF InputdStarts, InputdDies, KeyboardEvent, PressTrigger, ReleaseTrigger
      <3>2. CASE left' = left
        BY <1>0, <3>2 DEF LoopTypes
      <3> QED BY <1>0, <3>1, <3>2, LeftFacts, BoundsNamed
    <2>4. LoopTypes'
      BY <1>0, <2>1, <2>3 DEF LoopTypes, loopVars
    <2>5. \A k \in Keys, h \in BOOLEAN : [type |-> "trigger", key |-> k, held |-> h] \in StdoutLine
      BY DEF StdoutLine
    <2>6. \A t \in {"ready", "fatal"} : [type |-> t, key |-> NoKey, held |-> FALSE] \in StdoutLine
      BY DEF StdoutLine
    <2>7. CASE InputdStarts \/ InputdDies
      <3>1. \/ lines' = lines
            \/ \E t \in {"ready", "fatal"} : lines' = Append(lines, [type |-> t, key |-> NoKey, held |-> FALSE])
        BY <2>7 DEF InputdStarts, InputdDies
      <3>2. lines' \in Seq(StdoutLine) /\ \A i \in DOMAIN lines' : lines'[i].type = "trigger" => lines'[i].key \in Keys
        <4>1. CASE lines' = lines
          BY <1>0, <4>1 DEF InputdTypes
        <4>2. ASSUME NEW t \in {"ready", "fatal"}, lines' = Append(lines, [type |-> t, key |-> NoKey, held |-> FALSE])
              PROVE  lines' \in Seq(StdoutLine) /\ \A i \in DOMAIN lines' : lines'[i].type = "trigger" => lines'[i].key \in Keys
          BY <1>0, <2>6, <4>2, LinesFacts
        <4> QED BY <3>1, <4>1, <4>2
      <3> QED BY <1>0, <2>2, <2>4, <2>7, <3>2 DEF LoopInv, InputdTypes, InputdStarts, InputdDies
    <2>8. CASE KeyboardEvent
      <3>1. PICK k \in Keys, h \in BOOLEAN : lines' = lines \/ lines' = Append(lines, [type |-> "trigger", key |-> k, held |-> h])
        BY <2>8 DEF KeyboardEvent, PressTrigger, ReleaseTrigger, EmitTrigger
      <3>2. lines' \in Seq(StdoutLine) /\ \A i \in DOMAIN lines' : lines'[i].type = "trigger" => lines'[i].key \in Keys
        <4>1. CASE lines' = lines
          BY <1>0, <4>1 DEF InputdTypes
        <4>2. CASE lines' = Append(lines, [type |-> "trigger", key |-> k, held |-> h])
          BY <1>0, <2>5, <4>2, LinesFacts
        <4> QED BY <3>1, <4>1, <4>2
      <3>3. phys' \subseteq Keys /\ passed' \subseteq Keys /\ inputd' = inputd
        BY <1>0, <2>8 DEF KeyboardEvent, PressTrigger, ReleaseTrigger, InputdTypes
      <3> QED BY <1>0, <2>2, <2>4, <3>2, <3>3 DEF LoopInv, InputdTypes
    <2> QED BY <1>1, <2>7, <2>8
  <1>2. CASE StartSpammer
    <2>1. session \in Nat /\ left.sessions \in Nat /\ session + left.sessions <= MaxSessions /\ MaxSessions \in Nat /\ left.sessions > 0
      BY <1>0, <1>2, MaxSessionsAssumption DEF LoopTypes, StartSpammer, Bounds
    <2>2. left' \in [Bounds -> Nat] /\ left'.sessions = left.sessions - 1
      BY <1>0, <1>2, <2>1, LeftFacts, BoundsNamed DEF StartSpammer
    <2>3. session' \in Sessions /\ session' \in 0..MaxSessions /\ session' + left'.sessions <= MaxSessions
      BY <1>2, <2>1, <2>2 DEF StartSpammer, Sessions
    <2>4. LoopTypes'
      BY <1>0, <1>2, <2>2, <2>3 DEF LoopTypes, StartSpammer, loopVars, LoopPlaces
    <2>5. InputdTypes'
      BY <1>0, <1>2 DEF InputdTypes, StartSpammer
    <2>6. WorkInv' /\ IsHeldOnce'
      BY <1>0, <1>2 DEF WorkInv, IsHeldOnce, loopVars, Live, StartSpammer
    <2> QED BY <2>4, <2>5, <2>6 DEF LoopInv
  <1>3. CASE StopSpammer
    <2>1. LoopTypes' /\ InputdTypes'
      BY <1>0, <1>3 DEF LoopTypes, InputdTypes, StopSpammer, loopVars, inputdVars
    <2>2. WorkInv' /\ IsHeldOnce'
      BY <1>0, <1>3 DEF WorkInv, IsHeldOnce, loopVars, Live, StopSpammer
    <2> QED BY <2>1, <2>2 DEF LoopInv
  <1>4. CASE AbortLoop
    <2>1. /\ loop' = "dropping" /\ AbortTasks /\ ForgetLocals /\ inputd' = "gone" /\ lines' = <<>> /\ quiet' = FALSE
          /\ UNCHANGED <<equips, session, stop, phys, passed, left>> /\ loop # "off"
      BY <1>4 DEF AbortLoop
    <2>2. WorkInv' /\ IsHeldOnce'
      BY <1>0, <2>1, ForgottenLocals
    <2>3. task' \in [Sessions -> Tasks] /\ \A s \in Sessions : task'[s].st = "spawned" => task'[s].key \in Keys
      BY <1>0, <2>1 DEF LoopTypes, AbortTasks, NoTask, Tasks
    <2>4. LoopTypes' /\ InputdTypes'
      BY <1>0, <2>1, <2>3, ForgottenLocals, NoLines DEF LoopTypes, InputdTypes, LoopPlaces
    <2> QED BY <2>2, <2>4 DEF LoopInv
  <1>5. CASE AutopotPress
    <2>1. UNCHANGED <<loop, loopVars, task, equips, session, stop, inputdVars, quiet>>
      BY <1>5 DEF AutopotPress
    <2>2. left' \in [Bounds -> Nat] /\ left'.sessions = left.sessions
      BY <1>0, <1>5, LeftFacts, BoundsNamed DEF AutopotPress
    <2>3. LoopTypes' /\ InputdTypes'
      BY <1>0, <2>1, <2>2 DEF LoopTypes, InputdTypes, loopVars, inputdVars
    <2>4. WorkInv' /\ IsHeldOnce'
      BY <1>0, <2>1 DEF WorkInv, IsHeldOnce, loopVars, Live
    <2> QED BY <2>3, <2>4 DEF LoopInv
  <1> QED BY <1>1, <1>2, <1>3, <1>4, <1>5

(* So does a step that leaves the loop alone. *)
LEMMA SameLoop ==
    ASSUME LoopInv, UNCHANGED spammerOnly, gearOn' = gearOn
    PROVE  LoopInv'
  BY DEF LoopInv, spammerOnly, loopVars, inputdVars, LoopTypes, InputdTypes, WorkInv, IsHeldOnce, Live

(* The invariant of the loop survives every step. *)
LEMMA LoopInvStep ==
    ASSUME LoopInv, GearInv, CallTypes, Slots, SpammerNext
    PROVE  LoopInv'
  <1>1. gearOn' = gearOn
    BY DEF SpammerNext
  <1>2. CASE LoopStep
    BY <1>1, <1>2, LoopStepKeeps
  <1>3. CASE PoolStep
    BY <1>1, <1>3, PoolStepKeeps
  <1>4. CASE InputdStarts \/ InputdDies \/ KeyboardEvent \/ StartSpammer \/ StopSpammer \/ AbortLoop \/ AutopotPress
    BY <1>1, <1>4, OtherStepKeeps
  <1>5. CASE UNCHANGED spammerOnly
    BY <1>1, <1>5, SameLoop
  <1> QED BY <1>2, <1>3, <1>4, <1>5 DEF SpammerNext

(* ------------------------------ the gear tasks ---------------------------- *)

(* The calls of the gear threads, by kind of step. *)
LEMMA GearCalls ==
    ASSUME InputInv, LoopTypes, SpammerNext, NEW s \in Sessions, call'[GearOf[s]].st # "none"
    PROVE  call[GearOf[s]].st # "none" \/ EquipPress(s)
  <1> DEFINE g == GearOf[s]
  <1>1. /\ g \in Writers /\ g # "loop" /\ g # "autopot" /\ DOMAIN call = Writers /\ \A t \in Sessions : CycleOf[t] # g
        /\ \A t \in Sessions : t # s => GearOf[t] # g
    BY Threads, ThreadsAssumption DEF InputInv, CallTypes
  <1>2. call'[g].st # "none"
    OBVIOUS
  <1> HIDE DEF g
  <1>3. CASE LoopStep
    <2>1. loop # "off" => session \in Sessions
      BY DEF LoopTypes
    <2>2. CASE UNCHANGED call \/ SubmitRelease("loop") \/ call' = [call EXCEPT !["loop"] = NoCall]
      BY <1>1, <1>2, <2>2 DEF SubmitRelease, g
    <2>3. CASE JoinCycle
      <3>1. CycleOf[session] # g
        BY <1>1, <2>1, <2>3 DEF JoinCycle
      <3>2. \/ call' = [call EXCEPT ![CycleOf[session]] = NoCall]
            \/ call' = [call EXCEPT ![CycleOf[session]] = NoCall, !["loop"] = CallOf("loop", "release", NoKey, FALSE, 0)]
        BY <2>3 DEF JoinCycle
      <3> QED BY <1>1, <1>2, <3>1, <3>2 DEF g
    <2>4. LoopStep => JoinCycle \/ UNCHANGED call \/ SubmitRelease("loop") \/ call' = [call EXCEPT !["loop"] = NoCall]
      BY DEF LoopStep, SeesStop, ReadyTimeout, SeesEof, ReadFatal, ReadReady, ReadTrigger, ReleaseReturns, EquipDone,
             TimerFires, JoinAll, BreakMain, inputVars
    <2> QED BY <1>3, <2>2, <2>3, <2>4
  <1>4. CASE PoolStep
    <2>1. PICK t \in Sessions : EquipPress(t) \/ EquipReturns(t) \/ CycleStarts(t) \/ CycleReturns(t)
      BY <1>4 DEF PoolStep
    <2>2. CASE t # s /\ EquipPress(t)
      <3>1. GearOf[t] # g
        BY <1>1, <2>2
      <3>2. \E x : call' = [call EXCEPT ![GearOf[t]] = x]
        BY <2>2 DEF EquipPress, SubmitPress, Refuse
      <3> QED BY <1>1, <1>2, <3>1, <3>2 DEF g
    <2>3. CASE EquipReturns(t)
      <3>1. call' = [call EXCEPT ![GearOf[t]] = NoCall] /\ NoCall.st = "none"
        BY <2>3 DEF EquipReturns, NoCall
      <3> QED BY <1>1, <1>2, <3>1 DEF g
    <2>4. CASE CycleStarts(t) \/ CycleReturns(t)
      <3>1. \E x : call' = [call EXCEPT ![CycleOf[t]] = x]
        BY <2>4 DEF CycleStarts, CycleReturns, SubmitCycle
      <3> QED BY <1>1, <1>2, <3>1 DEF g
    <2> QED BY <2>1, <2>2, <2>3, <2>4
  <1>5. CASE InputdStarts \/ InputdDies \/ KeyboardEvent \/ StartSpammer \/ StopSpammer \/ AbortLoop \/ AutopotPress
    <2>1. UNCHANGED call \/ SubmitRelease("loop") \/ \E x : call' = [call EXCEPT !["autopot"] = x]
      BY <1>5 DEF InputdStarts, InputdDies, KeyboardEvent, StartSpammer, StopSpammer, AbortLoop, AutopotPress, SubmitPress,
                  Refuse, inputVars
    <2> QED BY <1>1, <1>2, <2>1 DEF SubmitRelease, g
  <1>6. CASE WorkerStep /\ UNCHANGED spammerOnly
    <2>0. QueueTypes /\ DeviceTypes /\ CallTypes /\ KnownInv
      BY DEF InputInv, CalmInv
    <2>1. CASE UNCHANGED call \/ \E c \in Commands : \E outcome : Answers(c, outcome)
      BY <1>1, <1>2, <2>1 DEF Answers, g
    <2>2. CASE WorkerTakes /\ UNCHANGED spammerOnly
      <3>1. UNCHANGED call \/ \E c \in Commands : \E outcome : Answers(c, outcome)
        BY <2>0, <2>2, TakesCases DEF Takes, Executed, Skips, Starts, FailsToStart, Presses, FailsToPress, Releases
      <3> QED BY <2>1, <3>1
    <2>3. CASE MidStep
      <3>1. UNCHANGED call \/ \E c \in Commands : \E outcome : Answers(c, outcome)
        BY <2>0, <2>3, MidCases DEF GoesOn, Ends
      <3> QED BY <2>1, <3>1
    <2> QED BY <1>6, <2>2, <2>3 DEF WorkerStep, MidStep
  <1>7. CASE CallStep
    <2>1. PICK w \in Writers : Enqueue(w) \/ AckTimeout(w)
      BY <1>7 DEF CallStep
    <2>2. call[w].st # "none" /\ \E x : call' = [call EXCEPT ![w] = x]
      BY <2>1 DEF Enqueue, AckTimeout, Refuse
    <2> QED BY <1>1, <1>2, <2>2 DEF g
  <1>8. CASE WorkerShutdown
    BY <1>1, <1>2, <1>8 DEF WorkerShutdown, g
  <1> QED BY <1>3, <1>4, <1>5, <1>6, <1>7, <1>8 DEF SpammerNext

(* A gear thread with a call out has keys left, whatever happens (gear::equip). *)
LEMMA GearInvStep ==
    ASSUME InputInv, LoopTypes, GearInv, SpammerNext
    PROVE  GearInv'
  <1> DEFINE Paused(l) == l \in {"select", "readying", "cancel", "pause"}
  <1>0. /\ equips \in [Sessions -> Seq(Labels)] /\ session \in Nat /\ (loop # "off" => session \in Sessions)
        /\ DOMAIN call = Writers /\ \A s \in Sessions : GearOf[s] \in Writers
    BY Threads DEF LoopTypes, InputInv, CallTypes
  <1>1. CASE equips' = equips /\ session' = session /\ (Paused(loop') => Paused(loop))
    <2>1. \A s \in Sessions : EquipPress(s) => equips[s] # <<>>
      BY DEF EquipPress
    <2>2. \A s \in Sessions : call'[GearOf[s]].st # "none" => equips'[s] # <<>>
      BY <1>1, <2>1, GearCalls DEF GearInv
    <2> QED BY <1>1, <2>2 DEF GearInv
  <1>2. CASE ReleaseReturns /\ loop = "pause" /\ loop' = "equip"
    <2>1. session' = session /\ \E x : equips' = [equips EXCEPT ![session] = x]
      BY <1>2 DEF ReleaseReturns, Answered, ForgetLocals
    <2>2. session \in Sessions /\ call[GearOf[session]].st = "none" /\ \A s \in Sessions : ~EquipPress(s)
      BY <1>0, <1>2 DEF GearInv, EquipPress, loopVars
    <2>3. \A s \in Sessions : call'[GearOf[s]].st # "none" => equips'[s] # <<>>
      BY <1>0, <2>1, <2>2, GearCalls DEF GearInv
    <2>4. \A s \in Sessions : s > session => equips'[s] = <<>>
      <3>1. \A s \in Sessions : s > session => s # session
        BY MaxSessionsAssumption DEF Sessions
      <3> QED BY <1>0, <2>1, <3>1 DEF GearInv
    <2> QED BY <1>2, <2>1, <2>3, <2>4 DEF GearInv
  <1>3. CASE PoolStep
    <2>1. PICK s \in Sessions : EquipPress(s) \/ EquipReturns(s) \/ CycleStarts(s) \/ CycleReturns(s)
      BY <1>3 DEF PoolStep
    <2>2. session' = session /\ loop' = loop
      BY <2>1 DEF EquipPress, EquipReturns, CycleStarts, CycleReturns
    <2>3. CASE EquipReturns(s)
      <3>1. /\ equips[s] # <<>> /\ \A t \in Sessions : t # s => equips'[t] = equips[t]
            /\ call' = [call EXCEPT ![GearOf[s]] = NoCall] /\ NoCall.st = "none"
        BY <1>0, <2>3 DEF EquipReturns, Answered, GearInv, NoCall
      <3>2. \A t \in Sessions : call'[GearOf[t]].st # "none" => t # s /\ call[GearOf[t]].st # "none"
        BY <1>0, <3>1
      <3>3. \A t \in Sessions : call'[GearOf[t]].st # "none" => equips'[t] # <<>>
        BY <3>1, <3>2 DEF GearInv
      <3>4. Paused(loop') => equips'[session'] = <<>>
        <4>1. Paused(loop) => session \in Sessions /\ session # s
          BY <1>0, <3>1 DEF GearInv
        <4> QED BY <2>2, <3>1, <4>1 DEF GearInv
      <3>5. \A t \in Sessions : t > session' => equips'[t] = <<>>
        <4>1. ~(s > session)
          BY <3>1 DEF GearInv
        <4>2. \A t \in Sessions : t > session => t # s
          BY <4>1
        <4> QED BY <2>2, <3>1, <4>2 DEF GearInv
      <3> QED BY <3>3, <3>4, <3>5 DEF GearInv
    <2>4. ~EquipReturns(s) => equips' = equips
      BY <2>1 DEF EquipPress, CycleStarts, CycleReturns
    <2> QED BY <1>1, <2>2, <2>3, <2>4
  <1>4. CASE EquipDone
    <2>1. loop' = "select" /\ equips[session] = <<>> /\ UNCHANGED <<call, equips, session>>
      BY <1>4 DEF EquipDone, inputVars
    <2> QED BY <2>1 DEF GearInv
  <1>5. CASE StartSpammer
    <2>1. loop = "off" /\ session' = session + 1 /\ UNCHANGED <<call, equips>>
      BY <1>5 DEF StartSpammer, inputVars
    <2>2. session' \in Sessions
      <3>1. left.sessions \in Nat /\ left.sessions > 0 /\ session + left.sessions <= MaxSessions /\ MaxSessions \in Nat
        BY <1>5, MaxSessionsAssumption DEF LoopTypes, Bounds, StartSpammer
      <3> QED BY <1>0, <2>1, <3>1 DEF Sessions
    <2>3. \A s \in Sessions : s > session' => s > session
      BY <1>0, <2>1, MaxSessionsAssumption DEF Sessions
    <2>4. session' > session
      BY <1>0, <2>1
    <2>5. equips'[session'] = <<>>
      BY <2>1, <2>2, <2>4 DEF GearInv
    <2> QED BY <2>1, <2>3, <2>5 DEF GearInv
  <1>6. CASE LoopStep /\ ~EquipDone /\ ~(ReleaseReturns /\ loop = "pause" /\ loop' = "equip")
    <2>1. equips' = equips /\ session' = session
      BY <1>6 DEF LoopStep, SeesStop, ReadyTimeout, SeesEof, ReadFatal, ReadReady, ReadTrigger, ReleaseReturns, TimerFires,
                  JoinCycle, JoinAll, LoopFrame
    <2>2. CASE ReleaseReturns
      <3>1. Blocked
        BY <2>2 DEF ReleaseReturns, Answered, InputInv, Slots
      <3> QED BY <1>1, <1>6, <2>1, <2>2, <3>1 DEF ReleaseReturns, Blocked
    <2>3. CASE ~ReleaseReturns
      <3>1. Paused(loop') => Paused(loop)
        BY <1>6, <2>3 DEF LoopStep, SeesStop, ReadyTimeout, SeesEof, ReadFatal, ReadReady, ReadTrigger, TimerFires,
                          JoinCycle, JoinAll, BreakMain, Line
      <3> QED BY <1>1, <2>1, <3>1
    <2> QED BY <2>2, <2>3
  <1>7. CASE InputdStarts \/ InputdDies \/ KeyboardEvent \/ StopSpammer \/ AbortLoop \/ AutopotPress
    <2>1. equips' = equips /\ session' = session /\ (loop' = loop \/ loop' = "dropping")
      BY <1>7 DEF InputdStarts, InputdDies, KeyboardEvent, StopSpammer, AbortLoop, AutopotPress
    <2> QED BY <1>1, <2>1
  <1>8. CASE UNCHANGED spammerOnly
    BY <1>1, <1>8 DEF spammerOnly
  <1> QED BY <1>2, <1>3, <1>4, <1>5, <1>6, <1>7, <1>8 DEF SpammerNext, LoopStep

(* ------------------------------- the theorems ----------------------------- *)

CoreInv == InputInv /\ LoopInv /\ GearInv

(* The invariant holds before the first session. *)
LEMMA CoreInit == SpammerInit => CoreInv
  <1> SUFFICES ASSUME SpammerInit PROVE CoreInv
    OBVIOUS
  <1>1. /\ worker = "running" /\ high = <<>> /\ normal = <<>> /\ cmd = NoCommand /\ wpc = "idle" /\ device = {} /\ spam = Released
        /\ generation = 1 /\ sequence = 1 /\ call = [w \in Writers |-> NoCall] /\ faults \in 0..MaxFaults
        /\ loop = "off" /\ active = NoKey /\ held = <<>> /\ armed = FALSE /\ ready = FALSE /\ pending = <<>>
        /\ task = [s \in Sessions |-> NoTask] /\ equips = [s \in Sessions |-> <<>>] /\ session = 0 /\ stop = FALSE
        /\ inputd = "gone" /\ lines = <<>> /\ phys = {} /\ passed = {} /\ quiet = TRUE
    BY DEF SpammerInit, InputInit
  <1>2. left \in [Bounds -> Nat] /\ left.sessions <= MaxSessions /\ gearOn \in BOOLEAN
    <2>1. PICK s \in Scenarios : left = [x \in Bounds |-> s[x]] /\ gearOn = s.gear
      BY DEF SpammerInit
    <2>2. (\A x \in Bounds : s[x] \in Nat) /\ s.sessions <= MaxSessions /\ s.gear \in BOOLEAN /\ "sessions" \in Bounds
      BY ScenariosAssumption DEF Bounds
    <2> QED BY <2>1, <2>2
  <1>3. QueueTypes
    BY <1>1, InputAssumption DEF QueueTypes
  <1>4. DeviceTypes
    BY <1>1 DEF DeviceTypes, Released, CycleSteps
  <1>5. \A w \in Writers : call[w] = NoCall
    BY <1>1
  <1>6. CallTypes
    BY <1>1, <1>5 DEF CallTypes, NoCall, CallStates, InCall
  <1>7. call["loop"] = NoCall /\ \A s \in Sessions : call[CycleOf[s]] = NoCall /\ call[GearOf[s]] = NoCall /\ task[s] = NoTask
    BY <1>1, <1>5, Threads
  <1>8. Slots
    BY <1>1, <1>7 DEF Slots, Blocked, NoCall, NoTask
  <1>9. TicketsUpTo(1) /\ TicketsUpTo(0)
    BY <1>1, <1>7 DEF TicketsUpTo, NoCall, NoTask, InCall, CycleSteps
  <1>10. TicketInv
    <2>1. generation - 1 = 0
      BY <1>1
    <2> QED BY <1>1, <1>9, <2>1 DEF TicketInv, Stale
  <1>11. CalmInv
    BY <1>1 DEF CalmInv, KnownInv, Calm, Released, CycleSteps
  <1>12. FreshInv
    BY <1>1, <1>7, NothingIsNoCommand DEF FreshInv, NoCall, InCall
  <1>13. ReleaseInv
    BY <1>1, <1>7 DEF ReleaseInv, NoCall, InCall
  <1>14. ShiftInv
    BY <1>1, NothingIsNoCommand DEF ShiftInv, Live, CycleSteps
  <1>15. LoopTypes
    <2>1. held \in Seq(Keys) /\ pending \in Seq(Seq(Labels)) /\ equips \in [Sessions -> Seq(Labels)]
      BY <1>1
    <2>2. task \in [Sessions -> Tasks] /\ NoTask.st = "none"
      BY <1>1 DEF Tasks, NoTask
    <2>3. session \in 0..MaxSessions /\ session + left.sessions <= MaxSessions
      <3>1. left.sessions \in Nat
        BY <1>2 DEF Bounds
      <3> QED BY <1>1, <1>2, <3>1, MaxSessionsAssumption
    <2> QED BY <1>1, <1>2, <1>7, <2>1, <2>2, <2>3 DEF LoopTypes, LoopPlaces
  <1>16. InputdTypes
    BY <1>1, NoLines DEF InputdTypes
  <1>17. WorkInv /\ IsHeldOnce
    BY <1>1 DEF WorkInv, IsHeldOnce, Live
  <1>18. GearInv
    BY <1>1, <1>7 DEF GearInv, NoCall
  <1> QED BY <1>3, <1>4, <1>6, <1>8, <1>10, <1>11, <1>12, <1>13, <1>14, <1>15, <1>16, <1>17, <1>18 DEF CoreInv, InputInv, LoopInv

(* It holds when nothing changes. *)
LEMMA CoreStutters == CoreInv /\ UNCHANGED spammerVars => CoreInv'
  <1> SUFFICES ASSUME CoreInv, UNCHANGED spammerVars PROVE CoreInv'
    OBVIOUS
  <1> USE DEF CoreInv, spammerVars, inputVars, loopVars, inputdVars
  <1>1. QueueTypes' /\ DeviceTypes' /\ CallTypes' /\ Slots'
    BY DEF InputInv, QueueTypes, DeviceTypes, CallTypes, Slots, InCall, Blocked
  <1>2. TicketInv' /\ CalmInv' /\ FreshInv' /\ ReleaseInv' /\ ShiftInv'
    BY DEF InputInv, TicketInv, TicketsUpTo, Stale, InCall, CalmInv, KnownInv, Calm, FreshInv, Fresh, FreshAt, OwnIs, Own,
           ReleaseInv, ReleaseAt, ShiftInv, NoFresh, Live
  <1>3. LoopInv' /\ GearInv'
    BY DEF LoopInv, LoopTypes, InputdTypes, WorkInv, IsHeldOnce, Live, GearInv
  <1> QED BY <1>1, <1>2, <1>3 DEF InputInv

(* The invariant of the whole: types, which calls are out, the age of every cycle, what the worker
   holds down, and the work of the loop. *)
THEOREM CoreAlways == SpammerSpec => []CoreInv
  <1>1. CoreInv /\ SpammerNext => CoreInv'
    <2> SUFFICES ASSUME CoreInv, SpammerNext PROVE CoreInv'
      OBVIOUS
    <2>1. InputInv'
      BY InputInvStep DEF CoreInv, LoopInv
    <2>2. LoopInv'
      BY LoopInvStep DEF CoreInv, InputInv
    <2>3. GearInv'
      BY GearInvStep DEF CoreInv, LoopInv
    <2> QED BY <2>1, <2>2, <2>3 DEF CoreInv
  <1> QED BY <1>1, CoreInit, CoreStutters, PTL DEF SpammerSpec

(* Exactly one of timer and cycle drives an active key (invariant=active_without_timer_or_task,
   invariant=multiple_inflight_tasks). *)
THEOREM WorkAlways == SpammerSpec => []ActiveHasWork
  <1>1. CoreInv => ActiveHasWork
    BY DEF CoreInv, LoopInv, WorkInv, ActiveHasWork
  <1> QED BY <1>1, CoreAlways, PTL

(* After a release that succeeded nothing of the spammer is down until it dispatches again
   (release_spam, SpamCancellation). *)
THEOREM QuietAlways == SpammerSpec => []ReleasedIsQuiet
  <1>1. CoreInv => ReleasedIsQuiet
    BY DEF CoreInv, InputInv, CalmInv, Calm, ReleasedIsQuiet
  <1> QED BY <1>1, CoreAlways, PTL

(* Only the step from settle to hold of a fresh cycle presses the button (spam_cycle). *)
LEMMA OnlyCyclesClick ==
    ASSUME CoreInv, SpammerNext, Mouse \notin device, Mouse \in device'
    PROVE  cmd.key \in device' /\ (Shift \in device') = (cmd.key \in ShiftKeys)
  <1>0. QueueTypes /\ DeviceTypes /\ CallTypes /\ Slots /\ KnownInv /\ LoopTypes /\ InputdTypes /\ WorkInv
    BY DEF CoreInv, InputInv, CalmInv, LoopInv
  <1>1. CASE LoopStep \/ PoolStep \/ InputdStarts \/ InputdDies \/ KeyboardEvent \/ StartSpammer \/ StopSpammer
             \/ AbortLoop \/ AutopotPress
    <2>1. Local \/ Calls
      BY <1>0, <1>1, LoopStepCases, PoolStepCases, OtherStepCases DEF CoreInv
    <2>2. Local \/ Calls => device' = device
      BY DEF Local, Calls, StaysLocal, StartsSession, Dispatches, AsksRelease, HasAnswer, AsksCycle, CycleEnds, PressEnds,
             AsksPress, workerState, inputVars
    <2> QED BY <2>1, <2>2
  <1>2. CASE CallStep
    BY <1>2 DEF CallStep, Enqueue, AckTimeout
  <1>3. CASE WorkerShutdown
    BY <1>3 DEF WorkerShutdown
  <1>4. CASE WorkerTakes /\ UNCHANGED spammerOnly
    <2>1. PICK c \in Commands : Takes(c)
      BY <1>0, <1>4, TakesCases
    <2>2. c.kind # "release" => c.key # Mouse
      BY CommandFacts, InputAssumption
    <2> QED BY <2>1, <2>2 DEF Takes, Executed, Skips, Starts, FailsToStart, Presses, FailsToPress, Releases
  <1>5. CASE MidStep
    <2>1. /\ wpc # "idle" /\ cmd \in Commands
          /\ GoesOn \/ \E o \in Outcomes : Ends(o)
      BY <1>0, <1>5, MidCases
    <2>2. GoesOn
      BY <2>1 DEF Ends
    <2>3. cmd.kind = "cycle" /\ Fresh(cmd) /\ cmd.key \in Labels /\ cmd.shift = (cmd.key \in ShiftKeys)
      BY <2>1, <2>2, CommandFacts DEF GoesOn
    <2>4. wpc = "settle" /\ device' = device \union {Mouse}
      BY <2>2, <2>3, InputAssumption DEF GoesOn
    <2>5. Live /\ ~NoFresh
      BY <2>3, StaleFacts DEF CoreInv, InputInv, TicketInv, NoFresh
    <2>6. (Shift \in device <=> spam.shift) /\ spam.shift = cmd.shift /\ cmd.key \in device
      BY <2>3, <2>4, <2>5 DEF CoreInv, InputInv, ShiftInv
    <2>7. cmd.key \in device' /\ (Shift \in device' <=> Shift \in device)
      BY <2>4, <2>6 DEF Shift, Mouse
    <2>8. spam.shift <=> cmd.key \in ShiftKeys
      BY <2>3, <2>6
    <2>9. (Shift \in device') \in BOOLEAN /\ (Shift \in device' <=> cmd.key \in ShiftKeys)
      BY <2>6, <2>7, <2>8
    <2> QED BY <2>7, <2>9
  <1> QED BY <1>1, <1>2, <1>3, <1>4, <1>5 DEF SpammerNext, WorkerStep, MidStep

(* A click has its skill key and the Shift its trigger wants (spam_cycle, reconcile_spam_modifier). *)
THEOREM ClicksAlwaysIntended == SpammerSpec => ClickIsIntended
  <1>1. CoreInv /\ [SpammerNext]_spammerVars =>
          [Mouse \notin device /\ Mouse \in device' =>
              /\ cmd.key \in device'
              /\ (Shift \in device') = (cmd.key \in ShiftKeys)]_spammerVars
    BY OnlyCyclesClick
  <1> QED BY <1>1, CoreAlways, PTL DEF SpammerSpec, ClickIsIntended

(* ------------------------------ the lines --------------------------------- *)

(* A line more, or the first one read: what the loop will hold in the end. *)
LEMMA LineAdded ==
    ASSUME InputdTypes, NEW l \in StdoutLine, lines' = Append(lines, l), held' = held, NEW k \in Keys, WillHold(k)'
    PROVE  IF l.type = "trigger" /\ l.key = k THEN l.held ELSE WillHold(k)
  <1>0. PICK n \in Nat : n = Len(lines)
    BY DEF InputdTypes
  <1>1. /\ DOMAIN lines' = 1..(n + 1) /\ DOMAIN lines = 1..n
        /\ lines'[n + 1] = l /\ \A i \in DOMAIN lines : lines'[i] = lines[i]
    BY <1>0, Added DEF InputdTypes
  <1>2. \A i \in DOMAIN lines : About(i, k)' <=> About(i, k)
    BY <1>1 DEF About
  <1>3. About(n + 1, k)' <=> l.type = "trigger" /\ l.key = k
    BY <1>1 DEF About
  <1>4. CASE l.type = "trigger" /\ l.key = k
    <2>1. ~\A j \in DOMAIN lines' : ~About(j, k)'
      BY <1>1, <1>3, <1>4
    <2>2. PICK i \in DOMAIN lines' : About(i, k)' /\ lines'[i].held /\ \A j \in DOMAIN lines' : j > i => ~About(j, k)'
      BY <2>1 DEF WillHold
    <2>3. ~(n + 1 > i)
      BY <1>1, <1>3, <1>4, <2>2
    <2>4. i = n + 1
      BY <1>1, <2>2, <2>3
    <2> QED BY <1>1, <1>4, <2>2, <2>4
  <1>5. CASE ~(l.type = "trigger" /\ l.key = k)
    <2>1. CASE \E i \in DOMAIN lines' : About(i, k)' /\ lines'[i].held /\ \A j \in DOMAIN lines' : j > i => ~About(j, k)'
      <3>1. PICK i \in DOMAIN lines' : About(i, k)' /\ lines'[i].held /\ \A j \in DOMAIN lines' : j > i => ~About(j, k)'
        BY <2>1
      <3>2. i # n + 1
        BY <1>3, <1>5, <3>1
      <3>3. i \in DOMAIN lines /\ About(i, k) /\ lines[i].held
        BY <1>1, <1>2, <3>1, <3>2
      <3>4. \A j \in DOMAIN lines : j > i => ~About(j, k)
        BY <1>1, <1>2, <3>1
      <3> QED BY <1>5, <3>3, <3>4 DEF WillHold
    <2>2. CASE IsHeld(k)' /\ \A j \in DOMAIN lines' : ~About(j, k)'
      <3>1. IsHeld(k)
        BY <2>2 DEF IsHeld
      <3>2. \A j \in DOMAIN lines : ~About(j, k)
        BY <1>1, <1>2, <2>2
      <3> QED BY <1>5, <3>1, <3>2 DEF WillHold
    <2> QED BY <2>1, <2>2 DEF WillHold
  <1> QED BY <1>4, <1>5

(* What the loop will hold does not change by reading a line. *)
LEMMA LineRead ==
    ASSUME InputdTypes, lines # <<>>, lines' = Tail(lines), NEW k \in Keys, WillHold(k)',
           IsHeld(k)' => IF lines[1].type = "trigger" /\ lines[1].key = k THEN lines[1].held ELSE IsHeld(k)
    PROVE  WillHold(k)
  <1>1. /\ DOMAIN lines = 1..Len(lines) /\ Len(lines) \in Nat /\ DOMAIN lines' = 1..(Len(lines) - 1) /\ 1 \in DOMAIN lines
        /\ \A i \in DOMAIN lines' : lines'[i] = lines[i + 1] /\ i + 1 \in DOMAIN lines /\ i \in Nat
    BY Taken DEF InputdTypes
  <1>2. \A i \in DOMAIN lines' : About(i, k)' <=> About(i + 1, k)
    BY <1>1 DEF About
  <1>3. \A j \in DOMAIN lines : j > 1 => j - 1 \in DOMAIN lines' /\ (j - 1) + 1 = j
    BY <1>1
  <1>4. CASE \E i \in DOMAIN lines' : About(i, k)' /\ lines'[i].held /\ \A j \in DOMAIN lines' : j > i => ~About(j, k)'
    <2>1. PICK i \in DOMAIN lines' : About(i, k)' /\ lines'[i].held /\ \A j \in DOMAIN lines' : j > i => ~About(j, k)'
      BY <1>4
    <2>2. i + 1 \in DOMAIN lines /\ About(i + 1, k) /\ lines[i + 1].held
      BY <1>1, <1>2, <2>1
    <2>3. ASSUME NEW j \in DOMAIN lines, j > i + 1 PROVE ~About(j, k)
      <3>1. j > 1 /\ j - 1 > i
        BY <1>1, <2>1, <2>3
      <3>2. j - 1 \in DOMAIN lines' /\ (j - 1) + 1 = j /\ ~About(j - 1, k)'
        BY <1>3, <2>1, <3>1
      <3> QED BY <1>2, <3>2
    <2> QED BY <2>2, <2>3 DEF WillHold
  <1>5. CASE IsHeld(k)' /\ \A j \in DOMAIN lines' : ~About(j, k)'
    <2>1. \A j \in DOMAIN lines : j > 1 => ~About(j, k)
      BY <1>2, <1>3, <1>5
    <2>2. CASE lines[1].type = "trigger" /\ lines[1].key = k
      <3>1. About(1, k) /\ lines[1].held
        BY <1>1, <1>5, <2>2 DEF About
      <3> QED BY <1>1, <2>1, <3>1 DEF WillHold
    <2>3. CASE ~(lines[1].type = "trigger" /\ lines[1].key = k)
      <3>1. ~About(1, k)
        BY <2>3 DEF About
      <3>2. \A j \in DOMAIN lines : ~About(j, k)
        <4>1. \A j \in DOMAIN lines : j = 1 \/ j > 1
          BY <1>1
        <4> QED BY <2>1, <3>1, <4>1
      <3> QED BY <1>5, <2>3, <3>2 DEF WillHold
    <2> QED BY <2>2, <2>3
  <1> QED BY <1>4, <1>5 DEF WillHold

(* Without a new line the loop will hold no more than before. *)
LEMMA SameLines ==
    ASSUME NEW k, lines' = lines, held' = held \/ held' = <<>>, WillHold(k)'
    PROVE  WillHold(k)
  <1>1. \A i : About(i, k)' <=> About(i, k)
    BY DEF About
  <1>2. IsHeld(k)' => IsHeld(k)
    BY DEF IsHeld
  <1> QED BY <1>1, <1>2 DEF WillHold

(* What the loop will hold stays within what the user holds, whatever step is taken. *)
LEMMA LinesInvStep ==
    ASSUME LoopInv, Slots, LinesInv, SpammerNext
    PROVE  LinesInv'
  <1> DEFINE Ended(l) == l \in {"off", "ending", "joining", "dropping"}
  <1>0. /\ LoopTypes /\ InputdTypes /\ WorkInv /\ IsHeldOnce /\ lines \in Seq(StdoutLine) /\ phys \subseteq Keys
        /\ active \in Keys \union {NoKey} /\ passed \subseteq phys /\ NoKey \notin Keys
    BY KeysAssumption, InputAssumption DEF LoopInv, LoopTypes, InputdTypes, LinesInv
  <1>1. CASE /\ UNCHANGED <<inputdVars, ready>> /\ (active' = NoKey \/ (active' = active /\ held' = held)) /\ held' \in {held, <<>>}
             /\ (inputd = "up" /\ ~Ended(loop') /\ ~ready => ~Ended(loop))
    <2>1. active' # NoKey => IsHeld(active)'
      BY <1>1 DEF LinesInv, IsHeld
    <2>2. inputd = "up" => \A k \in Keys : WillHold(k)' => k \in phys /\ k \notin passed
      BY <1>1, SameLines DEF LinesInv, inputdVars
    <2> QED BY <1>1, <2>1, <2>2 DEF LinesInv, inputdVars
  <1>2. CASE UNCHANGED <<lines, phys, passed, inputd>> /\ Ended(loop') /\ ForgetLocals
    <2>1. active' = NoKey /\ held' = <<>> /\ ready' = FALSE
      BY <1>2 DEF ForgetLocals
    <2>2. inputd = "up" => \A k \in Keys : WillHold(k)' => k \in phys /\ k \notin passed
      BY <1>2, <2>1, SameLines DEF LinesInv
    <2> QED BY <1>2, <2>1, <2>2 DEF LinesInv
  <1>3. CASE inputd' = "gone" /\ UNCHANGED <<phys, passed>> /\ (active' = NoKey \/ UNCHANGED <<active, held>>)
    <2>1. active' # NoKey => IsHeld(active)'
      BY <1>3 DEF LinesInv, IsHeld
    <2> QED BY <1>3, <2>1 DEF LinesInv
  <1>4. CASE SeesStop \/ ReadyTimeout \/ SeesEof
    BY <1>2, <1>4 DEF SeesStop, ReadyTimeout, SeesEof, BreakMain, LoopFrame
  <1>5. CASE ReadFatal \/ ReadReady
    <2>1. /\ lines # <<>> /\ lines' = Tail(lines) /\ UNCHANGED <<inputd, phys, passed>> /\ lines[1].type # "trigger"
          /\ \/ active' = active /\ held' = held /\ ready' = TRUE
             \/ active' = NoKey /\ held' = <<>> /\ Ended(loop')
      BY <1>0, <1>5, LinesFacts DEF ReadFatal, ReadReady, Line, BreakMain, ForgetLocals, LoopFrame
    <2>2. \A k : IsHeld(k)' => IsHeld(k)
      BY <2>1 DEF IsHeld
    <2>3. active' # NoKey => IsHeld(active)'
      BY <2>1 DEF LinesInv, IsHeld
    <2>4. inputd = "up" => \A k \in Keys : WillHold(k)' => k \in phys /\ k \notin passed
      BY <1>0, <2>1, <2>2, LineRead DEF LinesInv
    <2>5. inputd # "starting"
      BY <2>1 DEF LinesInv
    <2> QED BY <2>1, <2>3, <2>4, <2>5 DEF LinesInv
  <1>6. CASE ReadTrigger
    <2> DEFINE k == Head(lines).key
               h == Head(lines).held
    <2>1. /\ lines # <<>> /\ lines' = Tail(lines) /\ ready /\ ready' = ready /\ Head(lines).type = "trigger"
          /\ held' = HeldAfter(k, h) /\ active' = ActiveAfter(k, h) /\ UNCHANGED <<inputd, phys, passed>>
      BY <1>6 DEF ReadTrigger, Line, LoopFrame
    <2>2. k \in Keys /\ h \in BOOLEAN /\ lines[1] = Head(lines)
      BY <1>0, <2>1, LinesFacts DEF StdoutLine
    <2>3. PICK kk, hh : kk = k /\ hh = h
      OBVIOUS
    <2> HIDE DEF k, h
    <2>4. /\ held' \in Seq(Keys)
          /\ \A x : (\E i \in DOMAIN held' : held'[i] = x) <=> IF x = k THEN h ELSE IsHeld(x)
      BY <1>0, <2>1, <2>2, HeldAfterFacts
    <2>5. \A x : IsHeld(x)' <=> IF x = k THEN h ELSE IsHeld(x)
      BY <2>4 DEF IsHeld
    <2>6. active' # NoKey => IsHeld(active)'
      <3>1. CASE h
        <4>1. active' = k
          BY <2>1, <3>1 DEF ActiveAfter
        <4> QED BY <2>4, <3>1, <4>1 DEF IsHeld
      <3>2. CASE ~h /\ active # k
        <4>1. active' = active
          BY <2>1, <3>2 DEF ActiveAfter
        <4>2. active # NoKey => IsHeld(active)
          BY DEF LinesInv
        <4> QED BY <2>4, <3>2, <4>1, <4>2 DEF IsHeld
      <3>3. CASE ~h /\ active = k
        <4>1. active' = IF held' = <<>> THEN NoKey ELSE held'[Len(held')]
          BY <2>1, <3>3 DEF ActiveAfter
        <4>2. held' # <<>> => Len(held') \in DOMAIN held'
          BY <2>4
        <4> QED BY <4>1, <4>2 DEF IsHeld
      <3> QED BY <3>1, <3>2, <3>3
    <2>7. \A x \in Keys : IsHeld(x)' => IF lines[1].type = "trigger" /\ lines[1].key = x THEN lines[1].held ELSE IsHeld(x)
      BY <2>1, <2>2, <2>5 DEF k, h
    <2>8. inputd = "up" => \A x \in Keys : WillHold(x)' => x \in phys /\ x \notin passed
      BY <1>0, <2>1, <2>7, LineRead DEF LinesInv
    <2>9. inputd # "starting"
      BY <2>1 DEF LinesInv
    <2> QED BY <1>0, <2>1, <2>6, <2>8, <2>9 DEF LinesInv
  <1>7. CASE ReleaseReturns
    <2>0. UNCHANGED inputdVars /\ Blocked
      BY <1>7 DEF ReleaseReturns, Answered, Slots
    <2>1. CASE ForgetLocals /\ loop' = "ending"
      BY <1>2, <2>0, <2>1 DEF inputdVars
    <2>2. CASE loop' \in {"select", "pause", "equip", "joining", "off"} /\ UNCHANGED <<active, held, ready>> /\ (Ended(loop) => Ended(loop'))
      <3>1. Ended(loop) => Ended(loop')
        BY <2>2
      <3> QED BY <1>1, <2>0, <2>2
    <2>3. UNCHANGED <<active, held, ready>> \/ (ForgetLocals /\ loop' = "ending")
      BY <1>7 DEF ReleaseReturns, loopVars
    <2>4. (ForgetLocals /\ loop' = "ending") \/ (loop' \in {"select", "pause", "equip", "joining", "off"} /\ (Ended(loop) => Ended(loop')))
      BY <1>7 DEF ReleaseReturns
    <2> QED BY <2>1, <2>2, <2>3, <2>4
  <1>8. CASE EquipDone \/ TimerFires \/ JoinCycle \/ PoolStep \/ StopSpammer \/ AutopotPress \/ UNCHANGED spammerOnly
    <2>1. UNCHANGED inputdVars
      BY <1>8 DEF EquipDone, TimerFires, JoinCycle, PoolStep, EquipPress, EquipReturns, CycleStarts, CycleReturns, StopSpammer,
                  AutopotPress, spammerOnly
    <2>2. \/ UNCHANGED <<active, held, ready>> /\ (loop' = loop \/ (loop = "equip" /\ loop' = "select"))
          \/ ForgetLocals /\ loop' = "ending"
      BY <1>8 DEF EquipDone, TimerFires, JoinCycle, PoolStep, EquipPress, EquipReturns, CycleStarts, CycleReturns, StopSpammer,
                  AutopotPress, spammerOnly, loopVars
    <2>3. CASE UNCHANGED <<active, held, ready>> /\ (loop' = loop \/ (loop = "equip" /\ loop' = "select"))
      BY <1>1, <2>1, <2>3
    <2>4. CASE ForgetLocals /\ loop' = "ending"
      BY <1>2, <2>1, <2>4 DEF inputdVars
    <2> QED BY <2>2, <2>3, <2>4
  <1>9. CASE JoinAll \/ AbortLoop \/ InputdDies
    BY <1>3, <1>9 DEF JoinAll, AbortLoop, InputdDies, ForgetLocals, loopVars
  <1>10. CASE StartSpammer
    <2>1. /\ inputd' = "starting" /\ lines' = <<>> /\ passed' = {} /\ phys' = phys /\ active' = active /\ held' = held /\ ready' = ready
          /\ active = NoKey /\ held = <<>> /\ ~ready
      BY <1>0, <1>10 DEF StartSpammer, loopVars, WorkInv
    <2> QED BY <2>1 DEF LinesInv
  <1>11. CASE InputdStarts
    <2>1. /\ lines = <<>> /\ held = <<>> /\ UNCHANGED <<active, held, ready, phys, passed, loop>>
          /\ \/ inputd' = "up" /\ lines' = Append(lines, [type |-> "ready", key |-> NoKey, held |-> FALSE])
             \/ inputd' = "gone"
      BY <1>11 DEF InputdStarts, LinesInv, loopVars
    <2>2. CASE inputd' = "gone"
      BY <1>3, <2>1, <2>2
    <2>3. CASE inputd' = "up" /\ lines' = Append(lines, [type |-> "ready", key |-> NoKey, held |-> FALSE])
      <3>1. lines' = <<[type |-> "ready", key |-> NoKey, held |-> FALSE]>>
        BY <2>1, <2>3
      <3>2. lines' # <<>> /\ lines'[1].type = "ready" /\ DOMAIN lines' = {1}
        BY <3>1
      <3>3. \A k : ~IsHeld(k)'
        BY <2>1 DEF IsHeld
      <3>4. \A k, i : ~About(i, k)'
        BY <3>2 DEF About
      <3>5. \A k : ~WillHold(k)'
        BY <3>3, <3>4 DEF WillHold
      <3>6. active = NoKey
        BY <2>1 DEF LinesInv, IsHeld
      <3> QED BY <2>1, <2>3, <3>2, <3>5, <3>6 DEF LinesInv
    <2> QED BY <2>1, <2>2, <2>3
  <1>12. CASE KeyboardEvent
    <2>1. UNCHANGED <<loop, active, held, ready, inputd>>
      BY <1>12 DEF KeyboardEvent, loopVars
    <2>2. passed' \subseteq phys'
      BY <1>0, <1>12 DEF KeyboardEvent, PressTrigger, ReleaseTrigger
    <2>3. active' # NoKey => IsHeld(active)'
      BY <2>1 DEF LinesInv, IsHeld
    <2>4. inputd # "up" => lines' = lines
      BY <1>12 DEF KeyboardEvent, PressTrigger, ReleaseTrigger, EmitTrigger
    <2>5. lines # <<>> => lines' # <<>> /\ lines'[1] = lines[1]
      <3>1. lines' = lines \/ \E l \in StdoutLine : lines' = Append(lines, l)
        BY <1>12 DEF KeyboardEvent, PressTrigger, ReleaseTrigger, EmitTrigger, StdoutLine
      <3>2. ASSUME lines # <<>>, NEW l \in StdoutLine, lines' = Append(lines, l) PROVE lines' # <<>> /\ lines'[1] = lines[1]
        <4>1. /\ 1 \in DOMAIN lines /\ DOMAIN lines' = 1..(Len(lines) + 1) /\ Len(lines) \in Nat
              /\ \A i \in DOMAIN lines : Append(lines, l)[i] = lines[i]
          BY <1>0, <3>2, Added, Taken
        <4> QED BY <3>2, <4>1
      <3> QED BY <3>1, <3>2
    <2>6. ASSUME inputd = "up", NEW x \in Keys, WillHold(x)'
          PROVE  x \in phys' /\ x \notin passed'
      <3>1. WillHold(x) => x \in phys /\ x \notin passed
        BY <2>6 DEF LinesInv
      <3>2. PICK k \in Keys : ReleaseTrigger(k) \/ \E alt \in BOOLEAN : PressTrigger(k, alt)
        BY <1>12 DEF KeyboardEvent
      <3>3. \A hh \in BOOLEAN : [type |-> "trigger", key |-> k, held |-> hh] \in StdoutLine
        BY DEF StdoutLine
      <3>4. CASE ReleaseTrigger(k) /\ k \in passed
        <4>1. phys' = phys \ {k} /\ passed' = passed \ {k} /\ lines' = lines
          BY <3>4 DEF ReleaseTrigger
        <4>2. WillHold(x)
          BY <2>1, <2>6, <4>1, SameLines
        <4> QED BY <3>1, <3>4, <4>1, <4>2
      <3>5. CASE ReleaseTrigger(k) /\ k \notin passed
        <4>1. phys' = phys \ {k} /\ passed' = passed \ {k} /\ lines' = Append(lines, [type |-> "trigger", key |-> k, held |-> FALSE])
          BY <2>6, <3>5 DEF ReleaseTrigger, EmitTrigger
        <4>2. IF k = x THEN FALSE ELSE WillHold(x)
          BY <1>0, <2>1, <2>6, <3>3, <4>1, LineAdded
        <4> QED BY <3>1, <4>1, <4>2
      <3>6. ASSUME NEW alt \in BOOLEAN, PressTrigger(k, alt) PROVE x \in phys' /\ x \notin passed'
        <4>1. /\ k \notin phys /\ phys' = phys \union {k} /\ passed' = (IF alt THEN passed \union {k} ELSE passed)
              /\ lines' = Append(lines, [type |-> "trigger", key |-> k, held |-> ~alt])
          BY <2>6, <3>6 DEF PressTrigger, EmitTrigger
        <4>2. (~alt) \in BOOLEAN
          OBVIOUS
        <4>3. IF k = x THEN ~alt ELSE WillHold(x)
          BY <1>0, <2>1, <2>6, <3>3, <4>1, <4>2, LineAdded
        <4> QED BY <1>0, <3>1, <4>1, <4>3
      <3> QED BY <3>2, <3>4, <3>5, <3>6
    <2>7. (inputd' = "starting" => lines' = <<>> /\ held' = <<>> /\ ~ready')
      BY <2>1, <2>4 DEF LinesInv
    <2> QED BY <2>1, <2>2, <2>3, <2>5, <2>6, <2>7 DEF LinesInv
  <1> QED BY <1>4, <1>5, <1>6, <1>7, <1>8, <1>9, <1>10, <1>11, <1>12 DEF SpammerNext, LoopStep

(* ------------------------------- at rest ---------------------------------- *)

(* While the loop cannot dispatch, a quiet device stays quiet: no older cycle comes through. *)
LEMMA CalmStays ==
    ASSUME CoreInv, ~Live, Calm, SpammerNext
    PROVE  Calm'
  <1>0. /\ QueueTypes /\ DeviceTypes /\ CallTypes /\ Slots /\ KnownInv /\ LoopTypes /\ InputdTypes /\ WorkInv /\ InputInv
        /\ HeldSpam(spam) = {} /\ spam.shift = FALSE /\ spam.mouse = FALSE
    BY DEF CoreInv, InputInv, CalmInv, LoopInv, HeldSpam, Held, Calm, DeviceTypes
  <1>1. NoFresh
    BY StaleFacts DEF CoreInv, InputInv, TicketInv
  <1>2. CASE LoopStep \/ PoolStep \/ InputdStarts \/ InputdDies \/ KeyboardEvent \/ StartSpammer \/ StopSpammer
             \/ AbortLoop \/ AutopotPress
    <2>1. Local \/ Calls
      BY <1>0, <1>2, LoopStepCases, PoolStepCases, OtherStepCases DEF CoreInv
    <2>2. Local \/ Calls => UNCHANGED workerState
      BY DEF Local, Calls, StaysLocal, StartsSession, Dispatches, AsksRelease, HasAnswer, AsksCycle, CycleEnds, PressEnds,
             AsksPress, workerState, inputVars
    <2> QED BY <2>1, <2>2 DEF Calm, workerState
  <1>3. CASE CallStep
    <2>1. UNCHANGED <<device, spam, wpc>>
      BY <1>3 DEF CallStep, Enqueue, AckTimeout
    <2> QED BY <2>1 DEF Calm
  <1>4. CASE WorkerShutdown
    <2>1. spam \in SpamStates /\ device' = {} /\ spam' = Forget(spam, HeldSpam(spam)) /\ wpc' = wpc
      BY <1>0, <1>4, HeldFacts DEF WorkerShutdown
    <2> QED BY <2>1, ForgetFacts DEF Calm
  <1>5. CASE WorkerTakes /\ UNCHANGED spammerOnly
    <2>1. PICK c \in Commands : Takes(c)
      BY <1>0, <1>5, TakesCases
    <2>2. c.kind = "cycle" => ~Fresh(c)
      BY <1>0, <1>1, <2>1, TakesQueues DEF NoFresh, FreshAt
    <2>3. CASE Presses(c)
      <3>1. c.key # Shift /\ c.key # Mouse
        BY <2>3, InputAssumption DEF Presses
      <3> QED BY <2>3, <3>1 DEF Presses, Calm, CycleSteps
    <2>4. CASE \E o \in {"ok", "failed"} : Releases(c, o)
      BY <1>0, <2>4 DEF Releases, Calm
    <2> QED BY <2>1, <2>2, <2>3, <2>4 DEF Takes, Executed, Skips, Starts, FailsToStart, FailsToPress, Calm
  <1>6. CASE MidStep
    <2>1. /\ wpc # "idle" /\ cmd \in Commands
          /\ GoesOn \/ \E o \in Outcomes : Ends(o)
      BY <1>0, <1>6, MidCases
    <2>2. wpc = "press" /\ \E o \in Outcomes : Ends(o)
      BY <1>0, <1>1, <2>1 DEF GoesOn, NoFresh, Calm, DeviceTypes
    <2> QED BY <2>2 DEF Ends, Calm, CycleSteps
  <1> QED BY <1>2, <1>3, <1>4, <1>5, <1>6 DEF SpammerNext, WorkerStep, MidStep

(* A step that leaves the loop at its place and its call alone keeps what is known of its end. *)
LEMMA RestSame ==
    ASSUME CoreInv, RestInv, SpammerNext, loop' = loop, call'["loop"] = call["loop"], faults' \in {0, faults}
    PROVE  RestInv'
  BY CalmStays DEF RestInv, Live

(* With one failure at most, every end of a session gets its release done. *)
LEMMA RestInvStep ==
    ASSUME MaxFaults <= 1, CoreInv, RestInv, SpammerNext
    PROVE  RestInv'
  <1>0. /\ QueueTypes /\ DeviceTypes /\ CallTypes /\ Slots /\ KnownInv /\ LoopTypes /\ InputdTypes /\ WorkInv /\ InputInv
        /\ faults \in {0, 1}
    BY InputAssumption DEF CoreInv, InputInv, CalmInv, LoopInv, DeviceTypes
  <1>1. "loop" \in Writers /\ \A s \in Sessions : CycleOf[s] \in Writers /\ CycleOf[s] # "loop"
    BY Threads
  <1>2. \A f : f \in {faults, faults - 1} \intersect Nat => f \in {0, faults}
    BY <1>0
  <1>3. CASE loop' \in {"select", "equip", "readying", "cancel", "pause"} /\ call'["loop"].st # "skipped"
    BY <1>3 DEF RestInv
  <1>4. CASE JoinAll \/ AbortLoop
    <2>1. /\ loop' = "dropping" /\ call'["loop"].st = "drawn" /\ loop \in {"joining", "select", "equip"}
          /\ (loop = "joining" /\ faults' = faults) \/ faults' = 0
      BY <1>0, <1>1, <1>4 DEF JoinAll, AbortLoop, SubmitRelease, CallOf, CallTypes, workerOnly
    <2>2. Calm /\ loop = "joining" => Calm'
      BY CalmStays DEF Live
    <2> QED BY <2>1, <2>2 DEF RestInv
  <1>5. CASE Local
    <2>1. call'["loop"] = call["loop"] /\ (loop' = loop \/ loop' = "select") /\ faults' \in {0, faults}
      BY <1>2, <1>5 DEF Local, StaysLocal, StartsSession, Dispatches, inputVars
    <2> QED BY <1>3, <2>1, RestSame DEF RestInv
  <1>6. CASE AsksRelease /\ ~JoinAll /\ ~AbortLoop
    <2>1. call'["loop"].st = "drawn" /\ loop' \in {"readying", "cancel", "pause", "ending", "dropping"}
      BY <1>6 DEF AsksRelease, CallOf, Blocked
    <2>2. generation' # generation
      BY <1>0, <1>6 DEF AsksRelease, CallTypes
    <2>3. LoopStep
      BY <1>6, <2>2 DEF SpammerNext, PoolStep, EquipPress, EquipReturns, CycleStarts, CycleReturns, SubmitPress, SubmitCycle,
         InputdStarts, InputdDies, KeyboardEvent, StartSpammer, StopSpammer, AutopotPress, inputVars,
         WorkerStep, WorkerTakes, PressKeyUp, CycleCancelled, CycleModifier, CycleKeyDown, CycleMouseDown, CycleMouseUp,
         CallStep, Enqueue, AckTimeout, WorkerShutdown
    <2>4. loop' # "dropping"
      BY <1>6, <2>3 DEF LoopStep, SeesStop, ReadyTimeout, SeesEof, ReadFatal, ReadReady, ReadTrigger, Line, BreakMain,
         ReleaseReturns, EquipDone, TimerFires, JoinCycle
    <2> QED BY <2>1, <2>4 DEF RestInv
  <1>7. CASE HasAnswer
    <2>1. UNCHANGED faults /\ call'["loop"].st = "none" /\ call["loop"].st # "none" /\ Answered("loop")
      BY <1>0, <1>1, <1>7 DEF HasAnswer, CallTypes, NoCall, Answered
    <2>2. Calm /\ loop \in {"ending", "dropping"} => Calm'
      BY CalmStays DEF Live
    <2>3. call["loop"].st = "ok" => Calm
      BY DEF CoreInv, InputInv, CalmInv
    <2> QED BY <1>7, <2>1, <2>2, <2>3 DEF HasAnswer, RestInv, Answered
  <1>8. CASE Calls /\ ~AsksRelease /\ ~HasAnswer
    <2>1. call'["loop"] = call["loop"] /\ loop' = loop /\ faults' = faults
      BY <1>0, <1>1, <1>8, PresserFacts DEF Calls, AsksCycle, CycleEnds, PressEnds, AsksPress, CallTypes
    <2> QED BY <2>1, RestSame
  <1>9. ASSUME NEW w, Enters(w) PROVE RestInv'
    <2>1. loop' = loop /\ faults' = faults /\ call'["loop"].st \in {call["loop"].st, "sent"}
      BY <1>0, <1>1, <1>9 DEF Enters, CallTypes, spammerOnly
    <2> QED BY <2>1, CalmStays DEF RestInv, Live
  <1>10. ASSUME NEW w, IsRefused(w) PROVE RestInv'
    <2>1. loop' = loop /\ faults' \in {0, faults} /\ call'["loop"].st \in {call["loop"].st, "failed"}
      BY <1>0, <1>1, <1>10 DEF IsRefused, CallTypes, spammerOnly
    <2>2. CASE w # "loop"
      BY <1>0, <1>1, <1>10, <2>1, <2>2, RestSame DEF IsRefused, CallTypes
    <2>3. CASE w = "loop" /\ loop # "off"
      <3>1. worker = "running" /\ call["loop"].command.kind = "release"
        BY <1>0, <1>10, <2>3, CommandFacts DEF Slots, IsRefused, CallTypes
      <3>2. faults = 1 /\ faults' = 0
        BY <1>0, <1>10, <2>3, <3>1 DEF IsRefused
      <3> QED BY <2>1, <2>3, <3>2, CalmStays DEF RestInv, Live
    <2>4. CASE w = "loop" /\ loop = "off"
      BY <1>0, <1>10, <2>4 DEF IsRefused, InCall, Slots, Blocked
    <2> QED BY <2>2, <2>3, <2>4
  <1>11. ASSUME NEW c, Takes(c) PROVE RestInv'
    <2>1. loop' = loop /\ c \in Commands /\ Executed(c) /\ faults' \in {0, faults}
      BY <1>0, <1>11 DEF Takes, spammerOnly, Executed, Skips, Starts, FailsToStart, Presses, FailsToPress, Releases
    <2>2. CASE c.kind # "release"
      <3>1. c.writer # "loop"
        BY <2>1, <2>2, CommandFacts
      <3>2. call'["loop"] = call["loop"]
        BY <1>1, <2>1, <2>2, <3>1 DEF Executed, Skips, Starts, FailsToStart, Presses, FailsToPress, Releases, Answers
      <3> QED BY <2>1, <3>2, RestSame
    <2>3. CASE c.kind = "release"
      <3>1. PICK o \in {"ok", "failed"} : Releases(c, o)
        BY <2>1, <2>3 DEF Executed, Skips, Starts, FailsToStart, Presses, FailsToPress
      <3>2. call'["loop"].st \in {call["loop"].st, o} /\ (o = "failed" => faults = 1 /\ faults' = 0)
        BY <1>0, <1>1, <3>1 DEF Releases, Answers
      <3> QED BY <2>1, <3>1, <3>2, CalmStays DEF RestInv, Live
    <2> QED BY <2>2, <2>3
  <1>12. CASE MidStep /\ UNCHANGED spammerOnly
    <2>1. /\ wpc # "idle" /\ cmd \in Commands /\ loop' = loop
          /\ GoesOn \/ \E o \in Outcomes : Ends(o)
      BY <1>0, <1>12, MidCases DEF spammerOnly
    <2>2. cmd.kind # "release"
      BY <1>0, <2>1 DEF DeviceTypes
    <2>3. cmd.writer # "loop"
      BY <2>1, <2>2, CommandFacts
    <2>4. CASE GoesOn
      BY <2>1, <2>4, RestSame DEF GoesOn
    <2>5. ASSUME NEW o \in Outcomes, Ends(o) PROVE RestInv'
      <3>1. call'["loop"] = call["loop"] /\ faults' \in {0, faults}
        BY <1>0, <1>1, <2>3, <2>5 DEF Ends, Answers
      <3> QED BY <2>1, <3>1, RestSame
    <2> QED BY <2>1, <2>4, <2>5
  <1>13. CASE loop = "off" /\ WorkerShutdown /\ UNCHANGED spammerOnly
    <2>1. loop' = loop /\ call'["loop"] = call["loop"] /\ faults' = faults
      BY <1>0, <1>1, <1>13 DEF WorkerShutdown, spammerOnly, Slots, Blocked
    <2> QED BY <2>1, RestSame
  <1>14. CASE LoopStep \/ PoolStep \/ InputdStarts \/ InputdDies \/ KeyboardEvent \/ StartSpammer \/ StopSpammer
              \/ AbortLoop \/ AutopotPress
    <2>1. Local \/ Calls
      BY <1>0, <1>14, LoopStepCases, PoolStepCases, OtherStepCases
    <2> QED BY <1>4, <1>5, <1>6, <1>7, <1>8, <2>1
  <1>15. CASE (WorkerTakes \/ CallStep) /\ UNCHANGED spammerOnly
    BY <1>0, <1>9, <1>10, <1>11, <1>15, TakesCases, CallStepCases
  <1> QED BY <1>12, <1>13, <1>14, <1>15 DEF SpammerNext, WorkerStep, MidStep

EndInv == LinesInv /\ RestInv

(* Nothing is down before the first session. *)
LEMMA EndInit == SpammerInit => EndInv
  <1> SUFFICES ASSUME SpammerInit PROVE EndInv
    OBVIOUS
  <1>1. /\ device = {} /\ spam = Released /\ wpc = "idle" /\ loop = "off" /\ active = NoKey /\ passed = {} /\ phys = {}
        /\ inputd = "gone" /\ call["loop"] = NoCall
    BY Threads DEF SpammerInit, InputInit
  <1> QED BY <1>1 DEF EndInv, LinesInv, RestInv, Calm, Released, NoCall, CycleSteps

(* The lines when nothing changes. *)
LEMMA SameLinesInv == LinesInv /\ UNCHANGED spammerVars => LinesInv'
  <1> SUFFICES ASSUME LinesInv, UNCHANGED spammerVars PROVE LinesInv'
    OBVIOUS
  <1>1. UNCHANGED <<lines, held, passed, phys, active, inputd, ready, loop, call, spam, device, wpc, faults>>
    BY DEF spammerVars, loopVars, inputdVars, inputVars
  <1>2. \A k : WillHold(k)' => WillHold(k)
    BY <1>1, SameLines
  <1> QED BY <1>1, <1>2 DEF LinesInv, IsHeld

(* The end of a session when nothing changes. *)
LEMMA EndStutters == EndInv /\ UNCHANGED spammerVars => EndInv'
  <1>1. RestInv /\ UNCHANGED spammerVars => RestInv'
    BY DEF RestInv, Calm, spammerVars, inputVars
  <1> QED BY <1>1, SameLinesInv DEF EndInv

(* What the loop will hold once it has read all lines is what the user holds down, whatever fails:
   no release line is lost, and a key passed on under Alt never counts as held (held_keys,
   alt_passthrough_keys). *)
THEOREM LinesAlways == SpammerSpec => []LinesInv
  <1>1. SpammerInit => LinesInv
    BY EndInit DEF EndInv
  <1>2. CoreInv /\ LinesInv /\ [SpammerNext]_spammerVars => LinesInv'
    BY LinesInvStep, SameLinesInv DEF CoreInv, InputInv
  <1> QED BY <1>1, <1>2, CoreAlways, PTL DEF SpammerSpec

RestsWhileRunning == AtRest /\ loop = "select" => Calm /\ active = NoKey
(* A session that has read its lines while the user holds no trigger has no active key and holds
   nothing down, however many calls fail (active_key, release_spam). *)
THEOREM RunningRestAlways == SpammerSpec => []RestsWhileRunning
  <1>1. CoreInv /\ LinesInv => RestsWhileRunning
    <2> SUFFICES ASSUME CoreInv, LinesInv, AtRest, loop = "select" PROVE Calm /\ active = NoKey
      BY DEF RestsWhileRunning
    <2>1. inputd = "up" /\ lines = <<>> /\ phys = {}
      BY DEF AtRest
    <2>2. ready /\ DOMAIN lines = {}
      BY <2>1, NoLines DEF LinesInv
    <2>3. \A k \in Keys : ~IsHeld(k)
      BY <2>1, <2>2 DEF LinesInv, WillHold
    <2>4. active = NoKey
      BY <2>3 DEF LinesInv, CoreInv, LoopInv, LoopTypes
    <2> QED BY <2>2, <2>4 DEF CoreInv, LoopInv, WorkInv, Live, InputInv, CalmInv
  <1> QED BY <1>1, CoreAlways, LinesAlways, PTL

(* A release is final: once it succeeded, and whenever everything has been processed and the user
   holds no trigger, nothing of the spammer is down and no key is active, if at most one call,
   press or process fails (release_spam, SpamReleaseGuard, held_keys). *)
THEOREM ReleasesAlwaysFinal ==
    ASSUME MaxFaults <= 1
    PROVE  SpammerSpec => []ReleaseIsFinal
  <1>1. CoreInv /\ EndInv /\ [SpammerNext]_spammerVars => EndInv'
    <2>1. CoreInv /\ EndInv /\ SpammerNext => EndInv'
      BY LinesInvStep, RestInvStep DEF CoreInv, InputInv, EndInv
    <2> QED BY <2>1, EndStutters
  <1>2. CoreInv /\ EndInv /\ RestsWhileRunning => ReleaseIsFinal
    <2> SUFFICES ASSUME CoreInv, EndInv, RestsWhileRunning PROVE ReleaseIsFinal
      OBVIOUS
    <2>1. ReleasedIsQuiet
      BY DEF CoreInv, InputInv, CalmInv, Calm, ReleasedIsQuiet
    <2>2. ASSUME AtRest PROVE Calm /\ active = NoKey
      <3>1. CASE loop = "off"
        BY <3>1 DEF EndInv, RestInv, CoreInv, LoopInv, WorkInv
      <3>2. CASE loop = "select"
        BY <2>2, <3>2 DEF RestsWhileRunning
      <3> QED BY <2>2, <3>1, <3>2 DEF AtRest
    <2> QED BY <2>1, <2>2 DEF ReleaseIsFinal, RestIsReleased, Calm
  <1> QED BY <1>1, <1>2, CoreAlways, RunningRestAlways, EndInit, PTL DEF SpammerSpec

=============================================================================
