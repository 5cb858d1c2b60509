------------------------ MODULE RunnerSessionsProofs ------------------------
(* One supervisor per prefix, leases that protect it, an owner for each and a count   *)
(* of its requests, for any number of callers, prefixes and sessions.                  *)
EXTENDS RunnerSessions, FiniteSetTheorems, TLAPS

(* Who holds a startup lock: a caller in one of the places of Starting, which has a     *)
(* session in those of Hands, or a task in one of Working; the tasks that took the      *)
(* Child, or found it taken; and those with nothing left to do.                         *)
Starting == {"bootstrap", "handshake", "insert", "unwind"}
Hands == {"handshake", "insert", "unwind"}
Working == {"stopping", "killing"}
Taking == {"killing", "forcing"}
Ending == {"none", "ok", "error"}

(* Everything that names a session names one that was spawned, on its own prefix; a     *)
(* session that was not is as at the start.                                             *)
NamesInv ==
    /\ \A s \in SessionIds : IF s <= born THEN prefixOf[s] \in Prefixes
                             ELSE sup[s] = "none" /\ ~child[s] /\ state[s] = "Ready"
    /\ \A p \in Prefixes :
          sessions[p] <= born /\ (sessions[p] # NoSession => prefixOf[sessions[p]] = p)
    /\ \A o \in Ops :
          mine[o] <= born /\ (mine[o] # NoSession => prefixOf[mine[o]] = OpPrefix[o])
    /\ \A t \in TaskIds : task[t].sess <= born

(* A registered session is Ready or Stopping, and shutdown_all knows its prefix.        *)
RegisteredInv ==
    \A p \in Prefixes :
        sessions[p] # NoSession => p \in known /\ state[sessions[p]] \in {"Ready", "Stopping"}

NoInsert(p) == \A o \in Ops : OpPrefix[o] = p => pc[o] # "insert"
OnlyOwn(t) == sessions[TaskPrefix(t)] \in {task[t].sess, NoSession}

(* A shutdown task: its session is of its prefix; while it stops or kills, it has the   *)
(* lock and nothing else is registered; a deadline only passes while the launcher       *)
(* closes; Ready sessions are forced to stop only then.                                 *)
TaskInv(t) ==
    /\ task[t].pc \notin Ending /\ (task[t].pc = "queued" => t[1] # "close")
          => task[t].sess # NoSession /\ prefixOf[task[t].sess] = TaskPrefix(t)
    /\ t[1] = "idle" /\ task[t].pc # "none" => task[t].sess = t[2]
    /\ task[t].pc \in Working =>
          lock[TaskPrefix(t)] = t /\ OnlyOwn(t) /\ state[task[t].sess] # "Ready"
    /\ task[t].pc \in Taking => ~child[task[t].sess]
    /\ task[t].pc = "queued" /\ task[t].cause = "Forced" =>
          closing \/ state[task[t].sess] # "Ready"
    /\ t[1] = "close" => task[t].cause = "Forced" /\ (task[t].pc # "none" => census)
    /\ task[t].pc = "forcing" => t[1] = "close" /\ OnlyOwn(t) /\ NoInsert(TaskPrefix(t))

(* A caller: a startup has the lock, nothing is registered and no task knows its        *)
(* session; before the spawn no supervisor of the prefix is left.                       *)
CallerInv(o) ==
    /\ pc[o] # "idle" => OpPrefix[o] \in known
    /\ pc[o] \notin {"awaiting", "quiesce", "failed"} => task[OpTask(o)].pc = "none"
    /\ pc[o] \in Starting =>
          lock[OpPrefix[o]] = Starter(o) /\ sessions[OpPrefix[o]] = NoSession
    /\ pc[o] = "bootstrap" =>
          \A s \in SessionIds : s <= born /\ prefixOf[s] = OpPrefix[o] => sup[s] # "up"
    /\ pc[o] \in Hands => mine[o] # NoSession /\ \A t \in TaskIds : task[t].sess # mine[o]
    /\ pc[o] \in {"handshake", "insert"} => state[mine[o]] = "Ready"
    /\ pc[o] = "handshake" => ~child[mine[o]]
    /\ pc[o] \in {"insert", "leased", "attached"} =>
          mine[o] # NoSession /\ o \in opLeases[mine[o]]
    /\ pc[o] = "unwind" => closing

(* A live supervisor whose Child is in its session object is registered or about to be; *)
(* one without is of a startup in its handshake, or of the task that took the Child.    *)
Taken(s) ==
    \E t \in TaskIds : task[t].sess = s /\ task[t].handle /\ task[t].pc \in Taking
OwnerInv(s) ==
    sup[s] = "up" =>
        \/ child[s] /\ sessions[prefixOf[s]] = s
        \/ child[s] /\ \E o \in Ops : mine[o] = s /\ pc[o] \in {"insert", "unwind"}
        \/ ~child[s] /\ \E o \in Ops : mine[o] = s /\ pc[o] = "handshake"
        \/ ~child[s] /\ Taken(s)

(* What a task of shutdown_all_owned leaves behind.                                     *)
CloseInv ==
    /\ census => closing
    /\ \A p \in Prefixes : census /\ task[CloseTask(p)].pc \in Ending =>
                              sessions[p] = NoSession /\ NoInsert(p)

SessionInv ==
    /\ TypeOK /\ NamesInv /\ RegisteredInv /\ CloseInv
    /\ \A t \in TaskIds : TaskInv(t)
    /\ \A o \in Ops : CallerInv(o)
    /\ \A s \in SessionIds : OwnerInv(s)
    /\ OneSupervisorPerPrefix /\ LeaseProtectsSession

(* What is counted on a sound pipe is what runs; an uncounted controller breaks it.     *)
(* Requests and idle bookkeeping are of sessions that were spawned.                     *)
RequestInv ==
    /\ ActiveIsExact
    /\ \A o \in Ops : /\ req[o] # "none" => reqOf[o] # NoSession
                      /\ req[o] = "uncounted" => link[reqOf[o]] # "ok"
                      /\ reqOf[o] <= born
    /\ \A s \in SessionIds :
          s <= born \/ (fresh[s] = {} /\ checks[s] = 0 /\ bumps[s] = 0)

(* The callers, tasks and holders are told apart by their names. *)
LEMMA TaskNames ==
    /\ \A o \in Ops : OpTask(o) \in TaskIds /\ OpTask(o)[1] = "op" /\ OpTask(o)[2] = o
    /\ \A s \in SessionIds :
          IdleTask(s) \in TaskIds /\ IdleTask(s)[1] = "idle" /\ IdleTask(s)[2] = s
    /\ \A p \in Prefixes :
          CloseTask(p) \in TaskIds /\ CloseTask(p)[1] = "close" /\ CloseTask(p)[2] = p
    /\ \A t \in TaskIds :
          /\ t # NoOne /\ \A o \in Ops : t # Starter(o)
          /\ \/ t[1] = "op" /\ t[2] \in Ops /\ t = OpTask(t[2])
             \/ t[1] = "idle" /\ t[2] \in SessionIds /\ t = IdleTask(t[2])
             \/ t[1] = "close" /\ t[2] \in Prefixes /\ t = CloseTask(t[2])
    /\ \A o \in Ops : Starter(o) # NoOne
    /\ \A o, q \in Ops : Starter(o) = Starter(q) => o = q
  BY NoOneAssumption DEF TaskIds, OpTask, IdleTask, CloseTask, Starter

(* Values of the shutdown tasks. *)
LEMMA TaskValues ==
    /\ NoTask \in Task /\ NoTask.pc = "none" /\ NoTask.sess = NoSession /\ NoTask.cause = "Forced"
    /\ \A r \in {"ok", "error"}, t \in TaskIds :
          /\ Finished(t, r) \in Task /\ Finished(t, r).sess = NoSession
          /\ Finished(t, r).cause = "Forced" /\ ~Finished(t, r).handle
          /\ Finished(t, r).pc \in {"none", r}
          /\ t[1] = "close" => Finished(t, r).pc = r
    /\ \A s \in SessionIds \cup {NoSession}, cause \in {"Idle", "Quiescent", "Forced"} :
          /\ NewTask(s, cause) \in Task /\ NewTask(s, cause).pc = "queued"
          /\ NewTask(s, cause).sess = s /\ NewTask(s, cause).cause = cause
  <1>1. NoTask \in Task /\ NoTask.pc = "none" /\ NoTask.sess = NoSession /\ NoTask.cause = "Forced"
    BY DEF Task, NoTask
  <1>2. ASSUME NEW r \in {"ok", "error"}, NEW t \in TaskIds
        PROVE  /\ Finished(t, r) \in Task /\ Finished(t, r).sess = NoSession
               /\ Finished(t, r).cause = "Forced" /\ ~Finished(t, r).handle
               /\ Finished(t, r).pc \in {"none", r}
               /\ t[1] = "close" => Finished(t, r).pc = r
    <2>1. Finished(t, r) \in {NoTask, [NoTask EXCEPT !.pc = r]}
          /\ (t[1] = "close" => Finished(t, r) = [NoTask EXCEPT !.pc = r])
      BY DEF Finished
    <2>2. LET e == [NoTask EXCEPT !.pc = r]
          IN  e \in Task /\ e.sess = NoSession /\ e.cause = "Forced" /\ ~e.handle /\ e.pc = r
      BY DEF Task, NoTask
    <2> QED BY <1>1, <2>1, <2>2 DEF NoTask
  <1>3. ASSUME NEW s \in SessionIds \cup {NoSession}, NEW cause \in {"Idle", "Quiescent", "Forced"}
        PROVE  /\ NewTask(s, cause) \in Task /\ NewTask(s, cause).pc = "queued"
               /\ NewTask(s, cause).sess = s /\ NewTask(s, cause).cause = cause
    BY DEF Task, NewTask
  <1> QED BY <1>1, <1>2, <1>3

(* What a step writes into a task record is one. *)
LEMMA TaskChanges ==
    ASSUME NEW task0 \in Task, NEW s \in SessionIds, NEW handle \in BOOLEAN
    PROVE  /\ [task0 EXCEPT !.pc = "stopping", !.sess = s] \in Task
           /\ [task0 EXCEPT !.pc = "killing", !.handle = handle] \in Task
           /\ [NoTask EXCEPT !.pc = "forcing", !.sess = s, !.handle = handle] \in Task
           /\ [NoTask EXCEPT !.pc = "error"] \in Task
  BY DEF Task, NoTask

(* The steps that take some care keep the types: first, an operation that begins. *)
LEMMA BeginOperationType ==
    ASSUME SessionInv, NEW o \in Ops, BeginOperation(o)
    PROVE  TypeOK'
  <1>1. OpPrefix[o] \in Prefixes
    BY OpsAssumption
  <1> QED
    BY <1>1 DEF SessionInv, TypeOK, OpPc, BeginOperation, bornVars, leaseVars, idleVars,
       supVars, reqVars

(* What remove_session_if_same leaves is well typed. *)
LEMMA RemoveTypes ==
    ASSUME TypeOK, NEW s \in SessionIds, RemoveIfSame(s)
    PROVE  /\ sessions' \in [Prefixes -> SessionIds \cup {NoSession}]
           /\ fresh' \in [SessionIds -> SUBSET (TaskIds \cup {Timer})]
           /\ checks' \in [SessionIds -> Nat] /\ bumps' \in [SessionIds -> Nat]
           /\ \A p \in Prefixes : sessions'[p] = IF sessions[p] = s
                       THEN NoSession ELSE sessions[p]
  BY DEF TypeOK, RemoveIfSame

(* A startup takes the lock, and may remove a dead session. *)
LEMMA BeginStartsType ==
    ASSUME SessionInv, NEW o \in Ops, BeginStarts(o)
    PROVE  TypeOK'
  <1>1. /\ sessions' \in [Prefixes -> SessionIds \cup {NoSession}]
        /\ fresh' \in [SessionIds -> SUBSET (TaskIds \cup {Timer})]
        /\ checks' \in [SessionIds -> Nat] /\ bumps' \in [SessionIds -> Nat]
    <2>1. CASE Registered(o)
      <3>1. Existing(o) \in SessionIds
        BY <2>1, OpsAssumption DEF SessionInv, TypeOK, Existing, Registered
      <3> QED BY <2>1, <3>1, RemoveTypes DEF BeginStarts, SessionInv
    <2>2. CASE ~Registered(o)
      BY <2>2 DEF BeginStarts, SessionInv, TypeOK, idleVars
    <2> QED BY <2>1, <2>2
  <1>2. lock' \in [Prefixes -> Holders] /\ pc' \in [Ops -> OpPc]
    BY DEF BeginStarts, SessionInv, TypeOK, Holders, OpPc
  <1> QED
    BY <1>1, <1>2 DEF BeginStarts, SessionInv, TypeOK, bornVars, leaseVars, supVars, reqVars

(* A session object appears. *)
LEMMA HandshakeSucceedsType ==
    ASSUME SessionInv, NEW o \in Ops, HandshakeSucceeds(o)
    PROVE  TypeOK'
  <1>1. mine[o] \in SessionIds
    BY DEF HandshakeSucceeds, SessionInv, TypeOK, CallerInv, Hands
  <1>2. opLeases' \in [SessionIds -> SUBSET Ops] /\ child' \in [SessionIds -> BOOLEAN]
    BY <1>1 DEF HandshakeSucceeds, SessionInv, TypeOK
  <1>3. state' \in [SessionIds -> {"Ready", "Stopping", "Stopped", "Failed"}]
    BY <1>1 DEF HandshakeSucceeds, SessionInv, TypeOK
  <1>4. pc' \in [Ops -> OpPc]
    <2>1. pc \in [Ops -> OpPc] /\ (pc' = [pc EXCEPT ![o] = "unwind"] \/ pc' = [pc EXCEPT ![o] = "insert"])
      BY DEF HandshakeSucceeds, SessionInv, TypeOK
    <2> QED BY <2>1 DEF OpPc
  <1> QED
    BY <1>2, <1>3, <1>4 DEF HandshakeSucceeds, SessionInv, TypeOK, registryVars, bornVars,
       idleVars, supVars, reqVars

(* A caller is dropped. *)
LEMMA CancelType ==
    ASSUME SessionInv, NEW o \in Ops, Cancel(o)
    PROVE  TypeOK'
  <1>1. /\ sup' \in [SessionIds -> {"none", "up", "gone"}]
        /\ child' \in [SessionIds -> BOOLEAN] /\ mine' \in [Ops -> SessionIds \cup {NoSession}]
    BY DEF Cancel, SessionInv, TypeOK
  <1>2. lock' \in [Prefixes -> Holders]
    BY DEF Cancel, Release, SessionInv, TypeOK, Holders
  <1>3. task' \in [TaskIds -> Task]
    BY TaskValues DEF Cancel, SessionInv, TypeOK
  <1>4. pc' \in [Ops -> OpPc]
    BY DEF Cancel, SessionInv, TypeOK, OpPc
  <1> QED
    BY <1>1, <1>2, <1>3, <1>4 DEF Cancel, SessionInv, TypeOK, bornVars, leaseVars, idleVars,
       reqVars

(* An idle timer fires. *)
LEMMA TimerFiresType ==
    ASSUME SessionInv, NEW s \in SessionIds, TimerFires(s)
    PROVE  TypeOK'
  <1>1. task' \in [TaskIds -> Task]
    BY TaskValues DEF TimerFires, SessionInv, TypeOK
  <1>2. fresh' \in [SessionIds -> SUBSET (TaskIds \cup {Timer})]
    BY TaskNames DEF TimerFires, SessionInv, TypeOK
  <1> QED
    BY <1>1, <1>2 DEF TimerFires, SessionInv, TypeOK, registryVars, bornVars, leaseVars,
       supVars, reqVars, opVars

(* A shutdown ends at once. *)
LEMMA TaskReturnsType ==
    ASSUME SessionInv, NEW t \in TaskIds, TaskReturns(t)
    PROVE  TypeOK'
  <1>1. task' \in [TaskIds -> Task]
    BY TaskValues DEF TaskReturns, SessionInv, TypeOK
  <1> QED
    BY <1>1 DEF TaskReturns, SessionInv, TypeOK, registryVars, bornVars, leaseVars, idleVars,
       supVars, reqVars, opVars

(* A task that is not over works on a session and a prefix.  *)
LEMMA TaskTarget ==
    ASSUME SessionInv, NEW t \in TaskIds, task[t].pc \notin Ending,
           task[t].pc = "queued" => Present(t)
    PROVE  /\ TaskPrefix(t) \in Prefixes
           /\ task[t].pc # "queued" => task[t].sess \in SessionIds
           /\ task[t].pc = "queued" => Target(t) \in SessionIds
           /\ (IF task[t].pc = "queued" THEN prefixOf[Target(t)] ELSE prefixOf[task[t].sess])
                = TaskPrefix(t)
  <1>1. task[t].sess \in SessionIds \cup {NoSession}
    BY DEF SessionInv, TypeOK, Task
  <1>2. CASE t[1] = "close"
    <2>1. TaskPrefix(t) = t[2] /\ t[2] \in Prefixes
      BY <1>2, TaskNames DEF TaskPrefix
    <2>2. task[t].pc = "queued" => Target(t) = sessions[t[2]] /\ Target(t) # NoSession
      BY <2>1, <1>2 DEF Target, Present
    <2> QED
      BY <1>1, <1>2, <2>1, <2>2 DEF SessionInv, TypeOK, TaskInv, NamesInv
  <1>3. CASE t[1] # "close"
    <2>1. task[t].sess \in SessionIds /\ Target(t) = task[t].sess
      BY <1>1, <1>3 DEF SessionInv, TaskInv, Target
    <2>2. prefixOf[task[t].sess] = TaskPrefix(t)
      BY <1>3 DEF SessionInv, TaskInv
    <2>3. prefixOf[task[t].sess] \in Prefixes
      BY <2>1 DEF SessionInv, TypeOK, NamesInv, SessionIds
    <2> QED BY <2>1, <2>2, <2>3
  <1> QED BY <1>2, <1>3

(* A task past its queue works on a session of its prefix. *)
LEMMA TaskPlace ==
    ASSUME SessionInv
    PROVE  \A t \in TaskIds : task[t].pc \notin Ending \cup {"queued"} =>
              /\ task[t].sess \in SessionIds /\ TaskPrefix(t) \in Prefixes
              /\ prefixOf[task[t].sess] = TaskPrefix(t)
  BY TaskTarget

(* A shutdown starts. *)
LEMMA TaskStopsType ==
    ASSUME SessionInv, NEW t \in TaskIds, TaskStops(t)
    PROVE  TypeOK'
  <1>1. Target(t) \in SessionIds
    BY TaskTarget DEF TaskStops, Queued, Due, Ending
  <1>2. task' \in [TaskIds -> Task]
    <2>1. [task[t] EXCEPT !.pc = "stopping", !.sess = Target(t)] \in Task
      BY <1>1, TaskChanges DEF SessionInv, TypeOK
    <2> QED BY <2>1 DEF TaskStops, SessionInv, TypeOK
  <1>3. /\ lock' \in [Prefixes -> Holders]
        /\ state' \in [SessionIds -> {"Ready", "Stopping", "Stopped", "Failed"}]
    BY <1>1 DEF TaskStops, SessionInv, TypeOK, Holders
  <1> QED
    BY <1>2, <1>3 DEF TaskStops, SessionInv, TypeOK, bornVars, leaseVars, idleVars,
       supVars, reqVars, opVars

(* A shutdown ends well. *)
LEMMA TaskSeesStoppedType ==
    ASSUME SessionInv, NEW t \in TaskIds, TaskSeesStopped(t)
    PROVE  TypeOK'
  <1>1. task[t].sess \in SessionIds
    BY TaskTarget DEF TaskSeesStopped, Ending
  <1>2. task' \in [TaskIds -> Task]
    BY TaskValues DEF TaskSeesStopped, SessionInv, TypeOK
  <1>3. /\ sessions' \in [Prefixes -> SessionIds \cup {NoSession}]
        /\ fresh' \in [SessionIds -> SUBSET (TaskIds \cup {Timer})]
        /\ checks' \in [SessionIds -> Nat] /\ bumps' \in [SessionIds -> Nat]
    BY <1>1, RemoveTypes DEF TaskSeesStopped, SessionInv
  <1>4. /\ lock' \in [Prefixes -> Holders] /\ child' \in [SessionIds -> BOOLEAN]
        /\ state' \in [SessionIds -> {"Ready", "Stopping", "Stopped", "Failed"}]
    BY <1>1 DEF TaskSeesStopped, ReleaseBy, SessionInv, TypeOK, Holders
  <1> QED
    BY <1>2, <1>3, <1>4 DEF TaskSeesStopped, SessionInv, TypeOK, bornVars, leaseVars,
       supVars, reqVars, opVars

(* A shutdown fails. *)
LEMMA TaskFailsType ==
    ASSUME SessionInv, NEW t \in TaskIds, TaskFails(t)
    PROVE  TypeOK'
  <1>1. task[t].sess \in SessionIds
    BY TaskTarget DEF TaskFails, Ending
  <1>2. task' \in [TaskIds -> Task]
    <2>1. child[task[t].sess] \in BOOLEAN /\ task[t] \in Task
      BY <1>1 DEF SessionInv, TypeOK
    <2>2. [task[t] EXCEPT !.pc = "killing", !.handle = child[task[t].sess]] \in Task
      BY <1>1, <2>1, TaskChanges
    <2> QED BY <2>2 DEF TaskFails, SessionInv, TypeOK
  <1>3. child' \in [SessionIds -> BOOLEAN]
    BY <1>1 DEF TaskFails, SessionInv, TypeOK
  <1> QED
    BY <1>2, <1>3 DEF TaskFails, SessionInv, TypeOK, registryVars, bornVars, leaseVars,
       idleVars, supVars, reqVars, opVars

(* The owner of a Child only ends supervisors. *)
LEMMA EndedEffect ==
    ASSUME TypeOK, NEW t \in TaskIds, Ended(t)
    PROVE  /\ sup' \in [SessionIds -> {"none", "up", "gone"}]
           /\ link' \in [SessionIds -> {"ok", "fatal", "deaf"}]
           /\ \A s \in SessionIds : sup'[s] = sup[s] \/ sup'[s] = "gone"
           /\ \A s \in SessionIds : link'[s] = "ok" => link[s] = "ok"
           /\ \A s \in SessionIds : task[t].handle /\ s = task[t].sess => sup'[s] # "up"
  BY DEF TypeOK, Ended

(* A Child is killed. *)
LEMMA TaskKillsType ==
    ASSUME SessionInv, NEW t \in TaskIds, TaskKills(t)
    PROVE  TypeOK'
  <1>1. task[t].sess \in SessionIds
    BY TaskTarget DEF TaskKills, Ending
  <1>2. task' \in [TaskIds -> Task]
    BY TaskValues DEF TaskKills, SessionInv, TypeOK
  <1>3. /\ sessions' \in [Prefixes -> SessionIds \cup {NoSession}]
        /\ fresh' \in [SessionIds -> SUBSET (TaskIds \cup {Timer})]
        /\ checks' \in [SessionIds -> Nat] /\ bumps' \in [SessionIds -> Nat]
    BY <1>1, RemoveTypes DEF TaskKills, SessionInv
  <1>4. /\ sup' \in [SessionIds -> {"none", "up", "gone"}]
        /\ link' \in [SessionIds -> {"ok", "fatal", "deaf"}]
    BY EndedEffect DEF TaskKills, SessionInv
  <1>5. /\ lock' \in [Prefixes -> Holders]
        /\ state' \in [SessionIds -> {"Ready", "Stopping", "Stopped", "Failed"}]
    BY <1>1 DEF TaskKills, ReleaseBy, SessionInv, TypeOK, Holders
  <1> QED
    BY <1>2, <1>3, <1>4, <1>5 DEF TaskKills, SessionInv, TypeOK, bornVars, leaseVars,
       reqVars, opVars

(* The deadline of the end passes. *)
LEMMA CloseTimesOutType ==
    ASSUME SessionInv, NEW p \in Prefixes, CloseTimesOut(p)
    PROVE  TypeOK'
  <1> DEFINE t == CloseTask(p)
             s == sessions[p]
  <1>0. t \in TaskIds
    BY TaskNames
  <1>1. /\ ReleaseBy(t) /\ Ended(t)
        /\ task' = [task EXCEPT ![t] =
                       IF s = NoSession THEN [NoTask EXCEPT !.pc = "error"]
                       ELSE [NoTask EXCEPT !.pc = "forcing", !.sess = s, !.handle = child[s]]]
        /\ child' = [c \in SessionIds |-> child[c] /\ c # s]
        /\ UNCHANGED <<known, sessions, closing, census, bornVars, state, leaseVars, idleVars,
                       reqVars, opVars>>
    BY DEF CloseTimesOut
  <1> HIDE DEF t
  <1>2. task' \in [TaskIds -> Task]
    <2>1. [NoTask EXCEPT !.pc = "error"] \in Task
      BY <1>0, TaskChanges, BoundAssumption DEF Task, NoTask
    <2>2. s # NoSession =>
             [NoTask EXCEPT !.pc = "forcing", !.sess = s, !.handle = child[s]] \in Task
      <3> SUFFICES ASSUME s # NoSession PROVE
             [NoTask EXCEPT !.pc = "forcing", !.sess = s, !.handle = child[s]] \in Task
        OBVIOUS
      <3>1. s \in SessionIds /\ child[s] \in BOOLEAN
        BY DEF SessionInv, TypeOK
      <3> QED BY <3>1, TaskValues, TaskChanges
    <2> QED BY <1>0, <1>1, <2>1, <2>2 DEF SessionInv, TypeOK
  <1>3. child' \in [SessionIds -> BOOLEAN]
    BY <1>1
  <1>4. /\ sup' \in [SessionIds -> {"none", "up", "gone"}]
        /\ link' \in [SessionIds -> {"ok", "fatal", "deaf"}]
    BY <1>0, <1>1, EndedEffect DEF SessionInv
  <1>5. lock' \in [Prefixes -> Holders]
    BY <1>1 DEF ReleaseBy, SessionInv, TypeOK, Holders
  <1> QED
    BY <1>1, <1>2, <1>3, <1>4, <1>5 DEF SessionInv, TypeOK, bornVars, leaseVars, idleVars,
       reqVars, opVars

(* A session is owned as before when nothing took its owner away. *)
OwnerKept(r) ==
    sup'[r] = "up" =>
      /\ sup[r] = "up" /\ (child'[r] <=> child[r]) /\ prefixOf'[r] = prefixOf[r]
      /\ sessions[prefixOf[r]] = r => sessions'[prefixOf[r]] = r
      /\ \A o \in Ops : mine[o] = r /\ pc[o] \in Hands => mine'[o] = r /\ pc'[o] = pc[o]
      /\ \A t \in TaskIds :
            task[t].sess = r /\ task[t].handle /\ task[t].pc \in Taking => task'[t] = task[t]

(* A step that leaves tasks, sessions and locks alone leaves TaskInv alone, if it lets no
   startup come to its insertion. *)
LEMMA TaskFrame ==
    ASSUME SessionInv, UNCHANGED <<task, registryVars, state, child, prefixOf>>,
           \A q \in Ops : pc'[q] = "insert" => pc[q] = "insert"
    PROVE  \A u \in TaskIds : TaskInv(u)'
  <1> SUFFICES ASSUME NEW u \in TaskIds PROVE TaskInv(u)'
    OBVIOUS
  <1>1. TaskInv(u)
    BY DEF SessionInv
  <1>2. TaskPrefix(u)' = TaskPrefix(u)
    BY DEF TaskPrefix
  <1>3. NoInsert(TaskPrefix(u)) => NoInsert(TaskPrefix(u))'
    BY <1>2 DEF NoInsert
  <1>4. OnlyOwn(u)' <=> OnlyOwn(u)
    BY <1>2 DEF OnlyOwn, registryVars
  <1> QED BY <1>1, <1>2, <1>3, <1>4 DEF TaskInv, registryVars

(* Such a session still has its owner. *)
LEMMA OwnerFrame ==
    ASSUME NEW r \in SessionIds, OwnerInv(r), OwnerKept(r)
    PROVE  OwnerInv(r)'
  <1> USE DEF OwnerKept
  <1> SUFFICES ASSUME sup'[r] = "up"
               PROVE  \/ child'[r] /\ sessions'[prefixOf'[r]] = r
                      \/ child'[r] /\ \E o \in Ops : mine'[o] = r /\ pc'[o]
                                  \in {"insert", "unwind"}
                      \/ ~child'[r] /\ \E o \in Ops : mine'[o] = r /\ pc'[o] = "handshake"
                      \/ ~child'[r] /\ Taken(r)'
    BY DEF OwnerInv
  <1>1. CASE child[r] /\ sessions[prefixOf[r]] = r
    BY <1>1
  <1>2. CASE child[r] /\ \E o \in Ops : mine[o] = r /\ pc[o] \in {"insert", "unwind"}
    BY <1>2 DEF Hands
  <1>3. CASE ~child[r] /\ \E o \in Ops : mine[o] = r /\ pc[o] = "handshake"
    BY <1>3 DEF Hands
  <1>4. CASE ~child[r] /\ Taken(r)
    BY <1>4 DEF Taken
  <1> QED BY <1>1, <1>2, <1>3, <1>4 DEF OwnerInv

(* Steps that move no caller and no task, and only end supervisors. *)
LEMMA QuietStep ==
    ASSUME SessionInv, TypeOK',
           UNCHANGED <<lock, known, sessions, closing, census, born, prefixOf, state,
                       opLeases, clientLeases, child, task, pc, mine>>,
           \A s \in SessionIds : sup'[s] = sup[s] \/ (sup[s] = "up" /\ sup'[s] = "gone")
    PROVE  SessionInv'
  <1> USE DEF SessionInv
  <1>1. NamesInv' /\ RegisteredInv' /\ CloseInv'
    BY DEF NamesInv, RegisteredInv, CloseInv, NoInsert
  <1>2. \A u \in TaskIds : TaskInv(u)'
    BY DEF TaskInv, OnlyOwn, NoInsert, TaskPrefix
  <1>3. \A q \in Ops : CallerInv(q)'
    BY DEF CallerInv
  <1>4. \A r \in SessionIds : OwnerInv(r)'
    BY OwnerFrame DEF OwnerKept
  <1>5. OneSupervisorPerPrefix' /\ LeaseProtectsSession'
    BY DEF OneSupervisorPerPrefix, LeaseProtectsSession
  <1> QED BY <1>1, <1>2, <1>3, <1>4, <1>5

(* Requests, answers, idle timers and the pipe move no caller and no task. *)
LEMMA QuietActions ==
    ASSUME SessionInv, TypeOK',
           \/ \E o \in Ops : Launch(o) \/ Answer(o) \/ ControllerExited(o)
           \/ \E s \in SessionIds : ScheduleCheck(s) \/ ScheduleBump(s) \/ SupervisorStep(s)
    PROVE  SessionInv'
  <1>1. ASSUME NEW o \in Ops, Launch(o) \/ Answer(o) \/ ControllerExited(o)
        PROVE  SessionInv'
    BY <1>1, QuietStep DEF Launch, Answer, LaunchAccepted, LaunchRejected, LaunchUncounted,
       ControllerExited, registryVars, bornVars, leaseVars, idleVars, supVars, opVars
  <1>2. ASSUME NEW s \in SessionIds, ScheduleCheck(s) \/ ScheduleBump(s)
        PROVE  SessionInv'
    BY <1>2, QuietStep DEF ScheduleCheck, ScheduleBump, registryVars, bornVars, leaseVars,
       supVars, opVars
  <1>3. ASSUME NEW s \in SessionIds, SupervisorStep(s)
        PROVE  SessionInv'
    <2>1. \A r \in SessionIds : sup'[r] = sup[r] \/ (sup[r] = "up" /\ sup'[r] = "gone")
      BY <1>3 DEF SupervisorStep, SupervisorStops, SupervisorDies, PipeBreaks, SessionInv, TypeOK
    <2> QED
      BY <1>3, <2>1, QuietStep DEF SupervisorStep, SupervisorStops, SupervisorDies, PipeBreaks,
         registryVars, bornVars, leaseVars, opVars
  <1> QED BY <1>1, <1>2, <1>3

(* The first call of a prefix makes its lock known. *)
LEMMA BeginOperationStep ==
    ASSUME SessionInv, NEW o \in Ops, BeginOperation(o), TypeOK'
    PROVE  SessionInv'
  <1> USE TaskNames, OpsAssumption DEF BeginOperation, Ending, Hands, NoSession, SessionIds,
        SessionInv, Starting, Taking, TaskPrefix, TypeOK, Working, bornVars, idleVars,
        leaseVars, reqVars, supVars
  <1>1. NamesInv'
    BY SMTT(20) DEF NamesInv
  <1>2. RegisteredInv'
    BY SMTT(20) DEF NamesInv, RegisteredInv
  <1>3. CloseInv'
    BY SMTT(20) DEF CloseInv, NoInsert, RegisteredInv
  <1>4. \A u \in TaskIds : TaskInv(u)'
    BY SMTT(20) DEF CallerInv, CloseInv, NamesInv, NoInsert, OnlyOwn, TaskInv
  <1>5. \A q \in Ops : CallerInv(q)'
    BY SMTT(20) DEF CallerInv, NamesInv
  <1>6. \A r \in SessionIds : OwnerInv(r)'
    <2> SUFFICES ASSUME NEW r \in SessionIds PROVE OwnerInv(r)'
      OBVIOUS
    <2>1. OwnerKept(r)
      BY SMTT(20) DEF OwnerKept, Hands, NamesInv
    <2> QED BY <2>1, OwnerFrame
  <1>7. OneSupervisorPerPrefix'
    BY SMTT(20) DEF NamesInv, OneSupervisorPerPrefix
  <1>8. LeaseProtectsSession'
    BY SMTT(20) DEF CallerInv, LeaseProtectsSession
  <1> QED BY <1>1, <1>2, <1>3, <1>4, <1>5, <1>6, <1>7, <1>8

(* A refused caller leaves. *)
LEMMA BeginRefusedStep ==
    ASSUME SessionInv, NEW o \in Ops, BeginRefused(o), TypeOK'
    PROVE  SessionInv'
  <1> USE TaskNames, OpsAssumption DEF BeginRefused, Conflict, Ending, Existing, Hands,
        HasTurn, IsQuiet, NoSession, Registered, SessionIds, SessionInv, Starting, Taking,
        TaskPrefix, TypeOK, Working, bornVars, idleVars, leaseVars, registryVars, reqVars,
        supVars
  <1>1. NamesInv'
    BY SMTT(20) DEF NamesInv
  <1>2. RegisteredInv'
    BY SMTT(20) DEF NamesInv, RegisteredInv
  <1>3. CloseInv'
    BY SMTT(20) DEF CloseInv, NoInsert, RegisteredInv
  <1>4. \A u \in TaskIds : TaskInv(u)'
    <2>1. \A q \in Ops : pc'[q] = "insert" => pc[q] = "insert"
      OBVIOUS
    <2>2. UNCHANGED <<task, registryVars, state, child, prefixOf>>
      OBVIOUS
    <2> QED BY <2>1, <2>2, TaskFrame
  <1>5. \A q \in Ops : CallerInv(q)'
    BY SMTT(20) DEF CallerInv, NamesInv
  <1>6. \A r \in SessionIds : OwnerInv(r)'
    <2> SUFFICES ASSUME NEW r \in SessionIds PROVE OwnerInv(r)'
      OBVIOUS
    <2>1. OwnerKept(r)
      BY SMTT(20) DEF OwnerKept, Hands, NamesInv
    <2> QED BY <2>1, OwnerFrame
  <1>7. OneSupervisorPerPrefix'
    BY SMTT(20) DEF NamesInv, OneSupervisorPerPrefix
  <1>8. LeaseProtectsSession'
    BY SMTT(20) DEF CallerInv, LeaseProtectsSession
  <1> QED BY <1>1, <1>2, <1>3, <1>4, <1>5, <1>6, <1>7, <1>8

(* A caller joins a Ready session. *)
LEMMA BeginReusesStep ==
    ASSUME SessionInv, NEW o \in Ops, BeginReuses(o), TypeOK'
    PROVE  SessionInv'
  <1> USE TaskNames, OpsAssumption DEF BeginReuses, BumpIdleGeneration, Ending, Existing,
        Hands, HasTurn, NoSession, Registered, Reusable, SessionIds, SessionInv, Starting,
        Taking, TaskPrefix, TypeOK, Working, bornVars, registryVars, reqVars, supVars
  <1>1. NamesInv'
    BY SMTT(20) DEF NamesInv
  <1>2. RegisteredInv'
    BY SMTT(20) DEF NamesInv, RegisteredInv
  <1>3. CloseInv'
    BY SMTT(20) DEF CloseInv, NoInsert, RegisteredInv
  <1>4. \A u \in TaskIds : TaskInv(u)'
    BY SMTT(20) DEF CallerInv, CloseInv, NamesInv, NoInsert, OnlyOwn, TaskInv
  <1>5. \A q \in Ops : CallerInv(q)'
    BY SMTT(20) DEF CallerInv, NamesInv
  <1>6. \A r \in SessionIds : OwnerInv(r)'
    <2> SUFFICES ASSUME NEW r \in SessionIds PROVE OwnerInv(r)'
      OBVIOUS
    <2>1. OwnerKept(r)
      BY SMTT(20) DEF OwnerKept, Hands, NamesInv
    <2> QED BY <2>1, OwnerFrame
  <1>7. OneSupervisorPerPrefix'
    BY SMTT(20) DEF NamesInv, OneSupervisorPerPrefix
  <1>8. LeaseProtectsSession'
    BY SMTT(20) DEF CallerInv, LeaseProtectsSession
  <1> QED BY <1>1, <1>2, <1>3, <1>4, <1>5, <1>6, <1>7, <1>8

(* A startup that spawned nothing gives its lock back. *)
LEMMA BootstrapFailsStep ==
    ASSUME SessionInv, NEW o \in Ops, BootstrapFails(o), TypeOK'
    PROVE  SessionInv'
  <1> USE TaskNames, OpsAssumption DEF BootstrapFails, Ending, Hands, NoSession, Release,
        SessionIds, SessionInv, Starting, Taking, TaskPrefix, TypeOK, Working, bornVars,
        idleVars, leaseVars, reqVars, supVars
  <1>1. NamesInv'
    BY SMTT(20) DEF NamesInv
  <1>2. RegisteredInv'
    BY SMTT(20) DEF NamesInv, RegisteredInv
  <1>3. CloseInv'
    BY SMTT(20) DEF CloseInv, NoInsert, RegisteredInv
  <1>4. \A u \in TaskIds : TaskInv(u)'
    BY SMTT(20) DEF CallerInv, CloseInv, NamesInv, NoInsert, OnlyOwn, TaskInv
  <1>5. \A q \in Ops : CallerInv(q)'
    BY SMTT(20) DEF CallerInv, NamesInv
  <1>6. \A r \in SessionIds : OwnerInv(r)'
    <2> SUFFICES ASSUME NEW r \in SessionIds PROVE OwnerInv(r)'
      OBVIOUS
    <2>1. OwnerKept(r)
      BY SMTT(20) DEF OwnerKept, Hands, NamesInv
    <2> QED BY <2>1, OwnerFrame
  <1>7. OneSupervisorPerPrefix'
    BY SMTT(20) DEF NamesInv, OneSupervisorPerPrefix
  <1>8. LeaseProtectsSession'
    BY SMTT(20) DEF CallerInv, LeaseProtectsSession
  <1> QED BY <1>1, <1>2, <1>3, <1>4, <1>5, <1>6, <1>7, <1>8

(* A supervisor that never said Ready is killed. *)
LEMMA HandshakeFailsStep ==
    ASSUME SessionInv, NEW o \in Ops, HandshakeFails(o), TypeOK'
    PROVE  SessionInv'
  <1> USE TaskNames, OpsAssumption DEF Ending, Hands, HandshakeFails, NoSession, Release,
        SessionIds, SessionInv, Starting, Taking, TaskPrefix, TypeOK, Working, bornVars,
        idleVars, leaseVars, reqVars
  <1>1. NamesInv'
    BY SMTT(20) DEF NamesInv
  <1>2. RegisteredInv'
    BY SMTT(20) DEF NamesInv, RegisteredInv
  <1>3. CloseInv'
    BY SMTT(20) DEF CloseInv, NoInsert, RegisteredInv
  <1>4. \A u \in TaskIds : TaskInv(u)'
    BY SMTT(20) DEF CallerInv, CloseInv, NamesInv, NoInsert, OnlyOwn, TaskInv
  <1>5. \A q \in Ops : CallerInv(q)'
    BY SMTT(20) DEF CallerInv, NamesInv
  <1>6. \A r \in SessionIds : OwnerInv(r)'
    <2> SUFFICES ASSUME NEW r \in SessionIds PROVE OwnerInv(r)'
      OBVIOUS
    <2>1. OwnerKept(r)
      BY SMTT(20) DEF OwnerKept, Hands, NamesInv
    <2> QED BY <2>1, OwnerFrame
  <1>7. OneSupervisorPerPrefix'
    BY SMTT(20) DEF NamesInv, OneSupervisorPerPrefix
  <1>8. LeaseProtectsSession'
    BY SMTT(20) DEF CallerInv, LeaseProtectsSession
  <1> QED BY <1>1, <1>2, <1>3, <1>4, <1>5, <1>6, <1>7, <1>8

(* A supervisor started while the launcher closes is stopped at once. *)
LEMMA UnwoundStep ==
    ASSUME SessionInv, NEW o \in Ops, Unwound(o), TypeOK'
    PROVE  SessionInv'
  <1> USE TaskNames, OpsAssumption DEF Ending, Hands, NoSession, Release, SessionIds,
        SessionInv, Starting, Taking, TaskPrefix, TypeOK, Unwound, Working, bornVars,
        idleVars, leaseVars, reqVars
  <1>1. NamesInv'
    BY SMTT(20) DEF NamesInv
  <1>2. RegisteredInv'
    BY SMTT(20) DEF CallerInv, NamesInv, RegisteredInv
  <1>3. CloseInv'
    BY SMTT(20) DEF CloseInv, NoInsert, RegisteredInv
  <1>4. \A u \in TaskIds : TaskInv(u)'
    BY SMTT(20) DEF CallerInv, CloseInv, NamesInv, NoInsert, OnlyOwn, TaskInv
  <1>5. \A q \in Ops : CallerInv(q)'
    BY SMTT(20) DEF CallerInv, NamesInv
  <1>6. \A r \in SessionIds : OwnerInv(r)'
    <2> SUFFICES ASSUME NEW r \in SessionIds PROVE OwnerInv(r)'
      OBVIOUS
    <2>1. OwnerKept(r)
      BY SMTT(20) DEF OwnerKept, Hands, NamesInv
    <2> QED BY <2>1, OwnerFrame
  <1>7. OneSupervisorPerPrefix'
    BY SMTT(20) DEF NamesInv, OneSupervisorPerPrefix
  <1>8. LeaseProtectsSession'
    BY SMTT(20) DEF CallerInv, LeaseProtectsSession
  <1> QED BY <1>1, <1>2, <1>3, <1>4, <1>5, <1>6, <1>7, <1>8

(* The shutdown a caller waited for is over. *)
LEMMA AwaitEndsStep ==
    ASSUME SessionInv, NEW o \in Ops, AwaitEnds(o), TypeOK'
    PROVE  SessionInv'
  <1> USE TaskNames, OpsAssumption DEF AwaitEnds, Ending, Hands, NoSession, NoTask,
        SessionIds, SessionInv, Starting, Taking, TaskPrefix, TypeOK, Working, bornVars,
        idleVars, leaseVars, registryVars, reqVars, supVars
  <1>1. NamesInv'
    BY SMTT(20) DEF NamesInv
  <1>2. RegisteredInv'
    BY SMTT(20) DEF NamesInv, RegisteredInv
  <1>3. CloseInv'
    BY SMTT(20) DEF CloseInv, NoInsert, RegisteredInv
  <1>4. \A u \in TaskIds : TaskInv(u)'
    BY SMTT(60) DEF CallerInv, CloseInv, NamesInv, NoInsert, OnlyOwn, TaskInv
  <1>5. \A q \in Ops : CallerInv(q)'
    BY SMTT(20) DEF CallerInv, NamesInv
  <1>6. \A r \in SessionIds : OwnerInv(r)'
    <2> SUFFICES ASSUME NEW r \in SessionIds PROVE OwnerInv(r)'
      OBVIOUS
    <2>1. OwnerKept(r)
      BY SMTT(20) DEF OwnerKept, Hands, NamesInv
    <2> QED BY <2>1, OwnerFrame
  <1>7. OneSupervisorPerPrefix'
    BY SMTT(20) DEF NamesInv, OneSupervisorPerPrefix
  <1>8. LeaseProtectsSession'
    BY SMTT(20) DEF CallerInv, LeaseProtectsSession
  <1> QED BY <1>1, <1>2, <1>3, <1>4, <1>5, <1>6, <1>7, <1>8

(* A client of a session joins its operation. *)
LEMMA AttachClientStep ==
    ASSUME SessionInv, NEW o \in Ops, AttachClient(o), TypeOK'
    PROVE  SessionInv'
  <1> USE TaskNames, OpsAssumption DEF AttachClient, BumpIdleGeneration, Ending, Hands,
        NoSession, SessionIds, SessionInv, Starting, Taking, TaskPrefix, TypeOK, Working,
        bornVars, registryVars, reqVars, supVars
  <1>1. NamesInv'
    BY SMTT(20) DEF NamesInv
  <1>2. RegisteredInv'
    BY SMTT(20) DEF NamesInv, RegisteredInv
  <1>3. CloseInv'
    BY SMTT(20) DEF CloseInv, NoInsert, RegisteredInv
  <1>4. \A u \in TaskIds : TaskInv(u)'
    BY SMTT(20) DEF CallerInv, CloseInv, NamesInv, NoInsert, OnlyOwn, TaskInv
  <1>5. \A q \in Ops : CallerInv(q)'
    BY SMTT(20) DEF CallerInv, NamesInv
  <1>6. \A r \in SessionIds : OwnerInv(r)'
    <2> SUFFICES ASSUME NEW r \in SessionIds PROVE OwnerInv(r)'
      OBVIOUS
    <2>1. OwnerKept(r)
      BY SMTT(20) DEF OwnerKept, Hands, NamesInv
    <2> QED BY <2>1, OwnerFrame
  <1>7. OneSupervisorPerPrefix'
    BY SMTT(20) DEF NamesInv, OneSupervisorPerPrefix
  <1>8. LeaseProtectsSession'
    BY SMTT(20) DEF CallerInv, LeaseProtectsSession
  <1> QED BY <1>1, <1>2, <1>3, <1>4, <1>5, <1>6, <1>7, <1>8

(* An operation gives its lease back. *)
LEMMA ReleaseOperationLeaseStep ==
    ASSUME SessionInv, NEW o \in Ops, ReleaseOperationLease(o), TypeOK'
    PROVE  SessionInv'
  <1> USE TaskNames, OpsAssumption DEF Ending, Hands, HoldsLease, NoSession,
        ReleaseOperationLease, ScheduleIdleShutdown, SessionIds, SessionInv, Starting,
        Taking, TaskPrefix, TypeOK, Working, bornVars, registryVars, reqVars, supVars
  <1>1. NamesInv'
    BY SMTT(20) DEF NamesInv
  <1>2. RegisteredInv'
    BY SMTT(20) DEF NamesInv, RegisteredInv
  <1>3. CloseInv'
    BY SMTT(20) DEF CloseInv, NoInsert, RegisteredInv
  <1>4. \A u \in TaskIds : TaskInv(u)'
    BY SMTT(20) DEF CallerInv, CloseInv, NamesInv, NoInsert, OnlyOwn, TaskInv
  <1>5. \A q \in Ops : CallerInv(q)'
    BY SMTT(20) DEF CallerInv, NamesInv
  <1>6. \A r \in SessionIds : OwnerInv(r)'
    <2> SUFFICES ASSUME NEW r \in SessionIds PROVE OwnerInv(r)'
      OBVIOUS
    <2>1. OwnerKept(r)
      BY SMTT(20) DEF OwnerKept, Hands, NamesInv
    <2> QED BY <2>1, OwnerFrame
  <1>7. OneSupervisorPerPrefix'
    BY SMTT(20) DEF NamesInv, OneSupervisorPerPrefix
  <1>8. LeaseProtectsSession'
    BY SMTT(20) DEF CallerInv, LeaseProtectsSession
  <1> QED BY <1>1, <1>2, <1>3, <1>4, <1>5, <1>6, <1>7, <1>8

(* A client gives its lease back. *)
LEMMA ReleaseClientLeaseStep ==
    ASSUME SessionInv, NEW o \in Ops, ReleaseClientLease(o), TypeOK'
    PROVE  SessionInv'
  <1> USE TaskNames, OpsAssumption DEF Ending, Hands, NoSession, ReleaseClientLease,
        ScheduleIdleShutdown, SessionIds, SessionInv, Starting, Taking, TaskPrefix, TypeOK,
        Working, bornVars, opVars, registryVars, reqVars, supVars
  <1>1. NamesInv'
    BY SMTT(20) DEF NamesInv
  <1>2. RegisteredInv'
    BY SMTT(20) DEF NamesInv, RegisteredInv
  <1>3. CloseInv'
    BY SMTT(20) DEF CloseInv, NoInsert, RegisteredInv
  <1>4. \A u \in TaskIds : TaskInv(u)'
    BY SMTT(20) DEF CallerInv, CloseInv, NamesInv, NoInsert, OnlyOwn, TaskInv
  <1>5. \A q \in Ops : CallerInv(q)'
    BY SMTT(20) DEF CallerInv, NamesInv
  <1>6. \A r \in SessionIds : OwnerInv(r)'
    <2> SUFFICES ASSUME NEW r \in SessionIds PROVE OwnerInv(r)'
      OBVIOUS
    <2>1. OwnerKept(r)
      BY SMTT(20) DEF OwnerKept, Hands, NamesInv
    <2> QED BY <2>1, OwnerFrame
  <1>7. OneSupervisorPerPrefix'
    BY SMTT(20) DEF NamesInv, OneSupervisorPerPrefix
  <1>8. LeaseProtectsSession'
    BY SMTT(20) DEF CallerInv, LeaseProtectsSession
  <1> QED BY <1>1, <1>2, <1>3, <1>4, <1>5, <1>6, <1>7, <1>8

(* The launcher closes. *)
LEMMA CloseStep ==
    ASSUME SessionInv, Close, TypeOK'
    PROVE  SessionInv'
  <1> USE TaskNames, OpsAssumption DEF Close, Ending, Hands, NoSession, SessionIds,
        SessionInv, Starting, Taking, TaskPrefix, TypeOK, Working, bornVars, idleVars,
        leaseVars, opVars, reqVars, supVars
  <1>1. NamesInv'
    BY SMTT(20) DEF NamesInv
  <1>2. RegisteredInv'
    BY SMTT(20) DEF NamesInv, RegisteredInv
  <1>3. CloseInv'
    BY SMTT(20) DEF CloseInv, NoInsert, RegisteredInv
  <1>4. \A u \in TaskIds : TaskInv(u)'
    BY SMTT(20) DEF CallerInv, CloseInv, NamesInv, NoInsert, OnlyOwn, TaskInv
  <1>5. \A q \in Ops : CallerInv(q)'
    BY SMTT(20) DEF CallerInv, NamesInv
  <1>6. \A r \in SessionIds : OwnerInv(r)'
    <2> SUFFICES ASSUME NEW r \in SessionIds PROVE OwnerInv(r)'
      OBVIOUS
    <2>1. OwnerKept(r)
      BY SMTT(20) DEF OwnerKept, Hands, NamesInv
    <2> QED BY <2>1, OwnerFrame
  <1>7. OneSupervisorPerPrefix'
    BY SMTT(20) DEF NamesInv, OneSupervisorPerPrefix
  <1>8. LeaseProtectsSession'
    BY SMTT(20) DEF CallerInv, LeaseProtectsSession
  <1> QED BY <1>1, <1>2, <1>3, <1>4, <1>5, <1>6, <1>7, <1>8

(* Every known prefix gets its shutdown. *)
LEMMA CensusStep ==
    ASSUME SessionInv, Census, TypeOK'
    PROVE  SessionInv'
  <1> USE TaskNames, OpsAssumption DEF Census, Ending, Hands, NewTask, NoSession,
        SessionIds, SessionInv, Starting, Taking, TaskPrefix, TypeOK, Working, bornVars,
        idleVars, leaseVars, opVars, reqVars, supVars
  <1>1. NamesInv'
    BY SMTT(20) DEF NamesInv
  <1>2. RegisteredInv'
    BY SMTT(20) DEF NamesInv, RegisteredInv
  <1>3. CloseInv'
    BY SMTT(20) DEF CallerInv, CloseInv, NoInsert, RegisteredInv
  <1>4. \A u \in TaskIds : TaskInv(u)'
    BY SMTT(20) DEF CallerInv, CloseInv, NamesInv, NoInsert, OnlyOwn, TaskInv
  <1>5. \A q \in Ops : CallerInv(q)'
    BY SMTT(60) DEF CallerInv, NamesInv
  <1>6. \A r \in SessionIds : OwnerInv(r)'
    <2> SUFFICES ASSUME NEW r \in SessionIds PROVE OwnerInv(r)'
      OBVIOUS
    <2>1. \A t \in TaskIds : task[t].pc \in Taking => task'[t] = task[t]
      BY DEF TaskInv
    <2>2. OwnerKept(r)
      BY <2>1 DEF OwnerKept
    <2> QED BY <2>2, OwnerFrame
  <1>7. OneSupervisorPerPrefix'
    BY SMTT(20) DEF NamesInv, OneSupervisorPerPrefix
  <1>8. LeaseProtectsSession'
    BY SMTT(20) DEF CallerInv, LeaseProtectsSession
  <1> QED BY <1>1, <1>2, <1>3, <1>4, <1>5, <1>6, <1>7, <1>8

(* With nothing registered and no lock held no supervisor of the prefix is left, until
   the launcher closes. *)
LEMMA NoneLeft ==
    ASSUME SessionInv, NEW p \in Prefixes, lock[p] = NoOne, sessions[p] = NoSession, ~closing,
           NEW s \in SessionIds, s <= born, prefixOf[s] = p
    PROVE  sup[s] # "up"
  <1> SUFFICES ASSUME sup[s] = "up" PROVE FALSE
    OBVIOUS
  <1> USE TaskNames DEF SessionInv
  <1>1. ~ \E o \in Ops : mine[o] = s /\ pc[o] \in Hands
    BY DEF CallerInv, NamesInv, Starting, Hands, NoSession, SessionIds
  <1>2. ~Taken(s)
    <2> SUFFICES ASSUME NEW t \in TaskIds, task[t].sess = s, task[t].pc \in Taking PROVE FALSE
      BY DEF Taken
    <2>1. TaskPrefix(t) = p
      BY DEF TaskInv, Taking, Ending
    <2> QED BY <2>1 DEF TaskInv, Taking, Working, CloseInv
  <1> QED BY <1>1, <1>2 DEF OwnerInv, Hands, SessionIds, NoSession

(* A startup takes the lock of a prefix with nothing left of it. *)
LEMMA BeginStartsStep ==
    ASSUME SessionInv, NEW o \in Ops, BeginStarts(o), TypeOK'
    PROVE  SessionInv'
  <1>0. sessions[OpPrefix[o]] = NoSession /\ sessions' = sessions
    BY OpsAssumption DEF BeginStarts, Registered, Existing, SessionInv, RegisteredInv
  <1>a. /\ pc[o] = "begin" /\ lock[OpPrefix[o]] = NoOne /\ ~closing
        /\ OpPrefix[o] \in Prefixes /\ sessions[OpPrefix[o]] = NoSession
        /\ lock'[OpPrefix[o]] = Starter(o) /\ pc'[o] = "bootstrap"
        /\ \A q \in Ops \ {o} : pc'[q] = pc[q]
        /\ \A p \in Prefixes \ {OpPrefix[o]} : lock'[p] = lock[p]
        /\ UNCHANGED <<sessions, known, closing, census, born, prefixOf, state, opLeases,
                       clientLeases, child, sup, mine, task>>
    BY <1>0, OpsAssumption DEF BeginStarts, HasTurn, SessionInv, TypeOK, bornVars, leaseVars,
       supVars
  <1>b. \A s \in SessionIds : s <= born /\ prefixOf[s] = OpPrefix[o] => sup[s] # "up"
    BY <1>a, NoneLeft
  <1> USE TaskNames, OpsAssumption DEF SessionInv, SessionIds, NoSession, TaskPrefix, Starting,
          Hands, Working, Taking, Ending
  <1>1. NamesInv'
    BY <1>a, <1>b, SMTT(20) DEF NamesInv
  <1>2. RegisteredInv'
    BY <1>a, <1>b, SMTT(20) DEF NamesInv, RegisteredInv
  <1>3. CloseInv'
    BY <1>a, <1>b, SMTT(20) DEF CloseInv, NoInsert, RegisteredInv
  <1>4. \A u \in TaskIds : TaskInv(u)'
    BY <1>a, <1>b, SMTT(20) DEF CallerInv, CloseInv, NamesInv, NoInsert, OnlyOwn, TaskInv
  <1>5. \A q \in Ops : CallerInv(q)'
    BY <1>a, <1>b, SMTT(20) DEF CallerInv, NamesInv
  <1>6. \A r \in SessionIds : OwnerInv(r)'
    <2> SUFFICES ASSUME NEW r \in SessionIds PROVE OwnerInv(r)'
      OBVIOUS
    <2>1. OwnerKept(r)
      BY <1>a, <1>b, SMTT(20) DEF OwnerKept, Hands, NamesInv
    <2> QED BY <2>1, OwnerFrame
  <1>7. OneSupervisorPerPrefix'
    BY <1>a, <1>b, SMTT(20) DEF NamesInv, OneSupervisorPerPrefix
  <1>8. LeaseProtectsSession'
    BY <1>a, <1>b, SMTT(20) DEF CallerInv, LeaseProtectsSession
  <1> QED BY <1>1, <1>2, <1>3, <1>4, <1>5, <1>6, <1>7, <1>8

(* The one startup of a prefix spawns its supervisor. *)
LEMMA SpawnStep ==
    ASSUME SessionInv, NEW o \in Ops, Spawn(o), TypeOK'
    PROVE  SessionInv'
  <1>0. PICK new \in SessionIds : new = born + 1
    BY BoundAssumption DEF Spawn, SessionInv, TypeOK, SessionIds
  <1>a. /\ pc[o] = "bootstrap" /\ new \in SessionIds /\ born' = new
        /\ prefixOf'[new] = OpPrefix[o] /\ sup'[new] = "up"
        /\ mine'[o] = new /\ pc'[o] = "handshake"
        /\ \A q \in Ops \ {o} : mine'[q] = mine[q] /\ pc'[q] = pc[q]
        /\ \A s \in SessionIds \ {new} : sup'[s] = sup[s] /\ prefixOf'[s] = prefixOf[s]
        /\ UNCHANGED <<lock, known, sessions, closing, census, state, opLeases, clientLeases,
                       child, task>>
    BY <1>0 DEF Spawn, SessionInv, TypeOK, registryVars, leaseVars
  <1>b. /\ ~child[new] /\ state[new] = "Ready" /\ OpPrefix[o] \in Prefixes /\ new # NoSession
        /\ \A t \in TaskIds : task[t].sess # new
        /\ \A p \in Prefixes : sessions[p] # new
        /\ \A q \in Ops : mine[q] # new
    BY <1>0, OpsAssumption DEF SessionInv, TypeOK, NamesInv, SessionIds, NoSession
  <1>c. /\ \A s \in SessionIds \ {new} : s <= born' <=> s <= born
        /\ \A p \in Prefixes : sessions[p] <= born' /\ (sessions[p] # NoSession
                    => sessions[p] \in SessionIds)
        /\ \A q \in Ops : mine[q] <= born' /\ (mine[q] # NoSession => mine[q] \in SessionIds)
        /\ \A t \in TaskIds : task[t].sess <= born' /\ (task[t].sess # NoSession
                    => task[t].sess \in SessionIds)
        /\ ~(new <= born) /\ new <= born'
    BY <1>0, <1>a DEF SessionInv, TypeOK, NamesInv, SessionIds, NoSession, Task
  <1> USE TaskNames, OpsAssumption DEF SessionInv, SessionIds, NoSession, TaskPrefix, Starting,
          Hands, Working, Taking, Ending
  <1>1. NamesInv'
    BY <1>a, <1>b, <1>c DEF NamesInv
  <1>2. RegisteredInv'
    BY <1>a, <1>b, <1>c, SMTT(20) DEF NamesInv, RegisteredInv
  <1>3. CloseInv'
    BY <1>a, <1>b, <1>c, SMTT(20) DEF CloseInv, NoInsert, RegisteredInv
  <1>4. \A u \in TaskIds : TaskInv(u)'
    BY <1>a, <1>b, <1>c, SMTT(20) DEF CallerInv, CloseInv, NamesInv, NoInsert, OnlyOwn, TaskInv
  <1>5. \A q \in Ops : CallerInv(q)'
    <2>1. \A q \in Ops : pc[q] = "bootstrap" /\ OpPrefix[q] = OpPrefix[o] => q = o
      BY <1>a DEF CallerInv
    <2> QED BY <1>a, <1>b, <1>c, <2>1 DEF CallerInv, NamesInv
  <1>6. \A r \in SessionIds : OwnerInv(r)'
    <2>1. OwnerInv(new)'
      BY <1>a, <1>b DEF OwnerInv
    <2>2. ASSUME NEW r \in SessionIds, r # new PROVE OwnerInv(r)'
      <3>1. OwnerKept(r)
        BY <1>a, <1>b, <1>c, <2>2 DEF OwnerKept
      <3> QED BY <3>1, OwnerFrame
    <2> QED BY <2>1, <2>2
  <1>7. OneSupervisorPerPrefix'
    <2>1. \A s \in SessionIds : sup[s] = "up" => s <= born
      BY DEF NamesInv
    <2>2. \A s \in SessionIds : s # new /\ sup[s] = "up" => prefixOf[s] # OpPrefix[o]
      BY <1>a, <2>1 DEF CallerInv
    <2> QED BY <1>a, <2>2 DEF OneSupervisorPerPrefix
  <1>8. LeaseProtectsSession'
    BY <1>a, <1>b, <1>c, SMTT(20) DEF CallerInv, LeaseProtectsSession
  <1> QED BY <1>1, <1>2, <1>3, <1>4, <1>5, <1>6, <1>7, <1>8

(* A session object with the lease of its caller, to insert or to unwind. *)
LEMMA HandshakeSucceedsStep ==
    ASSUME SessionInv, NEW o \in Ops, HandshakeSucceeds(o), TypeOK'
    PROVE  SessionInv'
  <1>0. PICK s \in SessionIds : s = mine[o]
    BY DEF HandshakeSucceeds, SessionInv, TypeOK, CallerInv, Hands
  <1>t. \A u \in TaskIds : task[u].pc \notin Ending \cup {"queued"} =>
                             TaskPrefix(u) \in Prefixes /\ task[u].sess \in SessionIds
    BY TaskPlace
  <1>a. /\ pc[o] = "handshake" /\ s = mine[o]
        /\ opLeases'[s] = opLeases[s] \cup {o} /\ child'[s]
        /\ pc'[o] = (IF closing THEN "unwind" ELSE "insert")
        /\ state'[s] = (IF closing THEN "Stopping" ELSE state[s])
        /\ \A q \in Ops \ {o} : pc'[q] = pc[q]
        /\ \A r \in SessionIds \ {s} :
              opLeases'[r] = opLeases[r] /\ child'[r] = child[r] /\ state'[r] = state[r]
        /\ UNCHANGED <<lock, known, sessions, closing, census, born, prefixOf, clientLeases,
                       sup, mine, task>>
    BY <1>0 DEF HandshakeSucceeds, SessionInv, TypeOK, registryVars, bornVars, supVars
  <1>b. /\ \A q \in Ops : pc[q] \in Hands /\ mine[q] = s => q = o
        /\ \A t \in TaskIds : task[t].sess # s
        /\ \A p \in Prefixes : sessions[p] # s
        /\ s <= born /\ state[s] = "Ready" /\ s # NoSession
    BY <1>a, TaskNames DEF SessionInv, CallerInv, NamesInv, Hands, Starting, NoSession, SessionIds
  <1>c. /\ \A q \in Ops : mine[q] # NoSession => mine[q] \in SessionIds
        /\ \A p \in Prefixes : sessions[p] # NoSession => sessions[p] \in SessionIds
        /\ \A t \in TaskIds : task[t].sess # NoSession => task[t].sess \in SessionIds
    BY DEF SessionInv, TypeOK, Task
  <1> USE TaskNames, OpsAssumption DEF SessionInv, SessionIds, NoSession, TaskPrefix, Starting,
          Hands, Working, Taking, Ending
  <1>1. NamesInv'
    BY <1>a, <1>b, SMTT(20) DEF NamesInv
  <1>2. RegisteredInv'
    BY <1>a, <1>b, <1>c DEF RegisteredInv
  <1>3. CloseInv'
    BY <1>a, <1>b, SMTT(20) DEF CloseInv, NoInsert, RegisteredInv
  <1>4. \A u \in TaskIds : TaskInv(u)'
    <2> SUFFICES ASSUME NEW u \in TaskIds PROVE TaskInv(u)'
      OBVIOUS
    <2>1. TaskPrefix(u)' = TaskPrefix(u)
      BY <1>a
    <2> HIDE DEF TaskPrefix
    <2>2. u[1] = "close" /\ task[u].pc # "none" => closing
      BY DEF TaskInv, CloseInv
    <2>3. closing => \A q \in Prefixes : NoInsert(q) => NoInsert(q)'
      BY <1>a DEF NoInsert
    <2>4. task[u].pc = "forcing" => NoInsert(TaskPrefix(u))'
      BY <1>t, <2>1, <2>2, <2>3 DEF TaskInv
    <2>5. task[u].sess \in SessionIds => /\ state'[task[u].sess] = state[task[u].sess]
                                     /\ child'[task[u].sess] = child[task[u].sess]
      BY <1>a, <1>b
    <2>6. task[u].pc \in Working \cup Taking => task[u].sess \in SessionIds
      BY <1>t
    <2>7. task[u].pc = "queued" => closing \/ task[u].sess \in SessionIds
      BY <1>c, <2>2 DEF TaskInv
    <2> QED BY <1>a, <2>1, <2>4, <2>5, <2>6, <2>7 DEF TaskInv, OnlyOwn
  <1>5. \A q \in Ops : CallerInv(q)'
    <2>1. ASSUME NEW q \in Ops, q # o PROVE CallerInv(q)'
      BY <1>a, <1>b, <1>c, <2>1 DEF CallerInv
    <2>2. CallerInv(o)'
      BY <1>a, <1>b DEF CallerInv
    <2> QED BY <2>1, <2>2
  <1>6. \A r \in SessionIds : OwnerInv(r)'
    <2>1. OwnerInv(s)'
      BY <1>a DEF OwnerInv
    <2>2. ASSUME NEW r \in SessionIds, r # s PROVE OwnerInv(r)'
      <3>1. OwnerKept(r)
        BY <1>a, <2>2 DEF OwnerKept
      <3> QED BY <3>1, OwnerFrame
    <2> QED BY <2>1, <2>2
  <1>7. OneSupervisorPerPrefix'
    BY <1>a, <1>b, SMTT(20) DEF NamesInv, OneSupervisorPerPrefix
  <1>8. LeaseProtectsSession'
    BY <1>a, <1>b, SMTT(20) DEF CallerInv, LeaseProtectsSession
  <1> QED BY <1>1, <1>2, <1>3, <1>4, <1>5, <1>6, <1>7, <1>8

(* The new session is registered and the lock given back. *)
LEMMA InsertSessionStep ==
    ASSUME SessionInv, NEW o \in Ops, InsertSession(o), TypeOK'
    PROVE  SessionInv'
  <1>0. PICK s \in SessionIds : s = mine[o]
    BY DEF InsertSession, SessionInv, TypeOK, CallerInv, Hands
  <1> DEFINE p == OpPrefix[o]
  <1>t. \A u \in TaskIds : task[u].pc \notin Ending \cup {"queued"} => TaskPrefix(u) \in Prefixes
    BY TaskPlace
  <1>a. /\ pc[o] = "insert" /\ s = mine[o] /\ p \in Prefixes
        /\ sessions'[p] = s /\ lock'[p] = NoOne /\ pc'[o] = "leased"
        /\ \A q \in Ops \ {o} : pc'[q] = pc[q]
        /\ \A q \in Prefixes \ {p} : sessions'[q] = sessions[q] /\ lock'[q] = lock[q]
        /\ UNCHANGED <<known, closing, census, born, prefixOf, state, opLeases, clientLeases,
                       child, sup, mine, task>>
    BY <1>0, OpsAssumption DEF InsertSession, Release, SessionInv, TypeOK, bornVars, leaseVars,
       supVars
  <1>b. /\ lock[p] = Starter(o) /\ sessions[p] = NoSession /\ prefixOf[s] = p /\ p \in known
        /\ \A q \in Ops : pc[q] \in Starting /\ OpPrefix[q] = p => q = o
        /\ \A t \in TaskIds : task[t].sess # s
        /\ s <= born /\ state[s] = "Ready" /\ s # NoSession
    BY <1>a, TaskNames DEF SessionInv, CallerInv, NamesInv, Hands, Starting
  <1> HIDE DEF p
  <1> USE TaskNames, OpsAssumption DEF SessionInv, SessionIds, NoSession, TaskPrefix, Starting,
          Hands, Working, Taking, Ending
  <1>1. NamesInv'
    BY <1>a, <1>b DEF NamesInv
  <1>2. RegisteredInv'
    BY <1>a, <1>b, SMTT(20) DEF NamesInv, RegisteredInv
  <1>3. CloseInv'
    BY <1>a, <1>b, SMTT(20) DEF CallerInv, CloseInv, NoInsert, RegisteredInv, p
  <1>4. \A u \in TaskIds : TaskInv(u)'
    <2>1. \A u \in TaskIds : task[u].pc \in Working \cup {"forcing"} => TaskPrefix(u) # p
      BY <1>a, <1>b DEF TaskInv, NoInsert, p
    <2>2. \A u \in TaskIds : task[u].pc \in Working \cup {"forcing"} =>
             /\ TaskPrefix(u)' = TaskPrefix(u)
             /\ lock'[TaskPrefix(u)] = lock[TaskPrefix(u)]
             /\ sessions'[TaskPrefix(u)] = sessions[TaskPrefix(u)]
      BY <1>a, <1>t, <2>1
    <2> HIDE DEF TaskPrefix
    <2>3. \A u \in TaskIds : TaskPrefix(u)' = TaskPrefix(u)
      BY <1>a DEF TaskPrefix
    <2>4. \A q \in Prefixes : NoInsert(q) => NoInsert(q)'
      BY <1>a DEF NoInsert
    <2> QED BY <1>a, <1>t, <2>2, <2>3, <2>4 DEF TaskInv, OnlyOwn
  <1>5. \A q \in Ops : CallerInv(q)'
    <2>1. ASSUME NEW q \in Ops, q # o PROVE CallerInv(q)'
      BY <1>a, <1>b, <2>1 DEF CallerInv
    <2>2. CallerInv(o)'
      BY <1>a, <1>b DEF CallerInv, p
    <2> QED BY <2>1, <2>2
  <1>6. \A r \in SessionIds : OwnerInv(r)'
    <2>1. OwnerInv(s)'
      <3> SUFFICES ASSUME sup[s] = "up" PROVE child[s]
        BY <1>a, <1>b DEF OwnerInv
      <3>1. ~Taken(s)
        BY <1>b DEF Taken
      <3>2. \A q \in Ops : mine[q] = s => pc[q] # "handshake"
        BY <1>a, <1>b DEF NamesInv, p
      <3> QED BY <3>1, <3>2, <1>b DEF OwnerInv
    <2>2. ASSUME NEW r \in SessionIds, r # s PROVE OwnerInv(r)'
      <3>1. sup[r] = "up" => prefixOf[r] \in Prefixes
        BY DEF NamesInv
      <3>2. sup[r] = "up" /\ sessions[prefixOf[r]] = r => sessions'[prefixOf[r]] = r
        BY <1>a, <1>b, <3>1
      <3>3. OwnerKept(r)
        BY <1>a, <2>2, <3>2 DEF OwnerKept
      <3> QED BY <3>3, OwnerFrame
    <2> QED BY <2>1, <2>2
  <1>7. OneSupervisorPerPrefix'
    BY <1>a, <1>b, SMTT(20) DEF NamesInv, OneSupervisorPerPrefix
  <1>8. LeaseProtectsSession'
    BY <1>a, <1>b, SMTT(20) DEF CallerInv, LeaseProtectsSession
  <1> QED BY <1>1, <1>2, <1>3, <1>4, <1>5, <1>6, <1>7, <1>8

(* A caller that is dropped gives its lock back and kills what it spawned. *)
LEMMA CancelStep ==
    ASSUME SessionInv, NEW o \in Ops, Cancel(o), TypeOK'
    PROVE  SessionInv'
  <1>t. \A u \in TaskIds : task[u].pc \notin Ending \cup {"queued"} =>
                             TaskPrefix(u) \in Prefixes /\ task[u].sess \in SessionIds
    BY TaskPlace
  <1>a. /\ pc[o] \notin {"idle", "insert", "leased", "attached", "done", "failed"}
        /\ pc'[o] = "failed" /\ \A q \in Ops \ {o} : pc'[q] = pc[q]
        /\ UNCHANGED <<known, sessions, closing, census, born, prefixOf, state, opLeases,
                       clientLeases>>
    BY DEF Cancel, SessionInv, TypeOK, bornVars, leaseVars
  <1>b. /\ \A q \in Ops \ {o} : mine'[q] = mine[q]
        /\ mine'[o] \in {mine[o], NoSession}
        /\ pc[o] \in Hands => mine[o] \in SessionIds /\ mine[o] <= born
        /\ \A s \in SessionIds :
              IF pc[o] \in Hands /\ s = mine[o]
              THEN sup'[s] = "gone" /\ ~child'[s]
              ELSE sup'[s] = sup[s] /\ child'[s] = child[s]
    BY <1>a DEF Cancel, SessionInv, TypeOK, CallerInv, NamesInv, Hands
  <1>c. /\ OpPrefix[o] \in Prefixes
        /\ IF pc[o] \in Starting
           THEN /\ lock[OpPrefix[o]] = Starter(o) /\ lock'[OpPrefix[o]] = NoOne
                /\ \A p \in Prefixes \ {OpPrefix[o]} : lock'[p] = lock[p]
           ELSE lock' = lock
    BY <1>a, OpsAssumption DEF Cancel, Release, SessionInv, TypeOK, CallerInv, Starting
  <1>d. \A t \in TaskIds : \/ task'[t] = task[t]
                           \/ /\ t = OpTask(o) /\ task[t].pc \in Ending
                              /\ task'[t].pc = "none" /\ task'[t].sess = NoSession
    BY TaskNames DEF Cancel, SessionInv, TypeOK, NoTask, Ending
  <1> USE TaskNames, OpsAssumption DEF SessionInv, SessionIds, NoSession, TaskPrefix, Starting,
          Hands, Working, Taking, Ending
  <1>1. NamesInv'
    <2>1. \A q \in Ops : mine'[q] <= born /\ (mine'[q] # NoSession => mine'[q] = mine[q])
      BY <1>b DEF NamesInv, TypeOK
    <2>2. \A t \in TaskIds : task'[t].sess <= born
      BY <1>d DEF NamesInv, TypeOK
    <2>3. \A s \in SessionIds : s <= born \/ (sup'[s] = sup[s] /\ child'[s] = child[s])
      BY <1>b
    <2> QED BY <1>a, <2>1, <2>2, <2>3 DEF NamesInv
  <1>2. RegisteredInv'
    BY <1>a, <1>b, <1>c, <1>d, SMTT(20) DEF NamesInv, RegisteredInv
  <1>3. CloseInv'
    <2>1. \A p \in Prefixes : task'[CloseTask(p)] = task[CloseTask(p)]
      BY <1>d
    <2> QED BY <1>a, <2>1 DEF CloseInv, NoInsert
  <1>4. \A u \in TaskIds : TaskInv(u)'
    <2> SUFFICES ASSUME NEW u \in TaskIds PROVE TaskInv(u)'
      OBVIOUS
    <2>1. CASE task'[u] = task[u]
      <3>1. task[u].pc \in Working => lock'[TaskPrefix(u)] = lock[TaskPrefix(u)]
        BY <1>c, <1>t DEF TaskInv
      <3>2. task[u].pc \in Taking => ~child'[task[u].sess]
        BY <1>b, <1>t DEF TaskInv
      <3> QED BY <1>a, <2>1, <3>1, <3>2 DEF TaskInv, OnlyOwn, NoInsert
    <2>2. CASE u = OpTask(o) /\ task'[u].pc = "none"
      BY <2>2 DEF TaskInv
    <2> QED BY <1>d, <2>1, <2>2
  <1>5. \A q \in Ops : CallerInv(q)'
    <2>1. ASSUME NEW q \in Ops, q # o PROVE CallerInv(q)'
      <3>1. pc[q] \in Starting /\ pc[o] \in Starting => OpPrefix[q] # OpPrefix[o]
        BY <1>c, <2>1 DEF CallerInv
      <3>2. task'[OpTask(q)] = task[OpTask(q)]
        BY <1>d, <2>1
      <3>3. pc[q] \in Starting => lock'[OpPrefix[q]] = lock[OpPrefix[q]]
        BY <1>c, <3>1
      <3>4. pc[q] \in Hands /\ pc[o] \in Hands => mine[q] # mine[o]
        BY <3>1 DEF NamesInv, CallerInv
      <3>5. pc[q] \in Hands => mine[q] \in SessionIds /\ child'[mine[q]] = child[mine[q]]
                               /\ \A t \in TaskIds : task'[t].sess # mine[q]
        BY <1>b, <1>d, <3>4, SMTT(30) DEF CallerInv, TypeOK
      <3>6. \A s \in SessionIds : sup'[s] = "up" => sup[s] = "up"
        BY <1>b
      <3> QED BY <1>a, <1>b, <2>1, <3>2, <3>3, <3>5, <3>6 DEF CallerInv
    <2>2. CallerInv(o)'
      BY <1>a DEF CallerInv
    <2> QED BY <2>1, <2>2
  <1>6. \A r \in SessionIds : OwnerInv(r)'
    <2> SUFFICES ASSUME NEW r \in SessionIds PROVE OwnerInv(r)'
      OBVIOUS
    <2>1. sup'[r] = "up" => sup[r] = "up" /\ (pc[o] \in Hands => mine[o] # r)
                /\ child'[r] = child[r]
      BY <1>b
    <2>2. sup'[r] = "up" => \A q \in Ops : mine[q] = r /\ pc[q] \in Hands => mine'[q] = r
                /\ pc'[q] = pc[q]
      BY <1>a, <1>b, <2>1
    <2>3. \A t \in TaskIds : task[t].pc \in Taking => task'[t] = task[t]
      BY <1>d
    <2>4. OwnerKept(r)
      BY <1>a, <2>1, <2>2, <2>3 DEF OwnerKept
    <2> QED BY <2>4, OwnerFrame
  <1>7. OneSupervisorPerPrefix'
    BY <1>a, <1>b, <1>c, <1>d, SMTT(20) DEF NamesInv, OneSupervisorPerPrefix
  <1>8. LeaseProtectsSession'
    BY <1>a, <1>b, <1>c, <1>d, SMTT(20) DEF CallerInv, LeaseProtectsSession
  <1> QED BY <1>1, <1>2, <1>3, <1>4, <1>5, <1>6, <1>7, <1>8

(* A shutdown of a registered session is queued, for a caller that then awaits it or for
   an idle timer. *)
LEMMA QueueStep ==
    ASSUME SessionInv, TypeOK', NEW t \in TaskIds, NEW s \in SessionIds,
           NEW cause \in {"Idle", "Quiescent", "Forced"},
           t[1] # "close", t[1] = "idle" => s = t[2],
           TaskPrefix(t) \in Prefixes, sessions[TaskPrefix(t)] = s,
           task[t].pc = "none", cause = "Forced" => state[s] # "Ready",
           task' = [task EXCEPT ![t] = NewTask(s, cause)],
           \A o \in Ops : IF t = OpTask(o) THEN pc[o] \in {"begin", "done"}
                                              /\ pc'[o] \in {"awaiting", "quiesce"}
                          ELSE pc'[o] = pc[o],
           UNCHANGED <<lock, known, sessions, closing, census, born, prefixOf, state,
                       opLeases, clientLeases, child, sup, mine>>
    PROVE  SessionInv'
  <1>a. /\ task'[t].pc = "queued" /\ task'[t].sess = s /\ task'[t].cause = cause
        /\ \A u \in TaskIds \ {t} : task'[u] = task[u]
    BY TaskValues DEF SessionInv, TypeOK
  <1>b. s <= born /\ s # NoSession /\ prefixOf[s] = TaskPrefix(t)
    BY DEF SessionInv, NamesInv, NoSession, SessionIds
  <1>c. \A u \in TaskIds : TaskPrefix(u)' = TaskPrefix(u)
    BY DEF TaskPrefix
  <1>d. \A p \in Prefixes : NoInsert(p) <=> NoInsert(p)'
    BY DEF NoInsert
  <1>e. \A u \in TaskIds : task[u].pc \notin Ending \cup {"queued"} => TaskPrefix(u) \in Prefixes
    BY TaskPlace
  <1> USE DEF SessionInv
  <1>1. NamesInv' /\ RegisteredInv'
    BY <1>a, <1>b DEF NamesInv, RegisteredInv
  <1>2. CloseInv'
    <2>1. \A p \in Prefixes : CloseTask(p) \in TaskIds \ {t}
      BY TaskNames
    <2> QED BY <1>a, <1>d, <2>1 DEF CloseInv
  <1>3. ASSUME NEW u \in TaskIds PROVE TaskInv(u)'
    <2>1. CASE u = t
      BY <1>a, <1>b, <1>c, <2>1 DEF TaskInv, Ending, Working, Taking
    <2>2. CASE u # t
      BY <1>a, <1>c, <1>d, <1>e, <2>2 DEF TaskInv, OnlyOwn, Ending
    <2> QED BY <2>1, <2>2
  <1>4. ASSUME NEW o \in Ops PROVE CallerInv(o)'
    <2>1. pc[o] \in Starting => mine[o] # s \/ pc[o] = "bootstrap"
      BY <1>b DEF CallerInv, NamesInv, Starting, Hands
    <2>2. CASE t = OpTask(o)
      BY <1>a, <2>2 DEF CallerInv, Starting, Hands
    <2>3. CASE t # OpTask(o)
      BY <1>a, <2>1, <2>3, TaskNames DEF CallerInv, Starting, Hands
    <2> QED BY <2>2, <2>3
  <1>5. ASSUME NEW r \in SessionIds PROVE OwnerInv(r)'
    <2>1. OwnerKept(r)
      BY <1>a DEF OwnerKept, Taking, Hands
    <2> QED BY <2>1, OwnerFrame
  <1>6. OneSupervisorPerPrefix' /\ LeaseProtectsSession'
    BY DEF OneSupervisorPerPrefix, LeaseProtectsSession
  <1> QED BY <1>1, <1>2, <1>3, <1>4, <1>5, <1>6

(* A caller waits for the shutdown of the session in its way. *)
LEMMA BeginWaitsStep ==
    ASSUME SessionInv, NEW o \in Ops, BeginWaits(o), TypeOK'
    PROVE  SessionInv'
  <1> DEFINE t == OpTask(o)
             cause == IF Replaceable(o) THEN "Idle" ELSE "Forced"
  <1>1. PICK s \in SessionIds : s = sessions[OpPrefix[o]]
    BY OpsAssumption DEF BeginWaits, Registered, Existing, SessionInv, TypeOK
  <1>2. t \in TaskIds /\ t[1] = "op" /\ TaskPrefix(t) = OpPrefix[o] /\ OpPrefix[o] \in Prefixes
    BY TaskNames, OpsAssumption DEF TaskPrefix
  <1>3. task[t].pc = "none"
    BY DEF BeginWaits, HasTurn, SessionInv, CallerInv
  <1>4. cause = "Forced" => state[s] # "Ready"
    BY <1>1 DEF BeginWaits, Existing
  <1>5. \A q \in Ops : IF t = OpTask(q) THEN pc[q] \in {"begin", "done"}
                                          /\ pc'[q] \in {"awaiting", "quiesce"}
                       ELSE pc'[q] = pc[q]
    <2>1. /\ pc[o] \in {"begin", "done"} /\ pc'[o] \in {"awaiting", "quiesce"}
          /\ \A q \in Ops : q # o => pc'[q] = pc[q]
      BY DEF BeginWaits, HasTurn, SessionInv, TypeOK
    <2> QED BY <2>1, TaskNames
  <1>6. /\ task' = [task EXCEPT ![t] = NewTask(s, cause)]
        /\ UNCHANGED <<lock, known, sessions, closing, census, born, prefixOf, state,
                       opLeases, clientLeases, child, sup, mine>>
    BY <1>1 DEF BeginWaits, Existing, registryVars, bornVars, leaseVars, supVars
  <1>7. cause \in {"Idle", "Quiescent", "Forced"}
    OBVIOUS
  <1> HIDE DEF t, cause
  <1> QED BY <1>1, <1>2, <1>3, <1>4, <1>5, <1>6, <1>7, QueueStep

(* A caller asks for its prefix to be stopped. *)
LEMMA ShutdownPrefixStep ==
    ASSUME SessionInv, NEW o \in Ops, ShutdownPrefix(o), TypeOK'
    PROVE  SessionInv'
  <1> DEFINE t == OpTask(o)
  <1>1. PICK s \in SessionIds : s = sessions[OpPrefix[o]]
    BY OpsAssumption DEF ShutdownPrefix, SessionInv, TypeOK
  <1>2. t \in TaskIds /\ t[1] = "op" /\ TaskPrefix(t) = OpPrefix[o] /\ OpPrefix[o] \in Prefixes
    BY TaskNames, OpsAssumption DEF TaskPrefix
  <1>3. task[t].pc = "none"
    BY DEF ShutdownPrefix, SessionInv, CallerInv
  <1>5. \A q \in Ops : IF t = OpTask(q) THEN pc[q] \in {"begin", "done"}
                                          /\ pc'[q] \in {"awaiting", "quiesce"}
                       ELSE pc'[q] = pc[q]
    <2>1. /\ pc[o] \in {"begin", "done"} /\ pc'[o] \in {"awaiting", "quiesce"}
          /\ \A q \in Ops : q # o => pc'[q] = pc[q]
      BY DEF ShutdownPrefix, SessionInv, TypeOK
    <2> QED BY <2>1, TaskNames
  <1>6. /\ task' = [task EXCEPT ![t] = NewTask(s, "Quiescent")]
        /\ UNCHANGED <<lock, known, sessions, closing, census, born, prefixOf, state,
                       opLeases, clientLeases, child, sup, mine>>
    BY <1>1 DEF ShutdownPrefix, registryVars, bornVars, leaseVars, supVars
  <1> HIDE DEF t
  <1> QED BY <1>1, <1>2, <1>3, <1>5, <1>6, QueueStep

(* An idle timer starts a shutdown, or finds nothing to do. *)
LEMMA TimerFiresStep ==
    ASSUME SessionInv, RequestInv, NEW s \in SessionIds, TimerFires(s), TypeOK'
    PROVE  SessionInv'
  <1> DEFINE t == IdleTask(s)
  <1>1. UNCHANGED <<lock, known, sessions, closing, census, born, prefixOf, state,
                    opLeases, clientLeases, child, sup, mine, pc>>
    BY DEF TimerFires, registryVars, bornVars, leaseVars, supVars, opVars
  <1>2. CASE UNCHANGED task
    BY <1>1, <1>2, QuietStep
  <1>3. CASE task' = [task EXCEPT ![t] = NewTask(s, "Idle")] /\ sessions[prefixOf[s]] = s
    <2>1. t \in TaskIds /\ t[1] = "idle" /\ t[2] = s /\ TaskPrefix(t) = prefixOf[s]
      BY TaskNames DEF TaskPrefix
    <2>2. task[t].pc = "none"
      BY DEF TimerFires
    <2>3. \A q \in Ops : t # OpTask(q)
      BY TaskNames, <2>1
    <2>4. prefixOf[s] \in Prefixes
      <3>1. s <= born
        BY DEF TimerFires, RequestInv
      <3> QED BY <3>1 DEF SessionInv, NamesInv
    <2> HIDE DEF t
    <2> QED BY <1>1, <1>3, <2>1, <2>2, <2>3, <2>4, QueueStep
  <1> QED BY <1>2, <1>3 DEF TimerFires

(* A shutdown with nothing to stop ends. *)
LEMMA TaskReturnsStep ==
    ASSUME SessionInv, NEW t \in TaskIds, TaskReturns(t), TypeOK'
    PROVE  SessionInv'
  <1>t. \A u \in TaskIds : task[u].pc \notin Ending \cup {"queued"} => TaskPrefix(u) \in Prefixes
    BY TaskPlace
  <1>a. /\ task[t].pc = "queued" /\ lock[TaskPrefix(t)] = NoOne /\ ~Due(t)
        /\ task'[t].pc \in Ending /\ task'[t].sess = NoSession /\ task'[t].cause = "Forced"
        /\ t[1] = "close" => task'[t].pc # "none"
        /\ \A u \in TaskIds \ {t} : task'[u] = task[u]
    BY TaskValues DEF TaskReturns, Queued, SessionInv, TypeOK, Ending
  <1>b. UNCHANGED <<lock, known, sessions, closing, census, born, prefixOf, state, opLeases,
                   clientLeases, child, sup, pc, mine>>
    BY DEF TaskReturns, registryVars, bornVars, leaseVars, supVars, opVars
  <1>c. t[1] = "close" => sessions[t[2]] = NoSession /\ NoInsert(t[2])
    <2> SUFFICES ASSUME t[1] = "close" PROVE sessions[t[2]] = NoSession /\ NoInsert(t[2])
      OBVIOUS
    <2>1. t[2] \in Prefixes /\ TaskPrefix(t) = t[2] /\ Target(t) = sessions[t[2]]
      BY TaskNames DEF TaskPrefix, Target
    <2>2. NoInsert(t[2])
      BY <1>a, <2>1, TaskNames DEF NoInsert, SessionInv, CallerInv, Starting
    <2>3. task[t].cause = "Forced"
      BY DEF SessionInv, TaskInv
    <2>4. Present(t) => state[Target(t)] \in {"Ready", "Stopping"}
      BY <2>1 DEF SessionInv, RegisteredInv, Present
    <2>5. ~Present(t)
      BY <1>a, <2>3, <2>4 DEF Due, Forbidden
    <2> QED BY <2>1, <2>2, <2>5 DEF Present
  <1> USE TaskNames, OpsAssumption DEF SessionInv, SessionIds, NoSession, TaskPrefix, Starting,
          Hands, Working, Taking, Ending
  <1>1. NamesInv'
    <2>1. NoSession <= born
      BY DEF TypeOK
    <2> QED BY <1>a, <1>b, <2>1 DEF NamesInv
  <1>2. RegisteredInv'
    BY <1>a, <1>b, <1>c, SMTT(20) DEF NamesInv, RegisteredInv
  <1>3. CloseInv'
    <2>1. \A p \in Prefixes : NoInsert(p) => NoInsert(p)'
      BY <1>b DEF NoInsert
    <2>2. ASSUME NEW p \in Prefixes, census, task'[CloseTask(p)].pc \in Ending
          PROVE  sessions[p] = NoSession /\ NoInsert(p)
      <3>1. CASE t = CloseTask(p)
        BY <1>c, <3>1
      <3>2. CASE t # CloseTask(p)
        BY <1>a, <2>2, <3>2 DEF CloseInv
      <3> QED BY <3>1, <3>2
    <2> QED BY <1>b, <2>1, <2>2 DEF CloseInv
  <1>4. \A u \in TaskIds : TaskInv(u)'
    <2> SUFFICES ASSUME NEW u \in TaskIds PROVE TaskInv(u)'
      OBVIOUS
    <2>1. CASE u = t
      <3>1. t[1] = "close" => census
        BY <1>a DEF TaskInv
      <3>2. t[1] = "idle" => task'[t].pc = "none"
        BY TaskNames DEF TaskReturns, Finished, NoTask, TypeOK
      <3> QED BY <1>a, <1>b, <2>1, <3>1, <3>2 DEF TaskInv
    <2>2. CASE u # t
      BY <1>a, <1>b, <2>2 DEF TaskInv, OnlyOwn, NoInsert
    <2> QED BY <2>1, <2>2
  <1>5. \A q \in Ops : CallerInv(q)'
    <2> SUFFICES ASSUME NEW q \in Ops PROVE CallerInv(q)'
      OBVIOUS
    <2>1. OpTask(q) = t => pc[q] \in {"awaiting", "quiesce", "failed"}
      BY <1>a DEF CallerInv
    <2>2. \A u \in TaskIds : task'[u].sess \in {task[u].sess, NoSession}
      BY <1>a
    <2> QED BY <1>a, <1>b, <2>1, <2>2 DEF CallerInv
  <1>6. \A r \in SessionIds : OwnerInv(r)'
    <2> SUFFICES ASSUME NEW r \in SessionIds PROVE OwnerInv(r)'
      OBVIOUS
    <2>1. OwnerKept(r)
      BY <1>a, <1>b DEF OwnerKept, NamesInv
    <2> QED BY <2>1, OwnerFrame
  <1>7. OneSupervisorPerPrefix'
    BY <1>a, <1>b, <1>c, SMTT(20) DEF NamesInv, OneSupervisorPerPrefix
  <1>8. LeaseProtectsSession'
    BY <1>a, <1>b, <1>c, SMTT(20) DEF CallerInv, LeaseProtectsSession
  <1> QED BY <1>1, <1>2, <1>3, <1>4, <1>5, <1>6, <1>7, <1>8

(* A shutdown that is due takes the lock and tells the supervisor to stop. *)
LEMMA TaskStopsStep ==
    ASSUME SessionInv, NEW t \in TaskIds, TaskStops(t), TypeOK'
    PROVE  SessionInv'
  <1>0. PICK s \in SessionIds, p \in Prefixes : s = Target(t) /\ p = TaskPrefix(t)
              /\ prefixOf[s] = p
    BY TaskTarget DEF TaskStops, Queued, Due, Ending
  <1>t. \A u \in TaskIds : task[u].pc \notin Ending \cup {"queued"} =>
          /\ TaskPrefix(u) \in Prefixes /\ task[u].sess \in SessionIds
          /\ prefixOf[task[u].sess] = TaskPrefix(u)
    BY TaskPlace
  <1>a. /\ task[t].pc = "queued" /\ lock[p] = NoOne /\ sessions[p] = s /\ s # NoSession
        /\ lock'[p] = t /\ state'[s] = "Stopping"
        /\ task'[t].pc = "stopping" /\ task'[t].sess = s /\ task'[t].cause = task[t].cause
        /\ \A u \in TaskIds \ {t} : task'[u] = task[u]
        /\ \A q \in Prefixes \ {p} : lock'[q] = lock[q]
        /\ \A r \in SessionIds \ {s} : state'[r] = state[r]
        /\ UNCHANGED <<known, sessions, closing, census, born, prefixOf, opLeases,
                       clientLeases, child, sup, pc, mine>>
    BY <1>0 DEF TaskStops, Queued, Due, Present, SessionInv, TypeOK, bornVars, leaseVars,
       supVars, opVars, Task
  <1>b. /\ \A o \in Ops : OpPrefix[o] = p => pc[o] \notin Starting
        /\ \A u \in TaskIds : TaskPrefix(u) = p => task[u].pc \notin Working
        /\ \A q \in Prefixes : sessions[q] = s => q = p
    BY <1>a, TaskNames DEF SessionInv, CallerInv, TaskInv, NamesInv
  <1>c. t[1] = "idle" => s = t[2]
    BY <1>0, <1>a DEF SessionInv, TaskInv, Target
  <1>d. state[s] = "Stopping" \/ closing \/ (opLeases[s] = {} /\ clientLeases[s] = {})
    <2> SUFFICES ASSUME state[s] # "Stopping", ~closing
                 PROVE  opLeases[s] = {} /\ clientLeases[s] = {}
      OBVIOUS
    <2>1. state[s] = "Ready" /\ ~Forbidden(t) /\ (task[t].cause = "Idle" => IsQuiet(s))
      BY <1>0 DEF TaskStops, Due
    <2>2. t[1] # "close"
      BY <1>a DEF SessionInv, TaskInv, CloseInv
    <2>3. task[t].cause # "Forced"
      BY <1>0, <1>a, <2>1, <2>2 DEF SessionInv, TaskInv, Target
    <2>4. task[t].cause \in {"Idle", "Quiescent", "Forced"}
      BY DEF SessionInv, TypeOK, Task
    <2>5. IsQuiet(s)
      BY <1>0, <2>1, <2>3, <2>4 DEF Forbidden, TaskStops, Due
    <2> QED BY <2>5 DEF IsQuiet
  <1> USE TaskNames, OpsAssumption DEF SessionInv, SessionIds, NoSession, TaskPrefix, Starting,
          Hands, Working, Taking, Ending
  <1>1. NamesInv'
    BY <1>a, <1>b DEF NamesInv
  <1>2. RegisteredInv'
    <2>1. \A q \in Prefixes : sessions[q] # NoSession => sessions[q] \in SessionIds
      BY DEF TypeOK
    <2>2. \A r \in SessionIds : state'[r] \in {state[r], "Stopping"}
      BY <1>a
    <2> QED BY <1>a, <2>1, <2>2 DEF RegisteredInv
  <1>3. CloseInv'
    <2>1. \A q \in Prefixes : task'[CloseTask(q)].pc \in Ending =>
                                  task'[CloseTask(q)] = task[CloseTask(q)]
      BY <1>a
    <2> QED BY <1>a, <2>1 DEF CloseInv, NoInsert
  <1>4. \A u \in TaskIds : TaskInv(u)'
    <2> SUFFICES ASSUME NEW u \in TaskIds PROVE TaskInv(u)'
      OBVIOUS
    <2>1. CASE u = t
      <3>1. TaskPrefix(t)' = p
        BY <1>0, <1>a
      <3>2. t[1] = "close" => task[t].cause = "Forced" /\ census
        BY <1>a DEF TaskInv
      <3> HIDE DEF TaskPrefix
      <3> QED BY <1>0, <1>a, <1>c, <2>1, <3>1, <3>2 DEF TaskInv, OnlyOwn
    <2>2. CASE u # t
      <3>1. TaskPrefix(u)' = TaskPrefix(u) /\ task'[u] = task[u]
        BY <1>a, <2>2
      <3>2. task[u].pc \in Working => lock'[TaskPrefix(u)] = lock[TaskPrefix(u)]
        BY <1>a, <1>b, <1>t
      <3>3. task[u].sess \in SessionIds => (state[task[u].sess] # "Ready"
                  => state'[task[u].sess] # "Ready")
        BY <1>a
      <3>4. task[u].sess \in SessionIds \cup {NoSession} /\ (u[1] = "close"
                  /\ task[u].pc # "none" => closing)
        BY DEF TypeOK, Task, TaskInv, CloseInv
      <3>5. NoInsert(TaskPrefix(u))' = NoInsert(TaskPrefix(u))
        BY <1>a, <3>1 DEF NoInsert
      <3> HIDE DEF TaskPrefix
      <3>6. task[u].pc \notin Ending /\ ~closing => task[u].sess \in SessionIds
        BY <3>4 DEF TaskInv
      <3> QED BY <1>a, <1>t, <2>2, <3>1, <3>2, <3>3, <3>4, <3>5, <3>6 DEF TaskInv, OnlyOwn
    <2> QED BY <2>1, <2>2
  <1>5. \A q \in Ops : CallerInv(q)'
    <2> SUFFICES ASSUME NEW q \in Ops PROVE CallerInv(q)'
      OBVIOUS
    <2>1. OpTask(q) = t => pc[q] \in {"awaiting", "quiesce", "failed"}
      BY <1>a DEF CallerInv
    <2>2. pc[q] \in Starting => OpPrefix[q] # p /\ lock'[OpPrefix[q]] = lock[OpPrefix[q]]
      BY <1>a, <1>b, OpsAssumption
    <2>3. pc[q] \in Hands => mine[q] \in SessionIds /\ mine[q] # s
      BY <1>0, <2>2, SMTT(30) DEF CallerInv, NamesInv, TypeOK
    <2>4. pc[q] \in Hands => state'[mine[q]] = state[mine[q]]
                /\ \A u \in TaskIds : task'[u].sess # mine[q]
      BY <1>a, <2>3 DEF CallerInv
    <2> QED BY <1>a, <2>1, <2>2, <2>3, <2>4 DEF CallerInv
  <1>6. \A r \in SessionIds : OwnerInv(r)'
    <2> SUFFICES ASSUME NEW r \in SessionIds PROVE OwnerInv(r)'
      OBVIOUS
    <2>1. OwnerKept(r)
      BY <1>a DEF OwnerKept, NamesInv
    <2> QED BY <2>1, OwnerFrame
  <1>7. OneSupervisorPerPrefix'
    BY <1>a, <1>b, <1>c, SMTT(20) DEF NamesInv, OneSupervisorPerPrefix
  <1>8. LeaseProtectsSession'
    BY <1>a, <1>d DEF LeaseProtectsSession
  <1> QED BY <1>1, <1>2, <1>3, <1>4, <1>5, <1>6, <1>7, <1>8

(* The supervisor said Stopped and is gone: the session is removed and the lock given back. *)
LEMMA TaskSeesStoppedStep ==
    ASSUME SessionInv, NEW t \in TaskIds, TaskSeesStopped(t), TypeOK'
    PROVE  SessionInv'
  <1>0. PICK s \in SessionIds, p \in Prefixes : s = task[t].sess /\ p = TaskPrefix(t)
              /\ prefixOf[s] = p
    BY TaskPlace DEF TaskSeesStopped, Ending
  <1>t. \A u \in TaskIds : task[u].pc \notin Ending \cup {"queued"} =>
          /\ TaskPrefix(u) \in Prefixes /\ task[u].sess \in SessionIds
          /\ prefixOf[task[u].sess] = TaskPrefix(u)
    BY TaskPlace
  <1>a. /\ task[t].pc = "stopping" /\ sup[s] = "gone"
        /\ child'[s] = FALSE /\ state'[s] = "Stopped"
        /\ \A r \in SessionIds \ {s} : child'[r] = child[r] /\ state'[r] = state[r]
        /\ UNCHANGED <<known, closing, census, born, prefixOf, opLeases, clientLeases, sup,
                       pc, mine>>
    BY <1>0 DEF TaskSeesStopped, SessionInv, TypeOK, bornVars, leaseVars, supVars, opVars
  <1>f. /\ task'[t].pc \in Ending /\ task'[t].sess = NoSession /\ task'[t].cause = "Forced"
        /\ t[1] = "close" => task'[t].pc # "none"
        /\ \A u \in TaskIds \ {t} : task'[u] = task[u]
    BY TaskValues DEF TaskSeesStopped, SessionInv, TypeOK, Ending
  <1>b. \A q \in Prefixes : /\ sessions'[q] = IF sessions[q] = s THEN NoSession ELSE sessions[q]
                            /\ lock'[q] = IF lock[q] = t THEN NoOne ELSE lock[q]
    BY <1>0 DEF TaskSeesStopped, RemoveIfSame, ReleaseBy
  <1>c. /\ sessions[p] \in {s, NoSession} /\ state[s] # "Ready" /\ lock[p] = t
        /\ \A o \in Ops : OpPrefix[o] = p => pc[o] \notin Starting
        /\ \A u \in TaskIds \ {t} : TaskPrefix(u) = p => task[u].pc \notin Working
    <2>1. task[t].pc \in Working
      BY <1>a DEF Working
    <2>2. sessions[p] \in {s, NoSession} /\ state[s] # "Ready" /\ lock[p] = t
      BY <1>0, <2>1 DEF SessionInv, TaskInv, OnlyOwn
    <2>3. \A o \in Ops : OpPrefix[o] = p => pc[o] \notin Starting
      BY <2>2, TaskNames DEF SessionInv, CallerInv
    <2>4. \A u \in TaskIds \ {t} : TaskPrefix(u) = p => task[u].pc \notin Working
      <3> HIDE DEF TaskPrefix
      <3> QED BY <2>2 DEF SessionInv, TaskInv
    <2> QED BY <2>2, <2>3, <2>4
  <1>d. /\ sessions'[p] = NoSession /\ NoInsert(p)
        /\ \A q \in Prefixes \ {p} : sessions[q] # s /\ sessions'[q] = sessions[q]
        /\ \A o \in Ops : pc[o] \in Starting => lock'[OpPrefix[o]] = Starter(o)
        /\ \A u \in TaskIds \ {t} : task[u].pc \in Working => lock'[TaskPrefix(u)] = u
    <2>1. \A u \in TaskIds \ {t} : task[u].pc \in Working => lock'[TaskPrefix(u)] = u
      <3>1. \A u \in TaskIds \ {t} : task[u].pc \in Working =>
                    TaskPrefix(u) \in Prefixes /\ lock[TaskPrefix(u)] = u
        BY <1>t DEF SessionInv, TaskInv, Working, Ending
      <3> HIDE DEF TaskPrefix
      <3> QED BY <1>b, <3>1
    <2>4. \A o \in Ops : pc[o] \in Starting => lock'[OpPrefix[o]] = Starter(o)
      <3>1. \A o \in Ops : pc[o] \in Starting =>
                    OpPrefix[o] \in Prefixes /\ lock[OpPrefix[o]] = Starter(o)
        BY OpsAssumption DEF SessionInv, CallerInv
      <3> QED BY <1>b, <3>1, TaskNames
    <2>2. \A q \in Prefixes \ {p} : sessions[q] # s
      BY <1>0 DEF SessionInv, NamesInv, NoSession, SessionIds
    <2>3. NoInsert(p)
      BY <1>c DEF NoInsert, Starting
    <2> QED BY <1>b, <1>c, <2>1, <2>2, <2>3, <2>4
  <1> USE TaskNames, OpsAssumption DEF SessionInv, SessionIds, NoSession, TaskPrefix, Starting,
          Hands, Working, Taking, Ending
  <1>1. NamesInv'
    <2>1. NoSession <= born
      BY DEF TypeOK
    <2> QED BY <1>a, <1>f, <1>b, <1>d, <2>1 DEF NamesInv
  <1>2. RegisteredInv'
    <2>1. \A q \in Prefixes : sessions'[q] # NoSession => sessions[q] = sessions'[q]
                /\ sessions[q] # s /\ sessions[q] \in SessionIds
      BY <1>b DEF TypeOK
    <2> QED BY <1>a, <1>f, <2>1 DEF RegisteredInv
  <1>3. CloseInv'
    <2>1. \A q \in Prefixes : NoInsert(q) => NoInsert(q)'
      BY <1>a, <1>f DEF NoInsert
    <2>2. ASSUME NEW q \in Prefixes, census, task'[CloseTask(q)].pc \in Ending
          PROVE  sessions'[q] = NoSession /\ NoInsert(q)
      <3>1. CASE t = CloseTask(q)
        BY <1>0, <1>d, <3>1, TaskNames
      <3>2. CASE t # CloseTask(q)
        BY <1>a, <1>f, <1>b, <2>2, <3>2 DEF CloseInv
      <3> QED BY <3>1, <3>2
    <2> QED BY <1>a, <1>f, <2>1, <2>2 DEF CloseInv
  <1>4. \A u \in TaskIds : TaskInv(u)'
    <2> SUFFICES ASSUME NEW u \in TaskIds PROVE TaskInv(u)'
      OBVIOUS
    <2>1. CASE u = t
      <3>1. t[1] = "close" => census
        BY <1>a, <1>f DEF TaskInv
      <3>2. t[1] = "idle" => task'[t].pc = "none"
        BY TaskNames DEF TaskSeesStopped, Finished, NoTask, TypeOK
      <3> QED BY <1>a, <1>f, <2>1, <3>1, <3>2 DEF TaskInv
    <2>2. CASE u # t
      <3>1. TaskPrefix(u)' = TaskPrefix(u) /\ task'[u] = task[u]
        BY <1>a, <1>f, <2>2
      <3>2. task[u].pc \in Working => lock'[TaskPrefix(u)] = u
        BY <1>d, <2>2
      <3>3. task[u].sess \in SessionIds =>
              /\ (state[task[u].sess] # "Ready" => state'[task[u].sess] # "Ready")
              /\ (~child[task[u].sess] => ~child'[task[u].sess])
        BY <1>a, <1>f
      <3>4. task[u].sess \in SessionIds \cup {NoSession} /\ (u[1] = "close"
                  /\ task[u].pc # "none" => closing)
        BY DEF TypeOK, Task, TaskInv, CloseInv
      <3>5. NoInsert(TaskPrefix(u))' = NoInsert(TaskPrefix(u))
        BY <1>a, <1>f, <3>1 DEF NoInsert
      <3>6. task[u].pc \in Working \cup {"forcing"} => sessions'[TaskPrefix(u)]
                  \in {sessions[TaskPrefix(u)], NoSession}
        BY <1>b, <1>t
      <3> HIDE DEF TaskPrefix
      <3>7. task[u].pc \notin Ending /\ ~closing => task[u].sess \in SessionIds
        BY <3>4 DEF TaskInv
      <3> QED BY <1>a, <1>f, <1>t, <2>2, <3>1, <3>2, <3>3, <3>4, <3>5, <3>6, <3>7
                  DEF TaskInv, OnlyOwn
    <2> QED BY <2>1, <2>2
  <1>5. \A q \in Ops : CallerInv(q)'
    <2> SUFFICES ASSUME NEW q \in Ops PROVE CallerInv(q)'
      OBVIOUS
    <2>1. OpTask(q) = t => pc[q] \in {"awaiting", "quiesce", "failed"}
      BY <1>a, <1>f DEF CallerInv
    <2>2. pc[q] \in Starting => /\ OpPrefix[q] # p /\ lock'[OpPrefix[q]] = Starter(q)
                              /\ sessions'[OpPrefix[q]] = sessions[OpPrefix[q]]
      BY <1>c, <1>d, OpsAssumption
    <2>3. pc[q] \in Hands => mine[q] \in SessionIds /\ mine[q] # s
      BY <1>0, <2>2 DEF CallerInv, NamesInv, TypeOK
    <2>4. pc[q] \in Hands => /\ state'[mine[q]] = state[mine[q]] /\ child'[mine[q]] = child[mine[q]]
                            /\ \A u \in TaskIds : task'[u].sess # mine[q]
      BY <1>a, <1>f, <2>3 DEF CallerInv
    <2> QED BY <1>a, <1>f, <2>1, <2>2, <2>4 DEF CallerInv
  <1>6. \A r \in SessionIds : OwnerInv(r)'
    <2> SUFFICES ASSUME NEW r \in SessionIds PROVE OwnerInv(r)'
      OBVIOUS
    <2>1. OwnerKept(r)
      BY <1>a, <1>b, <1>f DEF OwnerKept, NamesInv
    <2> QED BY <2>1, OwnerFrame
  <1>7. OneSupervisorPerPrefix'
    BY <1>a, <1>b, <1>f, SMTT(20) DEF NamesInv, OneSupervisorPerPrefix
  <1>8. LeaseProtectsSession'
    <2>1. state[s] # "Ready"
      BY <1>c
    <2> QED BY <1>a, <2>1 DEF LeaseProtectsSession
  <1> QED BY <1>1, <1>2, <1>3, <1>4, <1>5, <1>6, <1>7, <1>8

(* A shutdown that failed takes the Child, unless another has. *)
LEMMA TaskFailsStep ==
    ASSUME SessionInv, NEW t \in TaskIds, TaskFails(t), TypeOK'
    PROVE  SessionInv'
  <1>0. PICK s \in SessionIds, p \in Prefixes : s = task[t].sess /\ p = TaskPrefix(t)
              /\ prefixOf[s] = p
    BY TaskPlace DEF TaskFails, Ending
  <1>t. \A u \in TaskIds : task[u].pc \notin Ending \cup {"queued"} =>
          /\ TaskPrefix(u) \in Prefixes /\ task[u].sess \in SessionIds
          /\ prefixOf[task[u].sess] = TaskPrefix(u)
    BY TaskPlace
  <1>a. /\ task[t].pc = "stopping" /\ child'[s] = FALSE
        /\ \A r \in SessionIds \ {s} : child'[r] = child[r]
        /\ UNCHANGED <<lock, known, sessions, closing, census, born, prefixOf, state, opLeases,
                       clientLeases, sup, pc, mine>>
    BY <1>0 DEF TaskFails, SessionInv, TypeOK, registryVars, bornVars, leaseVars, supVars, opVars
  <1>f. /\ task'[t].pc = "killing" /\ task'[t].sess = s /\ task'[t].cause = task[t].cause
        /\ task'[t].handle = child[s]
        /\ \A u \in TaskIds \ {t} : task'[u] = task[u]
    BY <1>0 DEF TaskFails, SessionInv, TypeOK, Task
  <1>b. \A u \in TaskIds : TaskPrefix(u)' = TaskPrefix(u)
    BY <1>a DEF TaskPrefix
  <1> USE TaskNames, OpsAssumption DEF SessionInv, SessionIds, NoSession, TaskPrefix, Starting,
          Hands, Working, Taking, Ending
  <1>1. NamesInv'
    BY <1>0, <1>a, <1>f DEF NamesInv
  <1>2. RegisteredInv'
    BY <1>a, <1>b, <1>f, SMTT(20) DEF NamesInv, RegisteredInv
  <1>3. CloseInv'
    <2>1. \A q \in Prefixes : task'[CloseTask(q)].pc \in Ending =>
                                  task'[CloseTask(q)] = task[CloseTask(q)]
      BY <1>f
    <2> QED BY <1>a, <2>1 DEF CloseInv, NoInsert
  <1>4. \A u \in TaskIds : TaskInv(u)'
    <2> SUFFICES ASSUME NEW u \in TaskIds PROVE TaskInv(u)'
      OBVIOUS
    <2> HIDE DEF TaskPrefix
    <2>1. CASE u = t
      BY <1>0, <1>a, <1>b, <1>f, <2>1 DEF TaskInv, OnlyOwn
    <2>2. CASE u # t
      <3>1. task[u].pc \in Taking => ~child'[task[u].sess]
        BY <1>a, <1>t DEF TaskInv
      <3>2. NoInsert(TaskPrefix(u))' = NoInsert(TaskPrefix(u))
        BY <1>a, <1>b DEF NoInsert
      <3> QED BY <1>a, <1>b, <1>f, <2>2, <3>1, <3>2 DEF TaskInv, OnlyOwn
    <2> QED BY <2>1, <2>2
  <1>5. \A q \in Ops : CallerInv(q)'
    <2> SUFFICES ASSUME NEW q \in Ops PROVE CallerInv(q)'
      OBVIOUS
    <2>1. OpTask(q) = t => pc[q] \in {"awaiting", "quiesce", "failed"}
      BY <1>a DEF CallerInv
    <2>2. pc[q] \in Hands => /\ mine[q] \in SessionIds /\ mine[q] # s
                            /\ \A u \in TaskIds : task'[u].sess # mine[q]
      <3>1. pc[q] \in Hands => /\ mine[q] \in SessionIds
                              /\ \A u \in TaskIds : task[u].sess # mine[q]
        BY DEF CallerInv, TypeOK
      <3>2. \A u \in TaskIds : task'[u].sess = task[u].sess
        BY <1>0, <1>f
      <3> QED BY <1>0, <3>1, <3>2
    <2> QED BY <1>a, <1>f, <2>1, <2>2 DEF CallerInv
  <1>6. \A r \in SessionIds : OwnerInv(r)'
    <2>1. OwnerInv(s)'
      <3>1. ASSUME sup[s] = "up", child[s] PROVE Taken(s)'
        BY <1>f, <3>1 DEF Taken
      <3>2. ASSUME sup[s] = "up", ~child[s] PROVE Taken(s)'
        <4>1. Taken(s)
          BY <1>0, <3>2 DEF OwnerInv, CallerInv
        <4> QED BY <1>a, <1>f, <4>1 DEF Taken
      <3> QED BY <1>a, <3>1, <3>2 DEF OwnerInv
    <2>2. ASSUME NEW r \in SessionIds, r # s PROVE OwnerInv(r)'
      <3>1. OwnerKept(r)
        BY <1>0, <1>a, <1>f, <2>2 DEF OwnerKept
      <3> QED BY <3>1, OwnerFrame
    <2> QED BY <2>1, <2>2
  <1>7. OneSupervisorPerPrefix'
    BY <1>a, <1>b, <1>f, SMTT(20) DEF NamesInv, OneSupervisorPerPrefix
  <1>8. LeaseProtectsSession'
    BY <1>a, <1>b, <1>f, SMTT(20) DEF CallerInv, LeaseProtectsSession
  <1> QED BY <1>1, <1>2, <1>3, <1>4, <1>5, <1>6, <1>7, <1>8

(* The Child is killed by whoever has it, the session failed and removed. *)
LEMMA TaskKillsStep ==
    ASSUME SessionInv, NEW t \in TaskIds, TaskKills(t), TypeOK'
    PROVE  SessionInv'
  <1>0. PICK s \in SessionIds, p \in Prefixes : s = task[t].sess /\ p = TaskPrefix(t)
              /\ prefixOf[s] = p
    BY TaskPlace DEF TaskKills, Ending
  <1>t. \A u \in TaskIds : task[u].pc \notin Ending \cup {"queued"} =>
          /\ TaskPrefix(u) \in Prefixes /\ task[u].sess \in SessionIds
          /\ prefixOf[task[u].sess] = TaskPrefix(u)
    BY TaskPlace
  <1>a. /\ task[t].pc \in {"killing", "forcing"} /\ state'[s] = "Failed"
        /\ \A r \in SessionIds \ {s} : state'[r] = state[r]
        /\ UNCHANGED <<known, closing, census, born, prefixOf, opLeases, clientLeases, child,
                       pc, mine>>
    BY <1>0 DEF TaskKills, SessionInv, TypeOK, bornVars, leaseVars, opVars
  <1>f. /\ task'[t].pc \in Ending /\ task'[t].sess = NoSession /\ task'[t].cause = "Forced"
        /\ t[1] = "close" => task'[t].pc # "none"
        /\ \A u \in TaskIds \ {t} : task'[u] = task[u]
    BY TaskValues DEF TaskKills, SessionInv, TypeOK, Ending
  <1>g. \A r \in SessionIds :
           sup'[r] = IF task[t].handle /\ r = task[t].sess /\ sup[r] = "up"
                       THEN "gone" ELSE sup[r]
    BY DEF TaskKills, Ended
  <1>b. \A q \in Prefixes : /\ sessions'[q] = IF sessions[q] = s THEN NoSession ELSE sessions[q]
                            /\ lock'[q] = IF lock[q] = t THEN NoOne ELSE lock[q]
    BY <1>0 DEF TaskKills, RemoveIfSame, ReleaseBy
  <1>c. sessions[p] \in {s, NoSession} /\ NoInsert(p) /\ ~child[s]
    <2>1. task[t].pc \in Taking
      BY <1>a DEF Taking
    <2>2. sessions[p] \in {s, NoSession} /\ ~child[s]
      BY <1>0, <1>a, <2>1 DEF SessionInv, TaskInv, OnlyOwn, Working
    <2>3. task[t].pc = "killing" => lock[p] = t
      BY <1>0 DEF SessionInv, TaskInv, Working
    <2>4. NoInsert(p)
      <3>1. CASE task[t].pc = "killing"
        BY <2>3, <3>1, TaskNames DEF NoInsert, SessionInv, CallerInv, Starting
      <3>2. CASE task[t].pc = "forcing"
        BY <1>0, <3>2 DEF SessionInv, TaskInv
      <3> QED BY <1>a, <3>1, <3>2
    <2> QED BY <2>2, <2>4
  <1>e. closing \/ (opLeases[s] = {} /\ clientLeases[s] = {})
    <2>1. CASE task[t].pc = "killing"
      <3>1. state[s] # "Ready"
        BY <1>0, <2>1 DEF SessionInv, TaskInv, Working
      <3> QED BY <3>1 DEF SessionInv, LeaseProtectsSession
    <2>2. CASE task[t].pc = "forcing"
      BY <2>2 DEF SessionInv, TaskInv, CloseInv
    <2> QED BY <1>a, <2>1, <2>2
  <1>d. /\ sessions'[p] = NoSession
        /\ \A q \in Prefixes \ {p} : sessions[q] # s /\ sessions'[q] = sessions[q]
        /\ \A o \in Ops : pc[o] \in Starting => lock'[OpPrefix[o]] = Starter(o)
        /\ \A u \in TaskIds \ {t} : task[u].pc \in Working => lock'[TaskPrefix(u)] = u
    <2>1. \A u \in TaskIds \ {t} : task[u].pc \in Working => lock'[TaskPrefix(u)] = u
      <3>1. \A u \in TaskIds \ {t} : task[u].pc \in Working =>
                    TaskPrefix(u) \in Prefixes /\ lock[TaskPrefix(u)] = u
        BY <1>t DEF SessionInv, TaskInv, Working, Ending
      <3> HIDE DEF TaskPrefix
      <3> QED BY <1>b, <3>1
    <2>2. \A o \in Ops : pc[o] \in Starting => lock'[OpPrefix[o]] = Starter(o)
      <3>1. \A o \in Ops : pc[o] \in Starting =>
                    OpPrefix[o] \in Prefixes /\ lock[OpPrefix[o]] = Starter(o)
        BY OpsAssumption DEF SessionInv, CallerInv
      <3> QED BY <1>b, <3>1, TaskNames
    <2>3. \A q \in Prefixes \ {p} : sessions[q] # s
      BY <1>0 DEF SessionInv, NamesInv, NoSession, SessionIds
    <2> QED BY <1>b, <1>c, <2>1, <2>2, <2>3
  <1> USE TaskNames, OpsAssumption DEF SessionInv, SessionIds, NoSession, TaskPrefix, Starting,
          Hands, Working, Taking, Ending
  <1>1. NamesInv'
    <2>1. NoSession <= born
      BY DEF TypeOK
    <2>2. \A r \in SessionIds : r <= born \/ sup'[r] = sup[r]
      BY <1>g DEF NamesInv
    <2>3. \A r \in SessionIds : r <= born \/ state'[r] = state[r]
      BY <1>0, <1>a DEF NamesInv
    <2>4. \A q \in Prefixes : sessions'[q] \in {sessions[q], NoSession}
      BY <1>b
    <2>5. \A u \in TaskIds : task'[u].sess \in {task[u].sess, NoSession}
      BY <1>f
    <2> QED BY <1>a, <2>1, <2>2, <2>3, <2>4, <2>5 DEF NamesInv
  <1>2. RegisteredInv'
    <2>1. \A q \in Prefixes : sessions'[q] # NoSession => sessions[q] = sessions'[q]
                /\ sessions[q] # s /\ sessions[q] \in SessionIds
      BY <1>b DEF TypeOK
    <2> QED BY <1>a, <1>f, <2>1 DEF RegisteredInv
  <1>3. CloseInv'
    <2>1. \A q \in Prefixes : NoInsert(q) => NoInsert(q)'
      BY <1>a, <1>f DEF NoInsert
    <2>2. ASSUME NEW q \in Prefixes, census, task'[CloseTask(q)].pc \in Ending
          PROVE  sessions'[q] = NoSession /\ NoInsert(q)
      <3>1. CASE t = CloseTask(q)
        BY <1>0, <1>c, <1>d, <3>1, TaskNames
      <3>2. CASE t # CloseTask(q)
        BY <1>a, <1>f, <1>b, <2>2, <3>2 DEF CloseInv
      <3> QED BY <3>1, <3>2
    <2> QED BY <1>a, <1>f, <2>1, <2>2 DEF CloseInv
  <1>4. \A u \in TaskIds : TaskInv(u)'
    <2> SUFFICES ASSUME NEW u \in TaskIds PROVE TaskInv(u)'
      OBVIOUS
    <2>1. CASE u = t
      <3>1. t[1] = "close" => census
        BY <1>a, <1>f DEF TaskInv
      <3>2. t[1] = "idle" => task'[t].pc = "none"
        BY TaskNames DEF TaskKills, Finished, NoTask, TypeOK
      <3> QED BY <1>a, <1>f, <2>1, <3>1, <3>2 DEF TaskInv
    <2>2. CASE u # t
      <3>1. TaskPrefix(u)' = TaskPrefix(u) /\ task'[u] = task[u]
        BY <1>a, <1>f, <2>2
      <3>2. task[u].pc \in Working => lock'[TaskPrefix(u)] = u
        BY <1>d, <2>2
      <3>3. task[u].sess \in SessionIds =>
              /\ (state[task[u].sess] # "Ready" => state'[task[u].sess] # "Ready")
              /\ (~child[task[u].sess] => ~child'[task[u].sess])
        BY <1>a, <1>f
      <3>4. task[u].sess \in SessionIds \cup {NoSession} /\ (u[1] = "close"
                  /\ task[u].pc # "none" => closing)
        BY DEF TypeOK, Task, TaskInv, CloseInv
      <3>5. NoInsert(TaskPrefix(u))' = NoInsert(TaskPrefix(u))
        BY <1>a, <1>f, <3>1 DEF NoInsert
      <3>6. task[u].pc \in Working \cup {"forcing"} => sessions'[TaskPrefix(u)]
                  \in {sessions[TaskPrefix(u)], NoSession}
        BY <1>b, <1>t
      <3> HIDE DEF TaskPrefix
      <3>7. task[u].pc \notin Ending /\ ~closing => task[u].sess \in SessionIds
        BY <3>4 DEF TaskInv
      <3> QED BY <1>a, <1>f, <1>t, <2>2, <3>1, <3>2, <3>3, <3>4, <3>5, <3>6, <3>7
                  DEF TaskInv, OnlyOwn
    <2> QED BY <2>1, <2>2
  <1>5. \A q \in Ops : CallerInv(q)'
    <2> SUFFICES ASSUME NEW q \in Ops PROVE CallerInv(q)'
      OBVIOUS
    <2>1. OpTask(q) = t => pc[q] \in {"awaiting", "quiesce", "failed"}
      BY <1>a DEF CallerInv
    <2>2. pc[q] \in Starting => /\ lock'[OpPrefix[q]] = Starter(q)
                              /\ sessions'[OpPrefix[q]] = NoSession
      BY <1>b, <1>d, OpsAssumption DEF CallerInv
    <2>3. pc[q] \in Hands => mine[q] \in SessionIds /\ mine[q] # s
      BY <1>0 DEF CallerInv, NamesInv, TypeOK
    <2>4. pc[q] \in Hands => /\ state'[mine[q]] = state[mine[q]]
                            /\ \A u \in TaskIds : task'[u].sess # mine[q]
      BY <1>a, <1>f, <2>3 DEF CallerInv
    <2>5. \A r \in SessionIds : sup'[r] = "up" => sup[r] = "up"
      BY <1>g
    <2> QED BY <1>a, <1>f, <2>1, <2>2, <2>4, <2>5 DEF CallerInv
  <1>6. \A r \in SessionIds : OwnerInv(r)'
    <2>1. OwnerInv(s)'
      <3> SUFFICES ASSUME sup'[s] = "up" PROVE ~child'[s] /\ Taken(s)'
        BY DEF OwnerInv
      <3>1. sup[s] = "up" /\ ~task[t].handle
        BY <1>0, <1>g
      <3>2. Taken(s)
        BY <1>0, <1>c, <3>1 DEF OwnerInv, CallerInv
      <3> QED BY <1>a, <1>c, <1>f, <3>1, <3>2 DEF Taken
    <2>2. ASSUME NEW r \in SessionIds, r # s PROVE OwnerInv(r)'
      <3>1. sup[r] = "up" => prefixOf[r] \in Prefixes
        BY DEF NamesInv
      <3>2. sup'[r] = "up" => sup[r] = "up"
        BY <1>g
      <3>3. OwnerKept(r)
        BY <1>0, <1>a, <1>b, <1>f, <2>2, <3>1, <3>2 DEF OwnerKept
      <3> QED BY <3>3, OwnerFrame
    <2> QED BY <2>1, <2>2
  <1>7. OneSupervisorPerPrefix'
    <2>1. \A r \in SessionIds : sup'[r] = "up" => sup[r] = "up"
      BY <1>g
    <2> QED BY <1>a, <2>1 DEF OneSupervisorPerPrefix
  <1>8. LeaseProtectsSession'
    BY <1>a, <1>e DEF LeaseProtectsSession
  <1> QED BY <1>1, <1>2, <1>3, <1>4, <1>5, <1>6, <1>7, <1>8

(* The deadline of the closing launcher: what is registered is killed without the lock. *)
LEMMA CloseTimesOutStep ==
    ASSUME SessionInv, NEW p \in Prefixes, CloseTimesOut(p), TypeOK'
    PROVE  SessionInv'
  <1>0. PICK t \in TaskIds, s \in SessionIds \cup {NoSession} :
             t = CloseTask(p) /\ s = sessions[p] /\ t[1] = "close" /\ t[2] = p
    BY TaskNames DEF SessionInv, TypeOK
  <1>t. \A u \in TaskIds : task[u].pc \notin Ending \cup {"queued"} =>
          /\ TaskPrefix(u) \in Prefixes /\ task[u].sess \in SessionIds
          /\ prefixOf[task[u].sess] = TaskPrefix(u)
    BY TaskPlace
  <1>a. /\ task[t].pc \in {"queued", "stopping", "killing"} /\ NoInsert(p)
        /\ \A r \in SessionIds : child'[r] <=> (child[r] /\ r # s)
        /\ UNCHANGED <<known, sessions, closing, census, born, prefixOf, state, opLeases,
                       clientLeases, pc, mine>>
    BY <1>0 DEF CloseTimesOut, NoInsert, bornVars, leaseVars, opVars
  <1>f. /\ task'[t].cause = "Forced" /\ task'[t].sess = s
        /\ IF s = NoSession THEN task'[t].pc = "error"
                            ELSE task'[t].pc = "forcing" /\ task'[t].handle = child[s]
        /\ \A u \in TaskIds \ {t} : task'[u] = task[u]
    BY <1>0 DEF CloseTimesOut, SessionInv, TypeOK, NoTask
  <1>g. \A r \in SessionIds :
           sup'[r] = IF task[t].handle /\ r = task[t].sess /\ sup[r] = "up"
                       THEN "gone" ELSE sup[r]
    BY <1>0 DEF CloseTimesOut, Ended
  <1>b. \A q \in Prefixes : lock'[q] = IF lock[q] = t THEN NoOne ELSE lock[q]
    BY <1>0 DEF CloseTimesOut, ReleaseBy
  <1>d. /\ \A o \in Ops : pc[o] \in Starting => lock'[OpPrefix[o]] = Starter(o)
        /\ \A u \in TaskIds \ {t} : task[u].pc \in Working => lock'[TaskPrefix(u)] = u
    <2>1. \A u \in TaskIds \ {t} : task[u].pc \in Working => lock'[TaskPrefix(u)] = u
      <3>1. \A u \in TaskIds \ {t} : task[u].pc \in Working =>
                    TaskPrefix(u) \in Prefixes /\ lock[TaskPrefix(u)] = u
        BY <1>t DEF SessionInv, TaskInv, Working, Ending
      <3> HIDE DEF TaskPrefix
      <3> QED BY <1>b, <3>1
    <2>2. \A o \in Ops : pc[o] \in Starting => lock'[OpPrefix[o]] = Starter(o)
      <3>1. \A o \in Ops : pc[o] \in Starting =>
                    OpPrefix[o] \in Prefixes /\ lock[OpPrefix[o]] = Starter(o)
        BY OpsAssumption DEF SessionInv, CallerInv
      <3> QED BY <1>b, <3>1, TaskNames
    <2> QED BY <2>1, <2>2
  <1>c. \A q \in Ops : pc[q] \in Hands => mine[q] # s /\ mine[q] \in SessionIds
    <2> SUFFICES ASSUME NEW q \in Ops, pc[q] \in Hands PROVE mine[q] # s /\ mine[q] \in SessionIds
      OBVIOUS
    <2>1. mine[q] # NoSession /\ mine[q] \in SessionIds /\ sessions[OpPrefix[q]] = NoSession
      BY DEF SessionInv, CallerInv, TypeOK, Starting, Hands
    <2>2. mine[q] = s => prefixOf[s] = p /\ prefixOf[s] = OpPrefix[q]
      BY <1>0, <2>1 DEF SessionInv, NamesInv
    <2> QED BY <1>0, <2>1, <2>2
  <1> USE TaskNames, OpsAssumption DEF SessionInv, SessionIds, NoSession, TaskPrefix, Starting,
          Hands, Working, Taking, Ending
  <1>1. NamesInv'
    <2>1. s <= born /\ \A r \in SessionIds : r <= born \/ (sup'[r] = sup[r] /\ ~child'[r])
      BY <1>0, <1>a, <1>g DEF NamesInv
    <2>2. \A u \in TaskIds : task'[u].sess <= born
      BY <1>f, <2>1 DEF NamesInv
    <2> QED BY <1>a, <2>1, <2>2 DEF NamesInv
  <1>2. RegisteredInv'
    BY <1>a, <1>b, <1>f, SMTT(20) DEF NamesInv, RegisteredInv
  <1>3. CloseInv'
    <2>1. \A q \in Prefixes : NoInsert(q) => NoInsert(q)'
      BY <1>a DEF NoInsert
    <2>2. ASSUME NEW q \in Prefixes, census, task'[CloseTask(q)].pc \in Ending
          PROVE  sessions[q] = NoSession /\ NoInsert(q)
      <3>1. CASE q = p
        BY <1>0, <1>a, <1>f, <2>2, <3>1
      <3>2. CASE q # p
        BY <1>0, <1>f, <2>2, <3>2, TaskNames DEF CloseInv
      <3> QED BY <3>1, <3>2
    <2> QED BY <1>a, <2>1, <2>2 DEF CloseInv
  <1>4. \A u \in TaskIds : TaskInv(u)'
    <2> SUFFICES ASSUME NEW u \in TaskIds PROVE TaskInv(u)'
      OBVIOUS
    <2>1. CASE u = t
      <3>1. census /\ closing
        BY <1>0, <1>a DEF TaskInv, CloseInv
      <3>2. TaskPrefix(t) = p /\ TaskPrefix(t)' = p
        BY <1>0
      <3>3. NoInsert(p)'
        BY <1>a DEF NoInsert
      <3>4. s # NoSession => s \in SessionIds /\ prefixOf[s] = p
        BY <1>0 DEF NamesInv
      <3> HIDE DEF TaskPrefix
      <3> QED BY <1>0, <1>a, <1>f, <2>1, <3>1, <3>2, <3>3, <3>4 DEF TaskInv, OnlyOwn
    <2>2. CASE u # t
      <3>1. TaskPrefix(u)' = TaskPrefix(u) /\ task'[u] = task[u]
        BY <1>a, <1>f, <2>2
      <3>2. NoInsert(TaskPrefix(u))' = NoInsert(TaskPrefix(u))
        BY <1>a, <3>1 DEF NoInsert
      <3>3. task[u].pc \in Taking => ~child'[task[u].sess]
        BY <1>a, <1>t DEF TaskInv
      <3> HIDE DEF TaskPrefix
      <3> QED BY <1>a, <1>d, <2>2, <3>1, <3>2, <3>3 DEF TaskInv, OnlyOwn
    <2> QED BY <2>1, <2>2
  <1>5. \A q \in Ops : CallerInv(q)'
    <2> SUFFICES ASSUME NEW q \in Ops PROVE CallerInv(q)'
      OBVIOUS
    <2>1. OpTask(q) # t
      BY <1>0, TaskNames
    <2>2. pc[q] \in Hands => /\ ~child[mine[q]] => ~child'[mine[q]]
                            /\ \A u \in TaskIds : task'[u].sess # mine[q]
      BY <1>a, <1>c, <1>f DEF CallerInv
    <2>3. \A r \in SessionIds : sup'[r] = "up" => sup[r] = "up"
      BY <1>g
    <2> QED BY <1>a, <1>d, <1>f, <2>1, <2>2, <2>3 DEF CallerInv
  <1>6. \A r \in SessionIds : OwnerInv(r)'
    <2> SUFFICES ASSUME NEW r \in SessionIds, sup'[r] = "up" PROVE OwnerInv(r)'
      BY DEF OwnerInv
    <2>1. sup[r] = "up" /\ ~(task[t].handle /\ r = task[t].sess)
      BY <1>g
    <2>2. CASE r = s /\ child[s]
      <3>1. s # NoSession
        BY <2>2
      <3>2. task'[t].sess = r /\ task'[t].handle /\ task'[t].pc = "forcing" /\ ~child'[r]
        BY <1>a, <1>f, <2>2, <3>1
      <3> QED BY <3>2 DEF OwnerInv, Taken
    <2>3. CASE r # s \/ ~child[s]
      <3>1. child'[r] <=> child[r]
        BY <1>a, <2>3
      <3>2. \A u \in TaskIds : task[u].sess = r /\ task[u].handle => task'[u] = task[u]
        BY <1>f, <2>1
      <3>3. OwnerKept(r)
        BY <1>a, <2>1, <3>1, <3>2 DEF OwnerKept
      <3> QED BY <3>3, OwnerFrame
    <2> QED BY <2>2, <2>3
  <1>7. OneSupervisorPerPrefix'
    <2>1. \A r \in SessionIds : sup'[r] = "up" => sup[r] = "up"
      BY <1>g
    <2> QED BY <1>a, <2>1 DEF OneSupervisorPerPrefix
  <1>8. LeaseProtectsSession'
    BY <1>a, <1>b, <1>f, SMTT(20) DEF CallerInv, LeaseProtectsSession
  <1> QED BY <1>1, <1>2, <1>3, <1>4, <1>5, <1>6, <1>7, <1>8

(* The simple steps of the callers keep the types. *)
LEMMA CallerTypes ==
    ASSUME SessionInv, RequestInv, NEW o \in Ops,
           \/ BeginRefused(o) \/ BeginReuses(o) \/ BeginWaits(o)
           \/ BootstrapFails(o) \/ Spawn(o) \/ HandshakeFails(o)
           \/ InsertSession(o) \/ Unwound(o) \/ AwaitEnds(o)
           \/ AttachClient(o) \/ Launch(o) \/ ShutdownPrefix(o)
           \/ ReleaseOperationLease(o) \/ ReleaseClientLease(o) \/ LaunchAccepted(o)
           \/ LaunchRejected(o) \/ LaunchUncounted(o) \/ ControllerExited(o)
    PROVE  TypeOK'
  <1> USE OpsAssumption, RolesAssumption DEF SessionInv, NoSession, SessionIds
  <1>1. CASE BeginRefused(o)
    BY <1>1, SMTT(20)
       DEF BeginRefused, Existing, HasTurn, Holders, OpPc, Registered, TypeOK, bornVars,
           idleVars, leaseVars, registryVars, reqVars, supVars
  <1>2. CASE BeginReuses(o)
    BY <1>2, SMTT(20)
       DEF BeginReuses, BumpIdleGeneration, Existing, HasTurn, Holders, OpPc, Registered,
           TypeOK, bornVars, registryVars, reqVars, supVars
  <1>3. CASE BeginWaits(o)
    BY <1>3, TaskValues, TaskNames, SMTT(20)
       DEF BeginWaits, Existing, HasTurn, Holders, OpPc, Registered, TypeOK, bornVars,
           leaseVars, registryVars, reqVars, supVars
  <1>4. CASE BootstrapFails(o)
    BY <1>4, SMTT(20)
       DEF BootstrapFails, Holders, OpPc, Release, TypeOK, bornVars, idleVars, leaseVars,
           reqVars, supVars
  <1>5. CASE Spawn(o)
    BY <1>5, BoundAssumption, SMTT(60)
       DEF Holders, OpPc, Spawn, TypeOK, idleVars, leaseVars, registryVars, reqVars
  <1>6. CASE HandshakeFails(o)
    BY <1>6, SMTT(20)
       DEF CallerInv, Hands, HandshakeFails, Holders, OpPc, Release, TypeOK, bornVars,
           idleVars, leaseVars, reqVars
  <1>7. CASE InsertSession(o)
    BY <1>7, SMTT(20)
       DEF CallerInv, Hands, Holders, InsertSession, OpPc, Release, TypeOK, bornVars,
           idleVars, leaseVars, reqVars, supVars
  <1>8. CASE Unwound(o)
    BY <1>8, SMTT(20)
       DEF CallerInv, Hands, Holders, OpPc, Release, TypeOK, Unwound, bornVars, idleVars,
           leaseVars, reqVars
  <1>9. CASE AwaitEnds(o)
    BY <1>9, TaskValues, TaskNames, SMTT(20)
       DEF AwaitEnds, Holders, OpPc, TypeOK, bornVars, idleVars, leaseVars, registryVars,
           reqVars, supVars
  <1>10. CASE AttachClient(o)
    BY <1>10, SMTT(20)
       DEF AttachClient, BumpIdleGeneration, CallerInv, OpPc, TypeOK, bornVars,
           registryVars, reqVars, supVars
  <1>11. CASE Launch(o)
    BY <1>11, SMTT(20)
       DEF CallerInv, HoldsLease, Launch, TypeOK, bornVars, idleVars, leaseVars, opVars,
           registryVars, supVars
  <1>12. CASE ShutdownPrefix(o)
    BY <1>12, TaskValues, TaskNames, SMTT(20)
       DEF Holders, OpPc, ShutdownPrefix, TypeOK, bornVars, idleVars, leaseVars,
           registryVars, reqVars, supVars
  <1>13. CASE ReleaseOperationLease(o)
    BY <1>13, SMTT(60)
       DEF CallerInv, HoldsLease, OpPc, ReleaseOperationLease, ScheduleIdleShutdown, TypeOK,
           bornVars, registryVars, reqVars, supVars
  <1>14. CASE ReleaseClientLease(o)
    BY <1>14, SMTT(20)
       DEF Holders, OpPc, ReleaseClientLease, ScheduleIdleShutdown, TypeOK, bornVars,
           opVars, registryVars, reqVars, supVars
  <1>15. CASE LaunchAccepted(o)
    BY <1>15, SMTT(60)
       DEF LaunchAccepted, RequestInv, TypeOK, bornVars, idleVars, leaseVars, opVars,
           registryVars, supVars
  <1>16. CASE LaunchRejected(o)
    BY <1>16, SMTT(20)
       DEF Holders, LaunchRejected, OpPc, TypeOK, bornVars, idleVars, leaseVars, opVars,
           registryVars, supVars
  <1>17. CASE LaunchUncounted(o)
    BY <1>17, SMTT(20)
       DEF LaunchUncounted, RequestInv, TypeOK, bornVars, idleVars, leaseVars, opVars,
           registryVars
  <1>18. CASE ControllerExited(o)
    BY <1>18, SMTT(20)
       DEF ControllerExited, RequestInv, ScheduleIdleShutdown, TypeOK, bornVars, leaseVars,
           opVars, registryVars, supVars
  <1> QED BY <1>1, <1>2, <1>3, <1>4, <1>5, <1>6, <1>7, <1>8, <1>9, <1>10, <1>11, <1>12,
         <1>13, <1>14, <1>15, <1>16, <1>17, <1>18

(* So do the timers and the supervisor. *)
LEMMA TimerTypes ==
    ASSUME SessionInv, NEW s \in SessionIds,
           ScheduleCheck(s) \/ ScheduleBump(s) \/ SupervisorStops(s) \/ SupervisorDies(s)
                       \/ PipeBreaks(s)
    PROVE  TypeOK'
  <1> USE DEF SessionInv, NoSession, SessionIds
  <1>1. CASE ScheduleCheck(s)
    BY <1>1, SMTT(60)
       DEF ScheduleCheck, TypeOK, bornVars, leaseVars, opVars, registryVars, reqVars,
           supVars
  <1>2. CASE ScheduleBump(s)
    BY <1>2, SMTT(60)
       DEF ScheduleBump, TypeOK, bornVars, leaseVars, opVars, registryVars, reqVars, supVars
  <1>3. CASE SupervisorStops(s)
    BY <1>3, SMTT(20)
       DEF SupervisorStops, TypeOK, bornVars, idleVars, leaseVars, opVars, registryVars,
           reqVars
  <1>4. CASE SupervisorDies(s)
    BY <1>4, SMTT(20)
       DEF SupervisorDies, TypeOK, bornVars, idleVars, leaseVars, opVars, registryVars,
           reqVars
  <1>5. CASE PipeBreaks(s)
    BY <1>5, SMTT(20)
       DEF PipeBreaks, TypeOK, bornVars, idleVars, leaseVars, opVars, registryVars, reqVars
  <1> QED BY <1>1, <1>2, <1>3, <1>4, <1>5

(* So does the end of the launcher. *)
LEMMA EndTypes ==
    ASSUME SessionInv, Close \/ Census
    PROVE  TypeOK'
  <1> USE DEF SessionInv, NoSession, SessionIds
  <1>1. CASE Close
    BY <1>1, SMTT(20)
       DEF Close, TypeOK, bornVars, idleVars, leaseVars, opVars, reqVars, supVars
  <1>2. CASE Census
    BY <1>2, TaskValues, SMTT(20)
       DEF Census, TypeOK, bornVars, idleVars, leaseVars, opVars, reqVars, supVars
  <1> QED BY <1>1, <1>2

(* The requests that run on a session. *)
Running(s) == {o \in Ops : reqOf[o] = s /\ req[o] = "running"}

(* A step that answers no request, and touches the idle bookkeeping only of spawned
   sessions. *)
LEMMA RequestFrame ==
    ASSUME SessionInv, RequestInv, TypeOK', UNCHANGED <<req, reqOf, active>>, born <= born',
           \A s \in SessionIds : link'[s] = "ok" => link[s] = "ok",
           \A s \in SessionIds : s <= born \/ s <= born' \/ (fresh'[s] = {}
                       /\ checks'[s] = 0 /\ bumps'[s] = 0)
    PROVE  RequestInv'
  <1>1. ActiveIsExact'
    BY DEF RequestInv, ActiveIsExact
  <1>2. ASSUME NEW o \in Ops
        PROVE  /\ req'[o] # "none" => reqOf'[o] # NoSession
               /\ req'[o] = "uncounted" => link'[reqOf'[o]] # "ok"
               /\ reqOf'[o] <= born'
    <2>1. reqOf[o] # NoSession => reqOf[o] \in SessionIds
      BY DEF SessionInv, TypeOK
    <2>2. reqOf[o] \in Nat /\ born \in Nat /\ born' \in Nat
      BY BoundAssumption DEF SessionInv, TypeOK, SessionIds, NoSession
    <2> QED BY <2>1, <2>2 DEF RequestInv
  <1>3. ASSUME NEW s \in SessionIds
        PROVE  s <= born' \/ (fresh'[s] = {} /\ checks'[s] = 0 /\ bumps'[s] = 0)
    <2>1. s \in Nat /\ born \in Nat /\ born' \in Nat
      BY BoundAssumption DEF SessionInv, TypeOK, SessionIds
    <2> QED BY <2>1
  <1> QED BY <1>1, <1>2, <1>3 DEF RequestInv

(* One request is answered, the rest stay: the count of its session is all there is to
   compare. *)
LEMMA AnswerFrame ==
    ASSUME SessionInv, RequestInv, TypeOK', NEW o \in Ops, NEW s \in SessionIds,
           reqOf'[o] = s, s <= born, req'[o] # "none",
           \A q \in Ops \ {o} : req'[q] = req[q] /\ reqOf'[q] = reqOf[q],
           reqOf[o] = s \/ req[o] # "running",
           \A r \in SessionIds \ {s} : active'[r] = active[r],
           \A r \in SessionIds : link'[r] = "ok" => link[r] = "ok",
           req'[o] = "uncounted" => link'[s] # "ok",
           link'[s] = "ok" => active'[s] = Cardinality(Running(s)'),
           UNCHANGED <<born, fresh, bumps>>,
           \A r \in SessionIds : r <= born \/ checks'[r] = checks[r]
    PROVE  RequestInv'
  <1>1. ActiveIsExact'
    <2> SUFFICES ASSUME NEW r \in SessionIds, link'[r] = "ok"
                 PROVE  active'[r] = Cardinality(Running(r)')
      BY DEF ActiveIsExact, Running
    <2>1. CASE r = s
      BY <2>1
    <2>2. CASE r # s
      <3>1. Running(r)' = Running(r)
        BY <2>2 DEF Running
      <3> QED BY <2>2, <3>1 DEF RequestInv, ActiveIsExact, Running
    <2> QED BY <2>1, <2>2
  <1>2. ASSUME NEW q \in Ops
        PROVE  /\ req'[q] # "none" => reqOf'[q] # NoSession
               /\ req'[q] = "uncounted" => link'[reqOf'[q]] # "ok"
               /\ reqOf'[q] <= born'
    <2>1. CASE q = o
      BY <2>1 DEF NoSession, SessionIds
    <2>2. CASE q # o
      <3>1. reqOf[q] # NoSession => reqOf[q] \in SessionIds
        BY DEF SessionInv, TypeOK
      <3> QED BY <2>2, <3>1 DEF RequestInv
    <2> QED BY <2>1, <2>2
  <1> QED BY <1>1, <1>2 DEF RequestInv

(* A set of callers is finite: one more is one more. *)
LEMMA OneMore ==
    ASSUME NEW S \in SUBSET Ops, NEW o \in Ops, o \notin S
    PROVE  Cardinality(S \cup {o}) = Cardinality(S) + 1 /\ Cardinality(S) \in Nat
  <1>1. IsFiniteSet(S)
    BY FS_Subset, FiniteOpsAssumption
  <1> QED BY <1>1, FS_AddElement, FS_CardinalityType

(* Requests and answers keep the count exact on a sound pipe. *)
LEMMA AnswersKeepCount ==
    ASSUME SessionInv, RequestInv, TypeOK', NEW o \in Ops,
           Launch(o) \/ Answer(o) \/ ControllerExited(o)
    PROVE  RequestInv'
  <1> USE DEF SessionInv
  <1>1. CASE Launch(o)
    <2>1. PICK s \in SessionIds : s = mine[o] /\ s <= born
      BY <1>1 DEF Launch, HoldsLease, TypeOK, CallerInv, NamesInv
    <2>2. Running(s)' = Running(s)
      BY <1>1 DEF Launch, Running, TypeOK
    <2>3. link[s] = "ok" => active[s] = Cardinality(Running(s))
      BY DEF RequestInv, ActiveIsExact, Running
    <2>4. /\ reqOf'[o] = s /\ req'[o] = "sent" /\ req[o] = "none"
          /\ \A q \in Ops \ {o} : req'[q] = req[q] /\ reqOf'[q] = reqOf[q]
          /\ UNCHANGED <<active, link, born, fresh, checks, bumps>>
      BY <1>1, <2>1 DEF Launch, TypeOK, bornVars, idleVars, supVars
    <2> QED BY <2>1, <2>2, <2>3, <2>4, AnswerFrame
  <1>2. ASSUME Answer(o) \/ ControllerExited(o)
        PROVE  RequestInv'
    <2>1. PICK s \in SessionIds : s = reqOf[o] /\ s <= born
      BY <1>2 DEF Answer, LaunchAccepted, LaunchRejected, LaunchUncounted, ControllerExited,
         TypeOK, RequestInv
    <2>2. link[s] = "ok" => active[s] = Cardinality(Running(s))
      BY DEF RequestInv, ActiveIsExact, Running
    <2>3. CASE LaunchAccepted(o)
      <3>1. Running(s)' = Running(s) \cup {o} /\ o \notin Running(s)
        BY <2>1, <2>3 DEF LaunchAccepted, Running, TypeOK
      <3>2. Cardinality(Running(s)') = Cardinality(Running(s)) + 1
        BY <3>1, OneMore DEF Running
      <3>3. /\ reqOf'[o] = s /\ req'[o] = "running" /\ active'[s] = active[s] + 1
            /\ \A q \in Ops \ {o} : req'[q] = req[q] /\ reqOf'[q] = reqOf[q]
            /\ \A r \in SessionIds \ {s} : active'[r] = active[r]
            /\ UNCHANGED <<link, born, fresh, checks, bumps>>
        BY <2>1, <2>3 DEF LaunchAccepted, TypeOK, bornVars, idleVars, supVars
      <3> QED BY <2>1, <2>2, <3>2, <3>3, AnswerFrame
    <2>4. CASE LaunchRejected(o) \/ LaunchUncounted(o)
      <3>1. Running(s)' = Running(s)
        BY <2>4 DEF LaunchRejected, LaunchUncounted, Running, TypeOK
      <3>2. /\ reqOf'[o] = s /\ req'[o] \in {"done", "uncounted"}
            /\ req'[o] = "uncounted" => link'[s] # "ok"
            /\ \A q \in Ops \ {o} : req'[q] = req[q] /\ reqOf'[q] = reqOf[q]
            /\ \A r \in SessionIds : link'[r] = "ok" => link[r] = "ok"
            /\ UNCHANGED <<active, born, fresh, checks, bumps>>
        BY <2>1, <2>4 DEF LaunchRejected, LaunchUncounted, TypeOK, bornVars, idleVars, supVars
      <3> QED BY <2>1, <2>2, <3>1, <3>2, AnswerFrame
    <2>5. CASE ControllerExited(o)
      <3>1. /\ reqOf'[o] = s /\ req'[o] = "done" /\ req[o] \in {"running", "uncounted"}
            /\ active'[s] = (IF active[s] = 0 THEN 0 ELSE active[s] - 1)
            /\ \A q \in Ops \ {o} : req'[q] = req[q] /\ reqOf'[q] = reqOf[q]
            /\ \A r \in SessionIds \ {s} : active'[r] = active[r]
            /\ UNCHANGED <<link, born, fresh, bumps>>
        BY <2>1, <2>5 DEF ControllerExited, TypeOK, bornVars, supVars
      <3>2. \A r \in SessionIds : r <= born \/ checks'[r] = checks[r]
        BY <2>1, <2>5 DEF ControllerExited, ScheduleIdleShutdown, TypeOK
      <3>3. req[o] = "uncounted" => link[s] # "ok"
        BY <2>1 DEF RequestInv
      <3>4. CASE req[o] = "running"
        <4>1. Running(s) = Running(s)' \cup {o} /\ o \notin Running(s)'
          BY <2>1, <3>1, <3>4 DEF Running
        <4>2. /\ Cardinality(Running(s)) = Cardinality(Running(s)') + 1
              /\ Cardinality(Running(s)') \in Nat
          BY <4>1, OneMore DEF Running
        <4>3. link'[s] = "ok" => active'[s] = Cardinality(Running(s)')
          BY <2>2, <3>1, <4>2
        <4> QED BY <2>1, <3>1, <3>2, <4>3, AnswerFrame
      <3>5. CASE req[o] = "uncounted"
        BY <2>1, <3>1, <3>2, <3>3, <3>5, AnswerFrame
      <3> QED BY <3>1, <3>4, <3>5
    <2> QED BY <1>2, <2>3, <2>4, <2>5 DEF Answer
  <1> QED BY <1>1, <1>2

(* What RequestFrame asks of a step. *)
KeptBooks ==
    /\ \A s \in SessionIds : link'[s] = "ok" => link[s] = "ok"
    /\ \A s \in SessionIds :
          s <= born \/ s <= born' \/ (fresh'[s] = {} /\ checks'[s] = 0 /\ bumps'[s] = 0)

(* Callers neither answer requests nor touch the idle bookkeeping of unborn sessions. *)
LEMMA CallersKeepBooks ==
    ASSUME SessionInv, RequestInv, TypeOK', NEW o \in Ops,
           \/ BeginOperation(o) \/ BeginRefused(o) \/ BeginReuses(o)
           \/ BeginWaits(o) \/ BeginStarts(o) \/ BootstrapFails(o)
           \/ Spawn(o) \/ HandshakeFails(o) \/ HandshakeSucceeds(o)
           \/ InsertSession(o) \/ Unwound(o) \/ AwaitEnds(o)
           \/ AttachClient(o) \/ ShutdownPrefix(o) \/ Cancel(o)
           \/ ReleaseOperationLease(o) \/ ReleaseClientLease(o)
    PROVE  RequestInv'
  <1> USE DEF SessionInv, NoSession, SessionIds, KeptBooks
  <1>0. /\ born \in Nat
        /\ \A s \in SessionIds : s <= born \/ (fresh[s] = {} /\ checks[s] = 0 /\ bumps[s] = 0)
    BY BoundAssumption DEF TypeOK, RequestInv
  <1>1. CASE BeginOperation(o)
    <2>1. UNCHANGED <<req, reqOf, active>> /\ born <= born' /\ KeptBooks
      BY <1>1, <1>0, OpsAssumption, SMTT(20)
         DEF BeginOperation, TypeOK, bornVars, idleVars, leaseVars, reqVars, supVars
    <2> QED BY <2>1, RequestFrame
  <1>2. CASE BeginRefused(o)
    <2>1. UNCHANGED <<req, reqOf, active>> /\ born <= born' /\ KeptBooks
      BY <1>2, <1>0, OpsAssumption, SMTT(20)
         DEF BeginRefused, Existing, HasTurn, Registered, TypeOK, bornVars, idleVars,
             leaseVars, registryVars, reqVars, supVars
    <2> QED BY <2>1, RequestFrame
  <1>3. CASE BeginReuses(o)
    <2>1. UNCHANGED <<req, reqOf, active>> /\ born <= born' /\ KeptBooks
      BY <1>3, <1>0, OpsAssumption, SMTT(20)
         DEF BeginReuses, BumpIdleGeneration, Existing, HasTurn, NamesInv, Registered,
             TypeOK, bornVars, registryVars, reqVars, supVars
    <2> QED BY <2>1, RequestFrame
  <1>4. CASE BeginWaits(o)
    <2>1. Existing(o) \in SessionIds => Existing(o) <= born
      BY OpsAssumption DEF Existing, NamesInv
    <2>2. \A s \in SessionIds : s = Existing(o) \/ fresh'[s] = fresh[s]
      BY <1>4 DEF BeginWaits, TypeOK
    <2>3. UNCHANGED <<req, reqOf, active, born, link, checks, bumps>>
      BY <1>4 DEF BeginWaits, bornVars, supVars, reqVars
    <2> QED BY <1>0, <2>1, <2>2, <2>3, RequestFrame
  <1>5. CASE BeginStarts(o)
    <2>1. UNCHANGED <<req, reqOf, active>> /\ born <= born' /\ KeptBooks
      BY <1>5, <1>0, OpsAssumption, SMTT(20)
         DEF BeginStarts, Existing, HasTurn, Registered, RemoveIfSame, TypeOK, bornVars,
             idleVars, leaseVars, reqVars, supVars
    <2> QED BY <2>1, RequestFrame
  <1>6. CASE BootstrapFails(o)
    <2>1. UNCHANGED <<req, reqOf, active>> /\ born <= born' /\ KeptBooks
      BY <1>6, <1>0, SMTT(20)
         DEF BootstrapFails, Release, TypeOK, bornVars, idleVars, leaseVars, reqVars,
             supVars
    <2> QED BY <2>1, RequestFrame
  <1>7. CASE Spawn(o)
    <2>1. UNCHANGED <<req, reqOf, active>> /\ born <= born' /\ KeptBooks
      BY <1>7, <1>0, SMTT(20)
         DEF Spawn, TypeOK, idleVars, leaseVars, registryVars, reqVars
    <2> QED BY <2>1, RequestFrame
  <1>8. CASE HandshakeFails(o)
    <2>1. UNCHANGED <<req, reqOf, active>> /\ born <= born' /\ KeptBooks
      BY <1>8, <1>0, SMTT(20)
         DEF HandshakeFails, Release, TypeOK, bornVars, idleVars, leaseVars, reqVars
    <2> QED BY <2>1, RequestFrame
  <1>9. CASE HandshakeSucceeds(o)
    <2>1. UNCHANGED <<req, reqOf, active>> /\ born <= born' /\ KeptBooks
      BY <1>9, <1>0, SMTT(20)
         DEF HandshakeSucceeds, TypeOK, bornVars, idleVars, registryVars, reqVars, supVars
    <2> QED BY <2>1, RequestFrame
  <1>10. CASE InsertSession(o)
    <2>1. UNCHANGED <<req, reqOf, active>> /\ born <= born' /\ KeptBooks
      BY <1>10, <1>0, SMTT(20)
         DEF InsertSession, Release, TypeOK, bornVars, idleVars, leaseVars, reqVars, supVars
    <2> QED BY <2>1, RequestFrame
  <1>11. CASE Unwound(o)
    <2>1. UNCHANGED <<req, reqOf, active>> /\ born <= born' /\ KeptBooks
      BY <1>11, <1>0, SMTT(20)
         DEF Release, TypeOK, Unwound, bornVars, idleVars, leaseVars, reqVars
    <2> QED BY <2>1, RequestFrame
  <1>12. CASE AwaitEnds(o)
    <2>1. UNCHANGED <<req, reqOf, active>> /\ born <= born' /\ KeptBooks
      BY <1>12, <1>0, SMTT(20)
         DEF AwaitEnds, TypeOK, bornVars, idleVars, leaseVars, registryVars, reqVars,
             supVars
    <2> QED BY <2>1, RequestFrame
  <1>13. CASE AttachClient(o)
    <2>1. UNCHANGED <<req, reqOf, active>> /\ born <= born' /\ KeptBooks
      BY <1>13, <1>0, SMTT(20)
         DEF AttachClient, BumpIdleGeneration, CallerInv, NamesInv, TypeOK, bornVars,
             registryVars, reqVars, supVars
    <2> QED BY <2>1, RequestFrame
  <1>14. CASE ShutdownPrefix(o)
    <2>1. UNCHANGED <<req, reqOf, active>> /\ born <= born' /\ KeptBooks
      BY <1>14, <1>0, SMTT(20)
         DEF ShutdownPrefix, TypeOK, bornVars, idleVars, leaseVars, registryVars, reqVars,
             supVars
    <2> QED BY <2>1, RequestFrame
  <1>15. CASE Cancel(o)
    <2>1. UNCHANGED <<req, reqOf, active>> /\ born <= born' /\ KeptBooks
      BY <1>15, <1>0, SMTT(20)
         DEF Cancel, Release, TypeOK, bornVars, idleVars, leaseVars, reqVars
    <2> QED BY <2>1, RequestFrame
  <1>16. CASE ReleaseOperationLease(o)
    <2>1. UNCHANGED <<req, reqOf, active>> /\ born <= born' /\ KeptBooks
      BY <1>16, <1>0, SMTT(20)
         DEF CallerInv, HoldsLease, NamesInv, ReleaseOperationLease, ScheduleIdleShutdown,
             TypeOK, bornVars, registryVars, reqVars, supVars
    <2> QED BY <2>1, RequestFrame
  <1>17. CASE ReleaseClientLease(o)
    <2>1. UNCHANGED <<req, reqOf, active>> /\ born <= born' /\ KeptBooks
      BY <1>17, <1>0, SMTT(20)
         DEF NamesInv, ReleaseClientLease, ScheduleIdleShutdown, TypeOK, bornVars, opVars,
             registryVars, reqVars, supVars
    <2> QED BY <2>1, RequestFrame
  <1> QED BY <1>1, <1>2, <1>3, <1>4, <1>5, <1>6, <1>7, <1>8, <1>9, <1>10, <1>11, <1>12,
         <1>13, <1>14, <1>15, <1>16, <1>17

(* Nor do the shutdowns. *)
LEMMA TasksKeepBooks ==
    ASSUME SessionInv, RequestInv, TypeOK', NEW t \in TaskIds,
           \/ TaskReturns(t) \/ TaskStops(t) \/ TaskSeesStopped(t)
           \/ TaskFails(t) \/ TaskKills(t)
    PROVE  RequestInv'
  <1> USE DEF SessionInv, NoSession, SessionIds, KeptBooks
  <1>0. /\ born \in Nat
        /\ \A s \in SessionIds : s <= born \/ (fresh[s] = {} /\ checks[s] = 0 /\ bumps[s] = 0)
    BY BoundAssumption DEF TypeOK, RequestInv
  <1>1. CASE TaskReturns(t)
    <2>1. UNCHANGED <<req, reqOf, active>> /\ born <= born' /\ KeptBooks
      BY <1>1, <1>0, SMTT(20)
         DEF Due, Finished, Forbidden, Present, Queued, Target, TaskReturns, TypeOK,
             bornVars, idleVars, leaseVars, opVars, registryVars, reqVars, supVars
    <2> QED BY <2>1, RequestFrame
  <1>2. CASE TaskStops(t)
    <2>1. UNCHANGED <<req, reqOf, active>> /\ born <= born' /\ KeptBooks
      BY <1>2, <1>0, SMTT(20)
         DEF Due, Forbidden, Present, Queued, Target, TaskStops, TypeOK, bornVars, idleVars,
             leaseVars, opVars, reqVars, supVars
    <2> QED BY <2>1, RequestFrame
  <1>3. CASE TaskSeesStopped(t)
    <2>1. UNCHANGED <<req, reqOf, active>> /\ born <= born' /\ KeptBooks
      BY <1>3, <1>0, SMTT(20)
         DEF Finished, ReleaseBy, RemoveIfSame, TaskSeesStopped, TypeOK, bornVars,
             leaseVars, opVars, reqVars, supVars
    <2> QED BY <2>1, RequestFrame
  <1>4. CASE TaskFails(t)
    <2>1. UNCHANGED <<req, reqOf, active>> /\ born <= born' /\ KeptBooks
      BY <1>4, <1>0, SMTT(20)
         DEF TaskFails, TypeOK, bornVars, idleVars, leaseVars, opVars, registryVars,
             reqVars, supVars
    <2> QED BY <2>1, RequestFrame
  <1>5. CASE TaskKills(t)
    <2>1. \A s \in SessionIds : link'[s] = "ok" => link[s] = "ok"
      BY <1>5, EndedEffect DEF TaskKills
    <2>2. UNCHANGED <<req, reqOf, active, born>>
      BY <1>5 DEF TaskKills, reqVars, bornVars
    <2>3. task[t].sess \in SessionIds
      BY <1>5, TaskTarget DEF TaskKills, Ending
    <2>4. \A s \in SessionIds : s <= born \/ (fresh'[s] = {} /\ checks'[s] = 0 /\ bumps'[s] = 0)
      BY <1>5, <1>0, <2>3 DEF TaskKills, RemoveIfSame, TypeOK
    <2> QED BY <1>0, <2>1, <2>2, <2>4, RequestFrame
  <1> QED BY <1>1, <1>2, <1>3, <1>4, <1>5

(* Nor the timers and the supervisor. *)
LEMMA TimersKeepBooks ==
    ASSUME SessionInv, RequestInv, TypeOK', NEW s \in SessionIds,
           \/ ScheduleCheck(s) \/ ScheduleBump(s) \/ TimerFires(s)
           \/ SupervisorStops(s) \/ SupervisorDies(s) \/ PipeBreaks(s)
    PROVE  RequestInv'
  <1> USE DEF SessionInv, NoSession, SessionIds, KeptBooks
  <1>0. /\ born \in Nat
        /\ \A u \in SessionIds : u <= born \/ (fresh[u] = {} /\ checks[u] = 0 /\ bumps[u] = 0)
    BY BoundAssumption DEF TypeOK, RequestInv
  <1>1. CASE ScheduleCheck(s)
    <2>1. UNCHANGED <<req, reqOf, active>> /\ born <= born' /\ KeptBooks
      BY <1>1, <1>0, SMTT(20)
         DEF ScheduleCheck, TypeOK, bornVars, leaseVars, opVars, registryVars, reqVars,
             supVars
    <2> QED BY <2>1, RequestFrame
  <1>2. CASE ScheduleBump(s)
    <2>1. UNCHANGED <<req, reqOf, active>> /\ born <= born' /\ KeptBooks
      BY <1>2, <1>0, SMTT(20)
         DEF ScheduleBump, TypeOK, bornVars, leaseVars, opVars, registryVars, reqVars,
             supVars
    <2> QED BY <2>1, RequestFrame
  <1>3. CASE TimerFires(s)
    <2>1. UNCHANGED <<req, reqOf, active>> /\ born <= born' /\ KeptBooks
      BY <1>3, <1>0, SMTT(20)
         DEF TimerFires, TypeOK, bornVars, leaseVars, opVars, registryVars, reqVars, supVars
    <2> QED BY <2>1, RequestFrame
  <1>4. CASE SupervisorStops(s)
    <2>1. UNCHANGED <<req, reqOf, active>> /\ born <= born' /\ KeptBooks
      BY <1>4, <1>0, SMTT(20)
         DEF SupervisorStops, TypeOK, bornVars, idleVars, leaseVars, opVars, registryVars,
             reqVars
    <2> QED BY <2>1, RequestFrame
  <1>5. CASE SupervisorDies(s)
    <2>1. UNCHANGED <<req, reqOf, active>> /\ born <= born' /\ KeptBooks
      BY <1>5, <1>0, SMTT(20)
         DEF SupervisorDies, TypeOK, bornVars, idleVars, leaseVars, opVars, registryVars,
             reqVars
    <2> QED BY <2>1, RequestFrame
  <1>6. CASE PipeBreaks(s)
    <2>1. UNCHANGED <<req, reqOf, active>> /\ born <= born' /\ KeptBooks
      BY <1>6, <1>0, SMTT(20)
         DEF PipeBreaks, TypeOK, bornVars, idleVars, leaseVars, opVars, registryVars,
             reqVars
    <2> QED BY <2>1, RequestFrame
  <1> QED BY <1>1, <1>2, <1>3, <1>4, <1>5, <1>6

(* Nor the end of the launcher. *)
LEMMA EndKeepsBooks ==
    ASSUME SessionInv, RequestInv, TypeOK', 
           \/ Close \/ Census \/ (\E p \in Prefixes : CloseTimesOut(p))
    PROVE  RequestInv'
  <1> USE DEF SessionInv, NoSession, SessionIds, KeptBooks
  <1>0. /\ born \in Nat
        /\ \A s \in SessionIds : s <= born \/ (fresh[s] = {} /\ checks[s] = 0 /\ bumps[s] = 0)
    BY BoundAssumption DEF TypeOK, RequestInv
  <1>1. CASE Close
    <2>1. UNCHANGED <<req, reqOf, active>> /\ born <= born' /\ KeptBooks
      BY <1>1, <1>0, SMTT(20)
         DEF Close, TypeOK, bornVars, idleVars, leaseVars, opVars, reqVars, supVars
    <2> QED BY <2>1, RequestFrame
  <1>2. CASE Census
    <2>1. UNCHANGED <<req, reqOf, active>> /\ born <= born' /\ KeptBooks
      BY <1>2, <1>0, SMTT(20)
         DEF Census, TypeOK, bornVars, idleVars, leaseVars, opVars, reqVars, supVars
    <2> QED BY <2>1, RequestFrame
  <1>3. ASSUME NEW p \in Prefixes, CloseTimesOut(p) PROVE RequestInv'
    <2>1. \A s \in SessionIds : link'[s] = "ok" => link[s] = "ok"
      BY <1>3, TaskNames, EndedEffect DEF CloseTimesOut
    <2>2. UNCHANGED <<req, reqOf, active, born>>
      BY <1>3 DEF CloseTimesOut, reqVars, bornVars
    <2>3. UNCHANGED <<fresh, checks, bumps>>
      BY <1>3 DEF CloseTimesOut, idleVars
    <2> QED BY <1>0, <2>1, <2>2, <2>3, RequestFrame
  <1> QED BY <1>1, <1>2, <1>3

(* Every step of the registry keeps the types. *)
LEMMA TypesKept ==
    ASSUME SessionInv, RequestInv, Next
    PROVE  TypeOK'
  <1>1. ASSUME NEW o \in Ops, OpStep(o)
        PROVE  TypeOK'
    <2>1. CASE BeginOperation(o) \/ BeginStarts(o) \/ HandshakeSucceeds(o) \/ Cancel(o)
      BY <2>1, BeginOperationType, BeginStartsType, HandshakeSucceedsType, CancelType
    <2>2. CASE ~(BeginOperation(o) \/ BeginStarts(o) \/ HandshakeSucceeds(o) \/ Cancel(o))
      BY <1>1, <2>2, CallerTypes DEF OpStep, OpBegins, OpUses, OpReleases, Answer
    <2> QED BY <2>1, <2>2
  <1>2. ASSUME NEW s \in SessionIds, IdleStep(s) \/ SupervisorStep(s)
        PROVE  TypeOK'
    BY <1>2, TimerFiresType, TimerTypes DEF IdleStep, SupervisorStep
  <1>3. ASSUME NEW t \in TaskIds, TaskStep(t)
        PROVE  TypeOK'
    BY <1>3, TaskReturnsType, TaskStopsType, TaskSeesStoppedType, TaskFailsType, TaskKillsType
       DEF TaskStep
  <1>4. ASSUME Close \/ Census
        PROVE  TypeOK'
    BY <1>4, EndTypes
  <1>5. ASSUME NEW p \in Prefixes, CloseTimesOut(p)
        PROVE  TypeOK'
    BY <1>5, CloseTimesOutType
  <1> QED BY <1>1, <1>2, <1>3, <1>4, <1>5 DEF Next

(* Every step of the registry keeps its invariant. *)
LEMMA RegistryStep ==
    ASSUME SessionInv, RequestInv, Next
    PROVE  SessionInv' /\ RequestInv'
  <1>0. TypeOK'
    BY TypesKept
  <1>1. ASSUME NEW o \in Ops, OpStep(o)
        PROVE  SessionInv' /\ RequestInv'
    <2>1. CASE OpBegins(o)
      <3>1. SessionInv'
        BY <1>0, <2>1, BeginOperationStep, BeginRefusedStep, BeginReusesStep, BeginWaitsStep,
           BeginStartsStep, BootstrapFailsStep, SpawnStep, HandshakeFailsStep,
           HandshakeSucceedsStep, InsertSessionStep, UnwoundStep, AwaitEndsStep DEF OpBegins
      <3>2. RequestInv'
        BY <1>0, <2>1, CallersKeepBooks DEF OpBegins
      <3> QED BY <3>1, <3>2
    <2>2. CASE AttachClient(o) \/ ShutdownPrefix(o) \/ Cancel(o) \/ OpReleases(o)
      <3>1. SessionInv'
        BY <1>0, <2>2, AttachClientStep, ShutdownPrefixStep, CancelStep,
           ReleaseOperationLeaseStep, ReleaseClientLeaseStep DEF OpReleases
      <3>2. RequestInv'
        BY <1>0, <2>2, CallersKeepBooks DEF OpReleases
      <3> QED BY <3>1, <3>2
    <2>3. CASE Launch(o) \/ Answer(o) \/ ControllerExited(o)
      BY <1>0, <2>3, QuietActions, AnswersKeepCount
    <2> QED BY <1>1, <2>1, <2>2, <2>3 DEF OpStep, OpUses
  <1>2. ASSUME NEW s \in SessionIds, IdleStep(s) \/ SupervisorStep(s)
        PROVE  SessionInv' /\ RequestInv'
    <2>1. SessionInv'
      BY <1>0, <1>2, QuietActions, TimerFiresStep DEF IdleStep
    <2>2. RequestInv'
      BY <1>0, <1>2, TimersKeepBooks DEF IdleStep, SupervisorStep
    <2> QED BY <2>1, <2>2
  <1>3. ASSUME NEW t \in TaskIds, TaskStep(t)
        PROVE  SessionInv' /\ RequestInv'
    BY <1>0, <1>3, TaskReturnsStep, TaskStopsStep, TaskSeesStoppedStep, TaskFailsStep,
       TaskKillsStep, TasksKeepBooks DEF TaskStep
  <1>4. ASSUME Close \/ Census
        PROVE  SessionInv' /\ RequestInv'
    BY <1>0, <1>4, CloseStep, CensusStep, EndKeepsBooks
  <1>5. ASSUME NEW p \in Prefixes, CloseTimesOut(p)
        PROVE  SessionInv' /\ RequestInv'
    BY <1>0, <1>5, CloseTimesOutStep, EndKeepsBooks
  <1> QED BY <1>1, <1>2, <1>3, <1>4, <1>5 DEF Next

(* At the start there is no session and no caller. *)
LEMMA RegistryInit ==
    ASSUME Init
    PROVE  SessionInv /\ RequestInv
  <1> USE DEF Init, SessionIds, NoSession
  <1>1. TypeOK
    <2>1. lock \in [Prefixes -> Holders]
      BY DEF Holders
    <2>4. born \in 0..MaxSessions
      BY BoundAssumption
    <2>2. task \in [TaskIds -> Task]
      BY TaskValues
    <2>3. pc \in [Ops -> OpPc]
      BY DEF OpPc
    <2> QED BY <2>1, <2>2, <2>3, <2>4 DEF TypeOK
  <1>2. \A t \in TaskIds : task[t] = NoTask /\ task[t].pc = "none" /\ task[t].sess = NoSession
                           /\ task[t].cause = "Forced"
    BY TaskValues
  <1>3. NamesInv /\ RegisteredInv /\ CloseInv
    BY <1>2 DEF NamesInv, RegisteredInv, CloseInv
  <1>4. \A t \in TaskIds : TaskInv(t)
    BY <1>2 DEF TaskInv, Ending, Working, Taking
  <1>5. \A o \in Ops : CallerInv(o)
    BY <1>2, TaskNames DEF CallerInv, Starting, Hands
  <1>6. /\ \A s \in SessionIds : OwnerInv(s)
        /\ OneSupervisorPerPrefix /\ LeaseProtectsSession
    BY DEF OwnerInv, OneSupervisorPerPrefix, LeaseProtectsSession
  <1>7. RequestInv
    <2>1. \A s \in SessionIds : {o \in Ops : reqOf[o] = s /\ req[o] = "running"} = {}
      OBVIOUS
    <2> QED BY <2>1, FS_EmptySet DEF RequestInv, ActiveIsExact
  <1> QED BY <1>1, <1>3, <1>4, <1>5, <1>6, <1>7 DEF SessionInv

(* The inductive invariant of RunnerSessionRegistry: names, locks, owners, leases and
   counts fit together after any interleaving of callers, shutdown tasks, timers and
   dying supervisors. *)
THEOREM RegistryInvariant == Spec => [](SessionInv /\ RequestInv)
  <1>1. Init => SessionInv /\ RequestInv
    BY RegistryInit
  <1>2. (SessionInv /\ RequestInv) /\ [Next]_vars => (SessionInv /\ RequestInv)'
    <2> SUFFICES ASSUME SessionInv, RequestInv, [Next]_vars PROVE SessionInv' /\ RequestInv'
      OBVIOUS
    <2>1. CASE Next
      BY <2>1, RegistryStep
    <2>2. CASE UNCHANGED vars
      <3>1. /\ UNCHANGED <<lock, known, sessions, closing, census, born, prefixOf, runnerOf,
                           planOf, state, opLeases, clientLeases, fresh, checks, bumps>>
            /\ UNCHANGED <<active, child, sup, link, pc, mine, req, reqOf, task>>
        BY <2>2 DEF vars, registryVars, bornVars, leaseVars, idleVars, supVars, reqVars, opVars
      <3>2. TypeOK'
        BY <3>1 DEF SessionInv, TypeOK
      <3>3. SessionInv'
        BY <3>1, <3>2, QuietStep
      <3>4. RequestInv'
        BY <3>1 DEF RequestInv, ActiveIsExact
      <3> QED BY <3>3, <3>4
    <2> QED BY <2>1, <2>2
  <1> QED BY <1>1, <1>2, PTL DEF Spec

(* Every variable of the registry keeps its type (registry.rs, RunnerSessionInner). *)
THEOREM RegistryTypeCorrect == Spec => []TypeOK
  <1>1. SessionInv => TypeOK
    BY DEF SessionInv
  <1> QED BY <1>1, RegistryInvariant, PTL

(* At most one ro-sessiond runs per Wine prefix, whatever is cancelled, killed or timed
   out (begin_operation_opt, shutdown_session, fail_session). *)
THEOREM OneSupervisorAlways == Spec => []OneSupervisorPerPrefix
  <1>1. SessionInv => OneSupervisorPerPrefix
    BY DEF SessionInv
  <1> QED BY <1>1, RegistryInvariant, PTL

(* A session in use is not stopped before the launcher closes (the re-validation of
   shutdown_session under the startup lock). *)
THEOREM LeasesAlwaysProtect == Spec => []LeaseProtectsSession
  <1>1. SessionInv => LeaseProtectsSession
    BY DEF SessionInv
  <1> QED BY <1>1, RegistryInvariant, PTL

(* Every live supervisor has an owner that will end it, and none survives the tasks of
   shutdown_all_owned but those of startups that are being unwound. *)
THEOREM SupervisorsAlwaysOwned == Spec => []SupervisorsAreOwned
  <1>1. SessionInv => SupervisorsAreOwned
    <2> SUFFICES ASSUME SessionInv, NEW s \in SessionIds, sup[s] = "up"
                 PROVE  /\ \/ sessions[prefixOf[s]] = s
                           \/ \E o \in Ops : /\ mine[o] = s
                                             /\ pc[o] \in {"handshake", "insert", "unwind"}
                                             /\ lock[OpPrefix[o]] = Starter(o)
                           \/ Taken(s)
                        /\ census /\ (\A p \in Prefixes :
                                         task[CloseTask(p)].pc \in {"none", "ok", "error"}) =>
                             \/ \E o \in Ops : mine[o] = s /\ pc[o] \in {"handshake", "unwind"}
                             \/ \E t \in TaskIds : task[t].sess = s /\ task[t].handle
      BY DEF SupervisorsAreOwned, NoOrphanSupervisor, ClosedIsDrained, Taken, Taking
    <2> USE DEF SessionInv
    <2>1. prefixOf[s] \in Prefixes
      BY DEF NamesInv
    <2>2. \A o \in Ops : pc[o] \in {"handshake", "insert", "unwind"} =>
                            lock[OpPrefix[o]] = Starter(o)
      BY DEF CallerInv, Starting
    <2>3. census /\ (\A p \in Prefixes : task[CloseTask(p)].pc \in {"none", "ok", "error"}) =>
             sessions[prefixOf[s]] # s /\ \A o \in Ops : pc[o] # "insert"
      BY <2>1, OpsAssumption DEF CloseInv, Ending, NoInsert, NoSession, SessionIds
    <2> QED BY <2>2, <2>3 DEF OwnerInv, Taken
  <1> QED BY <1>1, RegistryInvariant, PTL

(* active_requests is the number of controllers that run, as long as the pipe is sound
   (on_launch_accepted and on_controller_exited). *)
THEOREM ActiveAlwaysExact == Spec => []ActiveIsExact
  <1>1. RequestInv => ActiveIsExact
    BY DEF RequestInv
  <1> QED BY <1>1, RegistryInvariant, PTL
============================================================
