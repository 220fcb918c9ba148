--------------------------- MODULE SupervisorProofs ---------------------------
(***************************************************************************)
(* Theorems on Supervisor: for any users, hosts, callers and number of     *)
(* events, one host runs, a restart starts no second one, calls wait on    *)
(* the current host and the reported state is the supervisor's own.        *)
(***************************************************************************)
EXTENDS Supervisor, TLAPS

Kinds(q) == {q[i].kind : i \in 1..Len(q)}

\* What OneHost says beyond the types.
Alone == \A h \in Hosts : Lives(h) /\ ~host[h].told => h = current

\* The calls `cs` that are out wait on h, and there is an h.
Reach(cs, h) == \A c \in Callers : cs[c].at = "calling" => cs[c].host = h /\ h # None

\* The tasks: one runs, a revocation names a host, one of quitting has its flag.
Queued ==
  /\ task.at # "none" => queue # <<>>
  /\ \A i \in 1..Len(queue) : queue[i].kind = "revoked" => queue[i].who \in Hosts
  /\ "quit" \in Kinds(queue) => quitting

\* The task awaits the stores, or has their answer.
Asking == task.at \in {"demand", "wanted", "unwanted"}

\* The current child, at the awaits of a task: only the one a task stops was
\* told to, and none is there when one is about to be forked.
Running ==
  /\ current # None => Exists(current) /\ host[current].blob \in Blob
  /\ current # None /\ host[current].told => task.at = "stop" /\ task.host = current
  /\ task.at = "prepare" => task.blob \in Blob /\ current = None /\ ~stuck /\ "retry" \notin timers
  /\ task.at = "stop" /\ Head(queue).kind # "revoked" => current \in {None, task.host}
  /\ Asking /\ Head(queue).kind = "evaluate" => task.blob \in Blob
  /\ Asking /\ Head(queue).kind = "idle" =>
       task.host \in Hosts /\ current \in {None, task.host}

\* A failure is reported until it is cleared, and no crash is counted meanwhile.
Failed ==
  /\ stuck => report \in Failures \cup {"off"}
  /\ stuck /\ current # None => host[current].proc = "dying" /\ host[current].expected
  /\ crashes = CrashLoop => stuck /\ current = None
  /\ current # None /\ host[current].expected /\ ~host[current].told =>
       host[current].proc = "dying" /\ report \in Failures \cup {"off"}

\* The running task will set right the report of a host that is gone.
Corrects ==
  \/ task.at \in {"stop", "clear"}
  \/ Head(queue).kind = "evaluate" /\ (Asking \/ task.at = "prepare")

\* ReportIsTrue while tasks are under way.
Reported ==
  /\ "retry" \in timers => report \notin {"starting", "running"}
  /\ current # None =>
       /\ report = "running" => host[current].ready
       /\ report = "starting" => ~host[current].ready
       /\ report # "restarting"
  /\ ~quitting =>
       /\ current = None /\ report \in {"starting", "running"} => Corrects
       /\ report = "restarting" => "retry" \in timers \/ "evaluate" \in Kinds(queue)
       /\ report = "off" => current = None \/ signingOut \/ "signOut" \in Kinds(queue)

SupervisorInv ==
  /\ TypeOK /\ Alone /\ RestartsNothingTwice /\ Reach(calls, current)
  /\ Queued /\ Running /\ Failed /\ Reported
-----------------------------------------------------------------------------
\* The tasks, and what is put behind them.

Kind == {"evaluate", "idle", "revoked", "signOut", "quit"}
Tasks == [kind : Kind, who : Hosts \cup Callers \cup {None}]

WellFormed(q) ==
  q \in Seq(Tasks) /\ \A i \in 1..Len(q) : q[i].kind = "revoked" => q[i].who \in Hosts

LEMMA Appended ==
  ASSUME NEW q, WellFormed(q), NEW kind \in Kind, NEW who \in Hosts \cup Callers \cup {None},
         kind = "revoked" => who \in Hosts
  PROVE  /\ WellFormed(Append(q, Task(kind, who))) /\ Append(q, Task(kind, who)) # <<>>
         /\ Kinds(Append(q, Task(kind, who))) = Kinds(q) \cup {kind}
         /\ q # <<>> => Head(Append(q, Task(kind, who))) = Head(q)
<1> DEFINE t == Task(kind, who)
<1>1. t \in Tasks /\ t.kind = kind /\ t.who = who
  BY DEF Task, Tasks, Kind
<1>2. q \in Seq(Tasks)
  BY DEF WellFormed
<1> HIDE DEF t
<1>3. /\ Append(q, t) \in Seq(Tasks) /\ Len(Append(q, t)) = Len(q) + 1 /\ Len(q) \in Nat
      /\ \A i \in 1..Len(q) : Append(q, t)[i] = q[i]
      /\ Append(q, t)[Len(q) + 1] = t
  BY <1>1, <1>2
<1>4. Kinds(Append(q, t)) = Kinds(q) \cup {kind}
  BY <1>1, <1>3 DEF Kinds
<1>5. WellFormed(Append(q, t))
  BY <1>1, <1>3 DEF WellFormed
<1>6. q # <<>> => Head(Append(q, t)) = Head(q)
  BY <1>1, <1>2, <1>3
<1>7. QED BY <1>3, <1>4, <1>5, <1>6 DEF t

LEMMA Dropped ==
  ASSUME NEW q, WellFormed(q), q # <<>>
  PROVE  /\ WellFormed(Tail(q))
         /\ Kinds(q) = {Head(q).kind} \cup Kinds(Tail(q))
         /\ Head(q) \in Tasks
         /\ Head(q).kind = "revoked" => Head(q).who \in Hosts
<1>1. q \in Seq(Tasks) /\ Len(q) \in Nat \ {0}
  BY DEF WellFormed
<1>2. /\ Tail(q) \in Seq(Tasks) /\ Len(Tail(q)) = Len(q) - 1
      /\ \A i \in 1..Len(Tail(q)) : Tail(q)[i] = q[i + 1]
      /\ Head(q) = q[1] /\ q[1] \in Tasks
  BY <1>1
<1>3. Kinds(q) = {q[1].kind} \cup {q[i].kind : i \in 2..Len(q)}
  BY <1>1 DEF Kinds
<1>4. {q[i].kind : i \in 2..Len(q)} = Kinds(Tail(q))
  <2>1. \A i \in 2..Len(q) : i - 1 \in 1..Len(Tail(q)) /\ Tail(q)[i - 1] = q[i]
    BY <1>1, <1>2
  <2>2. \A i \in 1..Len(Tail(q)) : i + 1 \in 2..Len(q)
    BY <1>1, <1>2
  <2>3. QED BY <1>2, <2>1, <2>2 DEF Kinds
<1>5. WellFormed(Tail(q))
  BY <1>1, <1>2 DEF WellFormed
<1>6. q[1].kind = "revoked" => q[1].who \in Hosts
  BY <1>1 DEF WellFormed
<1>7. QED BY <1>2, <1>3, <1>4, <1>5, <1>6

LEMMA NoTasks ==
  ASSUME NEW q \in Seq(Tasks)
  PROVE  q = <<>> <=> Kinds(q) = {}
<1>1. q # <<>> => 1 \in 1..Len(q)
  OBVIOUS
<1>2. q = <<>> => 1..Len(q) = {}
  OBVIOUS
<1>3. QED BY <1>1, <1>2 DEF Kinds

\* q is the queue, or it and another evaluation.
Followed(old, q) ==
  /\ WellFormed(q) /\ Kinds(old) \subseteq Kinds(q) /\ Kinds(q) \subseteq Kinds(old) \cup {"evaluate"}
  /\ old # <<>> => q # <<>> /\ Head(q) = Head(old)

LEMMA Settles ==
  ASSUME NEW q, WellFormed(q), NEW cs
  PROVE  Followed(q, Settling(q, cs)) /\ Followed(q, Ensured(q))
<1>1. Followed(q, Ensured(q))
  BY Appended DEF Ensured, Followed, Kind
<1>2. QED BY <1>1 DEF Settling, Followed
-----------------------------------------------------------------------------
\* The calls.

CallRecord == [at : {"idle", "queued", "waiting", "calling"},
          user : CallFor \cup {Anyone}, host : Hosts \cup {None}]
CallsOK(cs) == cs \in [Callers -> CallRecord]

LEMMA GoesThrough ==
  ASSUME current' \in Hosts \cup {None}, NEW call \in CallRecord
  PROVE  /\ Through(call) \in CallRecord
         /\ Through(call).at = "calling" => Through(call).host = current' /\ current' # None
BY DEF Through, CallRecord, Settled

LEMMA Resolves ==
  ASSUME current' \in Hosts \cup {None}, NEW cs, CallsOK(cs), Reach(cs, current'), NEW next
  PROVE  CallsOK(Resolve(cs, next)) /\ Reach(Resolve(cs, next), current')
<1>1. ASSUME NEW c \in Callers
      PROVE  /\ Resolve(cs, next)[c] \in CallRecord
             /\ Resolve(cs, next)[c].at = "calling" =>
                  Resolve(cs, next)[c].host = current' /\ current' # None
  <2>1. cs[c] \in CallRecord
    BY DEF CallsOK
  <2>2. Resolve(cs, next)[c] \in {Through(cs[c]), Settled, cs[c]}
    BY DEF Resolve
  <2>3. Settled \in CallRecord /\ Settled.at # "calling"
    BY DEF Settled, CallRecord
  <2>4. QED BY <2>1, <2>2, <2>3, GoesThrough DEF Reach
<1>2. QED BY <1>1 DEF Resolve, CallsOK, Reach

LEMMA FailsAll ==
  ASSUME CallsOK(calls), Reach(calls, current), NEW h
  PROVE  /\ CallsOK(FailAll(h)) /\ Reach(FailAll(h), current)
         /\ current = h => \A new : Reach(FailAll(h), new)
BY DEF FailAll, CallsOK, Reach, Settled, CallRecord

\* A task ends.
LEMMA Ends ==
  ASSUME WellFormed(queue), queue # <<>>, current' \in Hosts \cup {None},
         NEW cs, CallsOK(cs), Reach(cs, current'), NEW next, EndTask(next, cs)
  PROVE  /\ report' = next /\ task' = NotBegun
         /\ CallsOK(calls') /\ Reach(calls', current')
         /\ Followed(Tail(queue), queue')
         /\ Kinds(queue) \subseteq {Head(queue).kind} \cup Kinds(queue')
         /\ Kinds(queue') \subseteq Kinds(queue) \cup {"evaluate"}
<1> DEFINE who == Head(queue).who
           resolved == Resolve(cs, next)
           goesOn(call) == IF (current' = None \/ ~host'[current'].ready) /\ next \in Pending
                            THEN [call EXCEPT !.at = "waiting"] ELSE Through(call)
<1>1. CallsOK(resolved) /\ Reach(resolved, current')
  BY Resolves
<1>2. calls' = IF who \in Callers THEN [resolved EXCEPT ![who] = goesOn(@)] ELSE resolved
  BY DEF EndTask
<1>3. \A c \in Callers : /\ goesOn(resolved[c]) \in CallRecord
                         /\ goesOn(resolved[c]).at = "calling" =>
                              goesOn(resolved[c]).host = current' /\ current' # None
  <2> SUFFICES ASSUME NEW c \in Callers
               PROVE  /\ goesOn(resolved[c]) \in CallRecord
                      /\ goesOn(resolved[c]).at = "calling" =>
                           goesOn(resolved[c]).host = current' /\ current' # None
    OBVIOUS
  <2>1. resolved[c] \in CallRecord
    BY <1>1 DEF CallsOK
  <2>2. [resolved[c] EXCEPT !.at = "waiting"] \in CallRecord /\ [resolved[c] EXCEPT !.at = "waiting"].at = "waiting"
    BY <2>1 DEF CallRecord
  <2>3. QED BY <2>1, <2>2, GoesThrough
<1> HIDE DEF resolved, goesOn, who
<1>4. CallsOK(calls') /\ Reach(calls', current')
  BY <1>1, <1>2, <1>3 DEF CallsOK, Reach
<1>5. report' = next /\ task' = NotBegun /\ queue' = Settling(Tail(queue), calls')
  BY DEF EndTask
<1>6. WellFormed(Tail(queue)) /\ Kinds(queue) = {Head(queue).kind} \cup Kinds(Tail(queue))
  BY Dropped
<1>7. Followed(Tail(queue), queue')
  BY <1>5, <1>6, Settles
<1>8. QED BY <1>4, <1>5, <1>6, <1>7 DEF Followed

\* A task gets to an await.
LEMMA Goes ==
  ASSUME WellFormed(queue), queue # <<>>, NEW cs, CallsOK(cs), Reach(cs, current'),
         NEW at, NEW h, NEW blob, GoTo(at, h, blob, cs)
  PROVE  /\ report' = report /\ task' = [at |-> at, host |-> h, blob |-> blob]
         /\ CallsOK(calls') /\ Reach(calls', current') /\ Followed(queue, queue')
BY Settles DEF GoTo

\* A state is reported outside the queue.
LEMMA States ==
  ASSUME current' \in Hosts \cup {None}, NEW cs, CallsOK(cs), Reach(cs, current'),
         NEW next, NEW q, WellFormed(q), SetState(next, cs, q)
  PROVE  report' = next /\ CallsOK(calls') /\ Reach(calls', current') /\ Followed(q, queue')
BY Resolves, Settles DEF SetState
-----------------------------------------------------------------------------
\* The host processes.

HostRecord == [proc : {"gone", "opening", "open", "dying"}, blob : Blob \cup {None},
               ready : BOOLEAN, told : BOOLEAN, expected : BOOLEAN, revoked : BOOLEAN]

LEMMA Types ==
  ASSUME TypeOK, Queued
  PROVE  /\ WellFormed(queue) /\ CallsOK(calls)
         /\ host \in [Hosts -> HostRecord] /\ current \in Hosts \cup {None} /\ None \notin Hosts
BY SupervisorAssumption
   DEF TypeOK, Queued, WellFormed, CallsOK, CallRecord, Tasks, Kind, HostRecord

\* A child that is killed runs no longer, and no call waits on it.
LEMMA Kills ==
  ASSUME SupervisorInv, NEW h, KillChild(h)
  PROVE  /\ host' \in [Hosts -> HostRecord] /\ current' = IF current = h THEN None ELSE current
         /\ \A g \in Hosts \ {h} : host'[g] = host[g]
         /\ Alone'
         /\ CallsOK(FailAll(h)) /\ Reach(FailAll(h), current')
<1>1. /\ host \in [Hosts -> HostRecord] /\ current \in Hosts \cup {None} /\ None \notin Hosts
      /\ CallsOK(calls)
  BY Types DEF SupervisorInv
<1>2. host' \in [Hosts -> HostRecord] /\ \A g \in Hosts \ {h} : host'[g] = host[g]
  BY <1>1 DEF KillChild, HostRecord
<1>3. h \in Hosts => host'[h].proc \in {"gone", "dying"}
  BY <1>1 DEF KillChild, Exists, HostRecord
<1>4. current' = IF current = h THEN None ELSE current
  BY DEF KillChild
<1>5. Alone'
  BY <1>1, <1>2, <1>3, <1>4 DEF SupervisorInv, Alone, Lives
<1>6. CallsOK(FailAll(h)) /\ Reach(FailAll(h), current')
  BY <1>1, <1>4, FailsAll DEF SupervisorInv
<1>7. QED BY <1>2, <1>4, <1>5, <1>6

\* The wait for a child to stop is over, and the task ends.
LEMMA StopEnds ==
  ASSUME SupervisorInv, queue # <<>>, task.at = "stop", Head(queue).kind # "revoked",
         KillChild(task.host), timers' = TimersWithout(task.host),
         UNCHANGED <<session, flags, events>>,
         \/ UNCHANGED record
         \/ stuck' = FALSE /\ lastUser' = None /\ crashes' = 0,
         NEW next, next = "off" \/ (next = report /\ quitting),
         EndTask(next, FailAll(task.host))
  PROVE  SupervisorInv'
<1>1. WellFormed(queue) /\ current' = None
  BY Types, Kills DEF SupervisorInv, Running, Asking
<1>2. /\ report' = next /\ task' = NotBegun
      /\ CallsOK(calls') /\ Reach(calls', current') /\ WellFormed(queue')
      /\ Kinds(queue') \subseteq Kinds(queue) \cup {"evaluate"}
  BY <1>1, Kills, Ends DEF Followed
<1>3. timers' \subseteq timers
  BY DEF TimersWithout
<1>4. TypeOK'
  <2>1. host' \in [Hosts -> HostRecord]
    BY Kills
  <2>2. task' \in [at : {"none", "vault", "demand", "wanted", "unwanted", "prepare", "stop", "clear"},
                   host : Hosts \cup {None}, blob : Blob \cup {None}]
    BY <1>2 DEF NotBegun
  <2>3. report' \in Reports
    BY <1>2 DEF SupervisorInv, TypeOK, Reports
  <2>4. crashes' \in 0..CrashLoop /\ lastUser' \in Users \cup {None} /\ stuck' \in BOOLEAN
    <3>1. CASE UNCHANGED record
      BY <3>1 DEF SupervisorInv, TypeOK, record
    <3>2. CASE stuck' = FALSE /\ lastUser' = None /\ crashes' = 0
      <4>1. 0 \in 0..CrashLoop
        BY SupervisorAssumption
      <4>2. stuck' \in BOOLEAN
        BY <3>2
      <4>3. QED BY <3>2, <4>1, <4>2
    <3>3. QED BY <3>1, <3>2
  <2>5. QED
    BY <1>1, <1>2, <1>3, <2>1, <2>2, <2>3, <2>4
       DEF SupervisorInv, TypeOK, WellFormed, CallsOK, CallRecord, Tasks, Kind, HostRecord,
           session, record, flags, work
<1>5. Queued' /\ Running'
  BY <1>1, <1>2 DEF SupervisorInv, Queued, Running, WellFormed, NotBegun, flags, Asking
<1>6. Failed' /\ RestartsNothingTwice'
  BY <1>1, <1>2, SupervisorAssumption DEF SupervisorInv, Failed, RestartsNothingTwice, record
<1>7. Reported'
  BY <1>1, <1>2, <1>3 DEF SupervisorInv, Reported, flags, session, TypeOK, work
<1>8. QED BY <1>2, <1>4, <1>5, <1>6, <1>7, Kills DEF SupervisorInv

\* A child is told to stop: the current one, or one that was revoked.
LEMMA StopBegins ==
  ASSUME SupervisorInv, queue # <<>>, task.at \in {"none", "vault"} \/ Asking,
         NEW h \in Hosts, NEW blob \in Blob \cup {None}, BeginStop(h, blob), current' = current,
         Head(queue).kind = "revoked" \/ current \in {None, h},
         \/ timers' = timers
         \/ timers' = timers \ {"retry"} /\ current # None,
         UNCHANGED <<session, flags, events>>,
         lastUser' \in Users \cup {None},
         \/ stuck' = stuck /\ crashes' = crashes
         \/ stuck' = FALSE /\ crashes' = 0
  PROVE  SupervisorInv'
<1>1. /\ WellFormed(queue) /\ CallsOK(calls) /\ host \in [Hosts -> HostRecord]
      /\ current \in Hosts \cup {None} /\ None \notin Hosts /\ Reach(calls, current')
  BY Types DEF SupervisorInv
<1>2. /\ report' = report /\ task' = [at |-> "stop", host |-> h, blob |-> blob]
      /\ CallsOK(calls') /\ Reach(calls', current') /\ Followed(queue, queue')
  BY <1>1, Goes DEF BeginStop
<1>3. /\ host' \in [Hosts -> HostRecord]
      /\ \A g \in Hosts \ {h} : host'[g] = host[g]
      /\ host'[h].proc = host[h].proc /\ host'[h].blob = host[h].blob
      /\ host'[h].ready = host[h].ready
      /\ host[h].told => host'[h].told
      /\ host[h].expected => host'[h].expected
      /\ host[h].proc # "gone" => host'[h].told /\ host'[h].expected
  BY <1>1 DEF BeginStop, Exists, HostRecord
<1>4. TypeOK'
  <2>1. task' \in [at : {"none", "vault", "demand", "wanted", "unwanted", "prepare", "stop", "clear"},
                   host : Hosts \cup {None}, blob : Blob \cup {None}]
    BY <1>2
  <2>2. 0 \in 0..CrashLoop
    BY SupervisorAssumption
  <2>3. crashes' \in 0..CrashLoop
    BY <2>2 DEF SupervisorInv, TypeOK
  <2>4. stuck' \in BOOLEAN
    BY DEF SupervisorInv, TypeOK
  <2>5. timers' \subseteq {"retry", "idle", "session"}
    BY DEF SupervisorInv, TypeOK
  <2>6. QED
    BY <1>2, <1>3, <2>1, <2>3, <2>4, <2>5
       DEF SupervisorInv, TypeOK, Followed, WellFormed, CallsOK, CallRecord, Tasks, Kind, HostRecord,
           session, flags, work
<1>5. Alone' /\ RestartsNothingTwice'
  BY <1>1, <1>3 DEF SupervisorInv, Alone, Lives, RestartsNothingTwice
<1>6. Queued'
  BY <1>2 DEF SupervisorInv, Queued, Followed, WellFormed, flags
<1>7. Running'
  BY <1>1, <1>2, <1>3 DEF SupervisorInv, Running, Exists, Followed, Asking
<1>8. Failed'
  BY <1>1, <1>2, <1>3, SupervisorAssumption DEF SupervisorInv, Failed, Running, Exists, Asking
<1>9. Reported'
  BY <1>1, <1>2, <1>3 DEF SupervisorInv, Reported, Followed, Corrects, flags, session, Asking, work
<1>10. QED BY <1>2, <1>4, <1>5, <1>6, <1>7, <1>8, <1>9 DEF SupervisorInv
-----------------------------------------------------------------------------
\* evaluate(), from where it knows its session: `cs` and `ts` are the calls and
\* the timers by then, and the current child has not been told to stop.
Midway(cs, ts) ==
  /\ queue # <<>> /\ Head(queue).kind = "evaluate"
  /\ UNCHANGED <<session, flags, events>>
  /\ host' \in [Hosts -> HostRecord] /\ current' \in Hosts \cup {None} /\ Alone'
  /\ current' # None => /\ host'[current'].proc # "gone" /\ ~host'[current'].told
                        /\ host'[current'].blob \in Blob
  /\ stuck' \in BOOLEAN /\ lastUser' \in Users \cup {None} /\ crashes' \in 0..CrashLoop
  /\ stuck' => report \in Failures \cup {"off"}
  /\ stuck' /\ current' # None => host'[current'].proc = "dying" /\ host'[current'].expected
  /\ crashes' = CrashLoop => stuck' /\ current' = None
  /\ current' # None =>
       /\ host'[current'].expected =>
            host'[current'].proc = "dying" /\ report \in Failures \cup {"off"}
       /\ report = "running" => host'[current'].ready
       /\ report = "starting" => ~host'[current'].ready
       /\ report # "restarting"
  /\ report = "off" => current' = None \/ quitting \/ signingOut \/ "signOut" \in Kinds(queue)
  /\ ts \subseteq {"retry", "idle", "session"}
  /\ "retry" \in ts => current' = None /\ report \notin {"starting", "running"}
  /\ CallsOK(cs) /\ Reach(cs, current')

LEMMA DecideEnds ==
  ASSUME SupervisorInv, NEW cs, NEW ts, Midway(cs, ts), NEW next \in Reports, EndTask(next, cs),
         timers' \subseteq {"retry", "idle", "session"},
         "retry" \in timers' => "retry" \in ts,
         \/ current' # None /\ next = report
         \/ current' = None /\ next \in Failures \cup {"off"}
         \/ current' = None /\ next = report /\ "retry" \in timers'
  PROVE  SupervisorInv'
<1>1. WellFormed(queue)
  BY Types DEF SupervisorInv
<1>2. /\ report' = next /\ task' = NotBegun
      /\ CallsOK(calls') /\ Reach(calls', current') /\ WellFormed(queue')
      /\ Kinds(queue') \subseteq Kinds(queue) \cup {"evaluate"}
      /\ Kinds(queue) \subseteq {"evaluate"} \cup Kinds(queue')
  BY <1>1, Ends DEF Followed, Midway
<1>3. TypeOK'
  <2>1. task' \in [at : {"none", "vault", "demand", "wanted", "unwanted", "prepare", "stop", "clear"},
                   host : Hosts \cup {None}, blob : Blob \cup {None}]
    BY <1>2 DEF NotBegun
  <2>2. QED
    BY <1>2, <2>1
       DEF SupervisorInv, Midway, TypeOK, WellFormed, CallsOK, CallRecord, Tasks, Kind, HostRecord,
           session, flags, work
<1>4. Queued' /\ Running' /\ RestartsNothingTwice'
  BY <1>2
     DEF SupervisorInv, Queued, Running, RestartsNothingTwice, Midway, WellFormed, NotBegun, Exists,
         flags, Asking
<1>5. Failed'
  BY <1>2 DEF Failed, Midway
<1>6. Reported'
  BY <1>2 DEF Reported, Midway, NotBegun, flags, session, Failures, work
<1>7. QED BY <1>2, <1>3, <1>4, <1>5, <1>6 DEF SupervisorInv, Midway

LEMMA DecideGoes ==
  ASSUME SupervisorInv, NEW cs, NEW ts, Midway(cs, ts), timers' = ts, NEW blob \in Blob,
         \/ GoTo("demand", None, blob, cs)
         \/ GoTo("prepare", None, blob, cs) /\ current' = None /\ ~stuck' /\ "retry" \notin ts
  PROVE  SupervisorInv'
<1>1. WellFormed(queue)
  BY Types DEF SupervisorInv
<1>2. /\ report' = report
      /\ \/ task' = [at |-> "demand", host |-> None, blob |-> blob]
         \/ /\ task' = [at |-> "prepare", host |-> None, blob |-> blob]
            /\ current' = None /\ ~stuck' /\ "retry" \notin ts
      /\ CallsOK(calls') /\ Reach(calls', current') /\ Followed(queue, queue')
  BY <1>1, Goes DEF Midway
<1>3. task'.at \in {"demand", "prepare"} /\ Head(queue').kind = "evaluate"
  BY <1>2 DEF Midway, Followed
<1>4. TypeOK'
  <2>1. task' \in [at : {"none", "vault", "demand", "wanted", "unwanted", "prepare", "stop", "clear"},
                   host : Hosts \cup {None}, blob : Blob \cup {None}]
    BY <1>2
  <2>2. QED
    BY <1>2, <2>1
       DEF SupervisorInv, Midway, TypeOK, Followed, WellFormed, CallsOK, CallRecord, Tasks, Kind,
           HostRecord, session, flags, work
<1>5. "evaluate" \in Kinds(queue)
  BY <1>1, Dropped DEF Midway
<1>6. Queued' /\ Running' /\ RestartsNothingTwice'
  BY <1>2, <1>3
     DEF SupervisorInv, Queued, Running, RestartsNothingTwice, Midway, Followed, WellFormed, Exists,
         flags, Asking
<1>7. Failed'
  BY <1>2 DEF Failed, Midway
<1>8. Reported'
  BY <1>2, <1>3, <1>5 DEF Reported, Midway, Followed, Corrects, flags, session, Asking, work
<1>9. QED BY <1>2, <1>4, <1>6, <1>7, <1>8 DEF SupervisorInv, Midway

LEMMA Decides ==
  ASSUME SupervisorInv, NEW cs, NEW ts, Midway(cs, ts), NEW wanted \in BOOLEAN,
         NEW blob \in Blob, Decide(wanted, blob, cs, ts)
  PROVE  SupervisorInv'
<1>1. report \in Reports /\ "off" \in Reports
  BY DEF SupervisorInv, TypeOK, Reports
<1>2. ts \subseteq {"retry", "idle", "session"}
  BY DEF Midway
<1>3. CASE current' # None
  <2>1. timers' \in {ts \ {"idle"}, ts \cup {"idle"}} /\ EndTask(report, cs)
    BY <1>3 DEF Decide
  <2>2. QED BY <1>1, <1>2, <1>3, <2>1, DecideEnds
<1>4. CASE current' = None /\ ~wanted
  <2>1. timers' = ts \ {"retry"} /\ EndTask(IF stuck' THEN report ELSE "off", cs)
    BY <1>4 DEF Decide
  <2>2. (IF stuck' THEN report ELSE "off") \in Failures \cup {"off"}
    BY DEF Midway
  <2>3. QED BY <1>1, <1>2, <1>4, <2>1, <2>2, DecideEnds
<1>5. CASE current' = None /\ wanted
  <2>1. timers' = ts /\ IF stuck' \/ "retry" \in ts THEN EndTask(report, cs)
                                                    ELSE GoTo("prepare", None, blob, cs)
    BY <1>5 DEF Decide
  <2>2. CASE stuck' \/ "retry" \in ts
    <3>1. EndTask(report, cs) /\ (report \in Failures \cup {"off"} \/ "retry" \in timers')
      BY <2>1, <2>2 DEF Midway
    <3>2. QED BY <1>1, <1>2, <1>5, <2>1, <3>1, DecideEnds
  <2>3. CASE ~stuck' /\ "retry" \notin ts
    BY <1>5, <2>1, <2>3, DecideGoes
  <2>4. QED BY <2>2, <2>3
<1>6. QED BY <1>3, <1>4, <1>5

LEMMA Wants ==
  ASSUME SupervisorInv, NEW cs, NEW ts, Midway(cs, ts), NEW blob \in Blob,
         Want(blob, cs, ts)
  PROVE  SupervisorInv'
<1>1. CASE subscribed \/ InFlight(cs)
  <2>1. Decide(TRUE, blob, cs, ts)
    BY <1>1 DEF Want
  <2>2. QED BY <2>1, Decides
<1>2. CASE ~(subscribed \/ InFlight(cs))
  <2>1. GoTo("demand", None, blob, cs) /\ timers' = ts
    BY <1>2 DEF Want
  <2>2. QED BY <2>1, DecideGoes
<1>3. QED BY <1>1, <1>2
-----------------------------------------------------------------------------
\* A task ends, and the children stay as they are.
LEMMA EndsPlainly ==
  ASSUME SupervisorInv, queue # <<>>, task.at # "stop",
         UNCHANGED <<demand, hosts, flags, events>>, noticed' \in {noticed, demand},
         vault' \in Blob \cup {None}, locked' \in BOOLEAN, signingOut' \in BOOLEAN,
         signingOut => signingOut',
         \/ UNCHANGED record
         \/ stuck' = FALSE /\ lastUser' = None /\ crashes' = 0,
         NEW next \in Reports, EndTask(next, calls),
         \/ /\ timers' = timers
            /\ \/ next = report /\ quitting
               \/ next = report /\ Head(queue).kind = "idle" /\ (task.at = "none" \/ Asking)
               \/ next = report /\ current # None /\ Head(queue).kind = "evaluate"
               \/ next = report /\ report = "off" /\ Head(queue).kind = "evaluate"
               \/ next = "keychainLocked"
         \/ timers' \subseteq timers /\ next = "off" /\ (current = None \/ signingOut')
  PROVE  SupervisorInv'
<1>1. WellFormed(queue) /\ CallsOK(calls) /\ current' \in Hosts \cup {None} /\ Reach(calls, current')
  BY Types DEF SupervisorInv, hosts
<1>2. /\ report' = next /\ task' = NotBegun
      /\ CallsOK(calls') /\ Reach(calls', current') /\ WellFormed(queue')
      /\ Kinds(queue') \subseteq Kinds(queue) \cup {"evaluate"}
      /\ Kinds(queue) \subseteq {Head(queue).kind} \cup Kinds(queue')
  BY <1>1, Ends DEF Followed
<1>3. TypeOK'
  <2>1. task' \in [at : {"none", "vault", "demand", "wanted", "unwanted", "prepare", "stop", "clear"},
                   host : Hosts \cup {None}, blob : Blob \cup {None}]
    BY <1>2 DEF NotBegun
  <2>2. 0 \in 0..CrashLoop
    BY SupervisorAssumption
  <2>3. crashes' \in 0..CrashLoop /\ lastUser' \in Users \cup {None}
    BY <2>2 DEF SupervisorInv, TypeOK, record
  <2>4. stuck' \in BOOLEAN
    BY DEF SupervisorInv, TypeOK, record
  <2>5. timers' \subseteq {"retry", "idle", "session"}
    BY DEF SupervisorInv, TypeOK
  <2>6. QED
    BY <1>2, <2>1, <2>3, <2>4, <2>5
       DEF SupervisorInv, TypeOK, WellFormed, CallsOK, CallRecord, Tasks, Kind, hosts, flags
<1>4. Alone' /\ RestartsNothingTwice'
  BY DEF SupervisorInv, Alone, Lives, RestartsNothingTwice, hosts
<1>5. Queued' /\ Running'
  BY <1>2 DEF SupervisorInv, Queued, Running, WellFormed, NotBegun, Exists, flags, hosts, Asking
<1>6. Failed'
  BY <1>2, SupervisorAssumption DEF SupervisorInv, Failed, Failures, record, hosts
<1>7. Reported'
  BY <1>2 DEF SupervisorInv, Reported, Corrects, Failures, Reports, NotBegun, flags, hosts, Asking
<1>8. QED BY <1>2, <1>3, <1>4, <1>5, <1>6, <1>7 DEF SupervisorInv

\* A task gets on to an await, and the children stay as they are.
LEMMA GoesPlainly ==
  ASSUME SupervisorInv, queue # <<>>, task.at # "stop",
         UNCHANGED <<vault, locked, demand, signingOut, hosts, record, flags, timers, events>>,
         noticed' \in {noticed, demand},
         NEW at, NEW h, GoTo(at, h, None, calls),
         \/ at = "vault" /\ h = None /\ task.at = "none"
         \/ at = "demand" /\ h = current /\ current # None /\ task.at = "none"
            /\ Head(queue).kind = "idle"
  PROVE  SupervisorInv'
<1>1. WellFormed(queue) /\ CallsOK(calls) /\ current' \in Hosts \cup {None} /\ Reach(calls, current')
  BY Types DEF SupervisorInv, hosts
<1>2. /\ report' = report /\ task' = [at |-> at, host |-> h, blob |-> None]
      /\ CallsOK(calls') /\ Reach(calls', current') /\ Followed(queue, queue')
  BY <1>1, Goes
<1>3. TypeOK'
  <2>1. task' \in [at : {"none", "vault", "demand", "wanted", "unwanted", "prepare", "stop", "clear"},
                   host : Hosts \cup {None}, blob : Blob \cup {None}]
    BY <1>1, <1>2 DEF hosts
  <2>2. QED
    BY <1>2, <2>1
       DEF SupervisorInv, TypeOK, Followed, WellFormed, CallsOK, CallRecord, Tasks, Kind, hosts,
           flags, session, record, work
<1>4. Alone' /\ RestartsNothingTwice'
  BY DEF SupervisorInv, Alone, Lives, RestartsNothingTwice, hosts
<1>5. Queued' /\ Running'
  BY <1>1, <1>2 DEF SupervisorInv, Queued, Running, Followed, WellFormed, Exists, flags, hosts, Asking
<1>6. Failed'
  BY <1>2, SupervisorAssumption DEF SupervisorInv, Failed, Failures, record, hosts
<1>7. Reported'
  BY <1>2 DEF SupervisorInv, Reported, Corrects, Followed, flags, hosts, session, Asking, work
<1>8. QED BY <1>2, <1>3, <1>4, <1>5, <1>6, <1>7 DEF SupervisorInv
-----------------------------------------------------------------------------
\* Evaluations.

LEMMA EvaluateBeginsKeeps ==
  ASSUME SupervisorInv, EvaluateBegins
  PROVE  SupervisorInv'
<1>1. /\ queue # <<>> /\ task.at = "none" /\ noticed' \in {noticed, demand}
      /\ UNCHANGED <<vault, locked, demand, signingOut, hosts, record, flags, timers, events>>
  BY DEF EvaluateBegins, Runs
<1>2. CASE quitting
  <2>1. EndTask(report, calls) /\ report \in Reports
    BY <1>2 DEF EvaluateBegins, SupervisorInv, TypeOK
  <2>2. vault' \in Blob \cup {None} /\ locked' \in BOOLEAN /\ signingOut' \in BOOLEAN
    BY <1>1 DEF SupervisorInv, TypeOK
  <2>3. QED BY <1>1, <1>2, <2>1, <2>2, EndsPlainly
<1>3. CASE ~quitting
  <2>1. GoTo("vault", None, None, calls)
    BY <1>3 DEF EvaluateBegins
  <2>2. QED BY <1>1, <2>1, GoesPlainly
<1>4. QED BY <1>2, <1>3

LEMMA VaultUnreadableKeeps ==
  ASSUME SupervisorInv, VaultUnreadable
  PROVE  SupervisorInv'
<1> DEFINE next == IF current = None /\ (subscribed \/ InFlight(calls) \/ report # "off")
                     THEN "keychainLocked" ELSE report
<1>1. /\ queue # <<>> /\ task.at = "vault" /\ Head(queue).kind = "evaluate"
      /\ UNCHANGED <<session, hosts, record, flags, timers, events>>
      /\ EndTask(next, calls)
  BY DEF VaultUnreadable, Runs
<1>2. /\ next \in Reports
      /\ \/ next = "keychainLocked"
         \/ next = report /\ (current # None \/ report = "off")
  BY DEF SupervisorInv, TypeOK, Reports, Failures
<1>3. vault' \in Blob \cup {None} /\ locked' \in BOOLEAN /\ signingOut' \in BOOLEAN
  BY <1>1 DEF SupervisorInv, TypeOK, session, work
<1> HIDE DEF next
<1>4. QED BY <1>1, <1>2, <1>3, EndsPlainly DEF session, work

LEMMA VaultEmptyKeeps ==
  ASSUME SupervisorInv, VaultEmpty
  PROVE  SupervisorInv'
<1>1. /\ queue # <<>> /\ task.at = "vault" /\ Head(queue).kind = "evaluate"
      /\ UNCHANGED <<session, current, record, flags, events>> /\ timers' = timers \ {"retry"}
  BY DEF VaultEmpty, Runs
<1>2. current \in Hosts \cup {None}
  BY DEF SupervisorInv, TypeOK
<1>3. CASE current # None
  <2>1. BeginStop(current, None)
    BY <1>3 DEF VaultEmpty
  <2>2. lastUser' \in Users \cup {None} /\ stuck' = stuck /\ crashes' = crashes
    BY <1>1 DEF SupervisorInv, TypeOK, record
  <2>3. QED BY <1>1, <1>2, <1>3, <2>1, <2>2, StopBegins
<1>4. CASE current = None
  <2>1. UNCHANGED hosts /\ EndTask("off", calls) /\ "off" \in Reports
    BY <1>1, <1>4 DEF VaultEmpty, hosts, Reports
  <2>2. vault' \in Blob \cup {None} /\ locked' \in BOOLEAN /\ signingOut' \in BOOLEAN
    BY <1>1 DEF SupervisorInv, TypeOK, session, work
  <2>3. timers' \subseteq timers
    BY <1>1
  <2>4. QED BY <1>1, <1>4, <2>1, <2>2, <2>3, EndsPlainly DEF session, work
<1>5. QED BY <1>3, <1>4

LEMMA VaultReadKeeps ==
  ASSUME SupervisorInv, VaultRead
  PROVE  SupervisorInv'
<1>1. /\ queue # <<>> /\ task.at = "vault" /\ Head(queue).kind = "evaluate"
      /\ UNCHANGED <<session, current, flags, events>> /\ vault # None
      /\ lastUser' = vault.user
      /\ stuck' = (stuck /\ lastUser' = lastUser)
      /\ crashes' = IF lastUser' = lastUser THEN crashes ELSE 0
  BY DEF VaultRead, Runs
<1>2. current \in Hosts \cup {None} /\ vault \in Blob /\ lastUser' \in Users \cup {None}
  BY <1>1 DEF SupervisorInv, TypeOK, Blob
<1>3. \/ stuck' = stuck /\ crashes' = crashes
      \/ stuck' = FALSE /\ crashes' = 0
  <2>1. stuck \in BOOLEAN
    BY DEF SupervisorInv, TypeOK
  <2>2. CASE lastUser' = lastUser
    BY <1>1, <2>1, <2>2
  <2>3. CASE lastUser' # lastUser
    BY <1>1, <2>1, <2>3
  <2>4. QED BY <2>2, <2>3
<1>4. CASE current # None /\ host[current].blob # vault
  <2>1. BeginStop(current, vault) /\ timers' = timers
    BY <1>4 DEF VaultRead
  <2>2. QED BY <1>1, <1>2, <1>3, <1>4, <2>1, StopBegins
<1>5. CASE ~(current # None /\ host[current].blob # vault)
  <2>1. host' = host /\ Want(vault, calls, timers)
    BY <1>5 DEF VaultRead
  <2>2. 0 \in 0..CrashLoop /\ 0 # CrashLoop
    BY SupervisorAssumption
  <2>3. stuck' \in BOOLEAN /\ crashes' \in 0..CrashLoop
    BY <1>3, <2>2 DEF SupervisorInv, TypeOK
  <2>4. host' \in [Hosts -> HostRecord] /\ CallsOK(calls) /\ Reach(calls, current') /\ Alone'
    BY <1>1, <2>1, Types DEF SupervisorInv, Alone, Lives
  <2>5. Midway(calls, timers)
    BY <1>1, <1>2, <1>3, <2>1, <2>2, <2>3, <2>4
       DEF Midway, SupervisorInv, Running, Failed, Reported, RestartsNothingTwice, TypeOK, Exists, Asking
  <2>6. QED BY <1>2, <2>1, <2>5, Wants
<1>6. QED BY <1>4, <1>5

LEMMA EvaluateStoppedKeeps ==
  ASSUME SupervisorInv, EvaluateStopped
  PROVE  SupervisorInv'
<1>1. /\ queue # <<>> /\ task.at = "stop" /\ Head(queue).kind = "evaluate"
      /\ UNCHANGED <<session, record, flags, events>> /\ KillChild(task.host)
  BY DEF EvaluateStopped, Runs
<1>2. CASE task.blob = None
  <2>1. timers' = TimersWithout(task.host) /\ EndTask("off", FailAll(task.host))
    BY <1>2 DEF EvaluateStopped
  <2>2. QED BY <1>1, <2>1, StopEnds
<1>3. CASE task.blob # None
  <2> DEFINE cs == FailAll(task.host)
             ts == TimersWithout(task.host)
  <2>1. Want(task.blob, cs, ts)
    BY <1>3 DEF EvaluateStopped
  <2>2. task.blob \in Blob
    BY <1>3 DEF SupervisorInv, TypeOK
  <2>3. current' = None
    BY <1>1, Kills DEF SupervisorInv, Running, Asking
  <2>4. ts \subseteq timers
    BY DEF TimersWithout
  <2>5. host' \in [Hosts -> HostRecord] /\ CallsOK(cs) /\ Reach(cs, current') /\ Alone'
    BY <1>1, Kills
  <2> HIDE DEF cs, ts
  <2>6. stuck' = stuck /\ lastUser' = lastUser /\ crashes' = crashes
    BY <1>1 DEF record
  <2>7. Midway(cs, ts)
    BY <1>1, <2>3, <2>4, <2>5, <2>6
       DEF Midway, SupervisorInv, Failed, Reported, TypeOK
  <2>8. QED BY <2>1, <2>2, <2>7, Wants
<1>4. QED BY <1>2, <1>3

LEMMA DemandReadKeeps ==
  ASSUME SupervisorInv, DemandRead
  PROVE  SupervisorInv'
<1>1. /\ queue # <<>> /\ task.at = "demand" /\ Head(queue).kind \in {"evaluate", "idle"}
      /\ UNCHANGED <<session, hosts, report, record, flags, timers, calls, queue, events>>
      /\ task' = [task EXCEPT !.at = task'.at] /\ task'.at \in {"wanted", "unwanted"}
  <2>1. task \in [at : {"none", "vault", "demand", "wanted", "unwanted", "prepare", "stop", "clear"},
                  host : Hosts \cup {None}, blob : Blob \cup {None}]
    BY DEF SupervisorInv, TypeOK
  <2>2. PICK at \in {"wanted", "unwanted"} : task' = [task EXCEPT !.at = at]
    BY DEF DemandRead
  <2>3. task'.at = at
    BY <2>1, <2>2
  <2>4. QED BY <2>2, <2>3 DEF DemandRead, Runs
<1>2. /\ task'.host = task.host /\ task'.blob = task.blob
      /\ task' \in [at : {"none", "vault", "demand", "wanted", "unwanted", "prepare", "stop", "clear"},
                    host : Hosts \cup {None}, blob : Blob \cup {None}]
  BY <1>1 DEF SupervisorInv, TypeOK
<1>3. TypeOK'
  BY <1>1, <1>2 DEF SupervisorInv, TypeOK, session, work, hosts, record, flags
<1>4. Alone' /\ RestartsNothingTwice' /\ Reach(calls', current')
  BY <1>1 DEF SupervisorInv, Alone, Lives, RestartsNothingTwice, Reach, hosts
<1>5. Queued' /\ Failed'
  BY <1>1 DEF SupervisorInv, Queued, Kinds, Failed, hosts, record, flags
<1>6. Running'
  BY <1>1, <1>2 DEF SupervisorInv, Running, Asking, Exists, hosts, record
<1>7. Reported'
  BY <1>1 DEF SupervisorInv, Reported, Corrects, Asking, Kinds, hosts, session, flags
<1>8. QED BY <1>3, <1>4, <1>5, <1>6, <1>7 DEF SupervisorInv

LEMMA DemandDecidesKeeps ==
  ASSUME SupervisorInv, DemandDecides
  PROVE  SupervisorInv'
<1>1. /\ queue # <<>> /\ task.at \in {"wanted", "unwanted"} /\ Head(queue).kind = "evaluate"
      /\ UNCHANGED <<session, hosts, record, flags, events>>
      /\ Decide(task.at = "wanted", task.blob, calls, timers)
  BY DEF DemandDecides, Runs
<1>2. task.blob \in Blob /\ (task.at = "wanted") \in BOOLEAN
  BY <1>1 DEF SupervisorInv, Running, Asking
<1>3. host' \in [Hosts -> HostRecord] /\ CallsOK(calls) /\ Reach(calls, current') /\ Alone'
  BY <1>1, Types DEF SupervisorInv, Alone, Lives, hosts
<1>4. /\ stuck' = stuck /\ lastUser' = lastUser /\ crashes' = crashes
      /\ host' = host /\ current' = current
  BY <1>1 DEF record, hosts
<1>5. Midway(calls, timers)
  BY <1>1, <1>3, <1>4
     DEF Midway, SupervisorInv, Running, Asking, Failed, Reported, RestartsNothingTwice, TypeOK, Exists
<1>6. QED BY <1>1, <1>2, <1>5, Decides

\* A start that comes to nothing.
LEMMA StartEnds ==
  ASSUME SupervisorInv, queue # <<>>, Head(queue).kind = "evaluate", task.at = "prepare",
         UNCHANGED <<session, hosts, lastUser, flags>>, Event,
         stuck' \in BOOLEAN, crashes' \in 0..CrashLoop, crashes' = CrashLoop => stuck',
         NEW next, EndTask(next, calls),
         \/ next \in Failures /\ timers' = timers
         \/ next = "restarting" /\ ~stuck' /\ timers' = timers \cup {"retry"}
  PROVE  SupervisorInv'
<1>1. WellFormed(queue) /\ CallsOK(calls) /\ current' \in Hosts \cup {None} /\ Reach(calls, current')
  BY Types DEF SupervisorInv, hosts
<1>2. /\ report' = next /\ task' = NotBegun
      /\ CallsOK(calls') /\ Reach(calls', current') /\ WellFormed(queue')
      /\ Kinds(queue') \subseteq Kinds(queue) \cup {"evaluate"}
  BY <1>1, Ends DEF Followed
<1>3. current' = None /\ current = None /\ "retry" \notin timers
  BY DEF SupervisorInv, Running, hosts, Asking
<1>4. TypeOK'
  <2>1. task' \in [at : {"none", "vault", "demand", "wanted", "unwanted", "prepare", "stop", "clear"},
                   host : Hosts \cup {None}, blob : Blob \cup {None}]
    BY <1>2 DEF NotBegun
  <2>2. events' \in 0..MaxEvents
    <3>1. events \in Nat /\ events < MaxEvents /\ events' = events + 1
      BY DEF SupervisorInv, TypeOK, Event
    <3>2. MaxEvents \in Nat
      BY SupervisorAssumption
    <3>3. QED BY <3>1, <3>2
  <2>3. next \in Reports
    BY DEF Reports
  <2>4. QED
    BY <1>2, <2>1, <2>2, <2>3
       DEF SupervisorInv, TypeOK, WellFormed, CallsOK, CallRecord, Tasks, Kind, hosts, flags, session, work
<1>5. Alone' /\ RestartsNothingTwice'
  BY <1>3 DEF SupervisorInv, Alone, Lives, RestartsNothingTwice, hosts
<1>6. Queued' /\ Running'
  BY <1>2, <1>3 DEF SupervisorInv, Queued, Running, WellFormed, NotBegun, flags, Asking
<1>7. Failed' /\ Reported'
  BY <1>2, <1>3 DEF Failed, Reported, Failures
<1>8. QED BY <1>2, <1>4, <1>5, <1>6, <1>7 DEF SupervisorInv

LEMMA AddonAbsentKeeps ==
  ASSUME SupervisorInv, AddonAbsent
  PROVE  SupervisorInv'
<1>1. /\ queue # <<>> /\ Head(queue).kind = "evaluate" /\ task.at = "prepare"
      /\ Event /\ stuck' = TRUE /\ UNCHANGED <<session, hosts, lastUser, crashes, flags, timers>>
      /\ EndTask("addonMissing", calls)
  BY DEF AddonAbsent, Runs
<1>2. crashes' \in 0..CrashLoop /\ "addonMissing" \in Failures
  BY <1>1 DEF SupervisorInv, TypeOK, Failures
<1>3. stuck' \in BOOLEAN
  BY <1>1
<1>4. QED BY <1>1, <1>2, <1>3, StartEnds

\* A crash that is counted while none of the loop's was.
LEMMA Counted ==
  ASSUME SupervisorInv, ~stuck, CountCrash
  PROVE  /\ stuck' \in BOOLEAN /\ crashes' \in 0..CrashLoop
         /\ crashes' = CrashLoop => stuck'
         /\ IF crashes' >= CrashLoop THEN stuck' /\ CrashReport = "crashLoop" /\ \A ts : CrashTimers(ts) = ts
            ELSE ~stuck' /\ CrashReport = "restarting" /\ \A ts : CrashTimers(ts) = ts \cup {"retry"}
<1>1. crashes \in Nat /\ crashes <= CrashLoop /\ crashes # CrashLoop /\ CrashLoop \in Nat
  BY SupervisorAssumption DEF SupervisorInv, TypeOK, Failed
<1>2. crashes' = crashes + 1
  BY DEF CountCrash
<1>3. crashes' \in 0..CrashLoop /\ (crashes' = CrashLoop <=> crashes' >= CrashLoop)
  BY <1>1, <1>2
<1>4. stuck' = (crashes' >= CrashLoop)
  BY DEF CountCrash
<1>5. stuck' \in BOOLEAN
  BY <1>4
<1>6. QED BY <1>3, <1>4, <1>5 DEF CrashReport, CrashTimers

LEMMA StartFailsKeeps ==
  ASSUME SupervisorInv, StartFails
  PROVE  SupervisorInv'
<1>1. /\ queue # <<>> /\ Head(queue).kind = "evaluate" /\ task.at = "prepare"
      /\ Event /\ CountCrash /\ UNCHANGED <<session, hosts, lastUser, flags>>
      /\ timers' = CrashTimers(timers) /\ EndTask(CrashReport, calls)
  BY DEF StartFails, Runs
<1>2. ~stuck
  BY <1>1 DEF SupervisorInv, Running, Asking
<1>3. CASE crashes' >= CrashLoop
  <2>1. CrashReport = "crashLoop" /\ timers' = timers
    BY <1>1, <1>2, <1>3, Counted
  <2>2. EndTask("crashLoop", calls) /\ "crashLoop" \in Failures
    BY <1>1, <2>1 DEF Failures
  <2>3. QED BY <1>1, <1>2, <2>1, <2>2, Counted, StartEnds
<1>4. CASE ~(crashes' >= CrashLoop)
  <2>1. CrashReport = "restarting" /\ timers' = timers \cup {"retry"} /\ ~stuck'
    BY <1>1, <1>2, <1>4, Counted
  <2>2. EndTask("restarting", calls)
    BY <1>1, <2>1
  <2>3. QED BY <1>1, <1>2, <2>1, <2>2, Counted, StartEnds
<1>5. QED BY <1>3, <1>4

\* The one step that brings a host: there is none, and no restart is due.
LEMMA ForkKeeps ==
  ASSUME SupervisorInv, Fork
  PROVE  SupervisorInv'
<1>1. PICK h \in Hosts :
        /\ ~Exists(h)
        /\ host' = [host EXCEPT ![h] = [Gone EXCEPT !.proc = "opening", !.blob = task.blob]]
        /\ current' = h
  BY DEF Fork
<1>2. /\ queue # <<>> /\ Head(queue).kind = "evaluate" /\ task.at = "prepare"
      /\ UNCHANGED <<session, record, flags, timers, events>> /\ EndTask("starting", calls)
  BY DEF Fork, Runs
<1>3. /\ current = None /\ ~stuck /\ "retry" \notin timers
      /\ WellFormed(queue) /\ CallsOK(calls) /\ host \in [Hosts -> HostRecord] /\ None \notin Hosts
  BY <1>2, Types DEF SupervisorInv, Running, Asking
<1>4. \A c \in Callers : calls[c].at # "calling"
  BY <1>3 DEF SupervisorInv, Reach
<1>5. Reach(calls, current')
  BY <1>4 DEF Reach
<1>6. /\ report' = "starting" /\ task' = NotBegun
      /\ CallsOK(calls') /\ Reach(calls', current') /\ WellFormed(queue')
      /\ Kinds(queue') \subseteq Kinds(queue) \cup {"evaluate"}
  BY <1>1, <1>2, <1>3, <1>5, Ends DEF Followed
<1>7. /\ host' \in [Hosts -> HostRecord] /\ \A g \in Hosts \ {h} : host'[g] = host[g]
      /\ host'[h].proc = "opening" /\ host'[h].ready = FALSE
      /\ host'[h].told = FALSE /\ host'[h].expected = FALSE /\ host'[h].blob \in Blob
  <2>1. task.blob \in Blob
    BY <1>2 DEF SupervisorInv, Running, Asking
  <2> DEFINE new == [Gone EXCEPT !.proc = "opening", !.blob = task.blob]
  <2>2. /\ new \in HostRecord /\ new.proc = "opening" /\ new.ready = FALSE
        /\ new.told = FALSE /\ new.expected = FALSE /\ new.blob \in Blob
    BY <2>1 DEF Gone, HostRecord
  <2>4. host' = [host EXCEPT ![h] = new]
    BY <1>1
  <2> HIDE DEF new
  <2>3. QED BY <1>3, <2>2, <2>4
<1>8. TypeOK'
  <2>1. task' \in [at : {"none", "vault", "demand", "wanted", "unwanted", "prepare", "stop", "clear"},
                   host : Hosts \cup {None}, blob : Blob \cup {None}]
    BY <1>6 DEF NotBegun
  <2>2. QED
    BY <1>1, <1>2, <1>6, <1>7, <2>1
       DEF SupervisorInv, TypeOK, WellFormed, CallsOK, CallRecord, Tasks, Kind, HostRecord, Reports,
           flags, session, record, work
<1>9. Alone' /\ RestartsNothingTwice'
  BY <1>1, <1>2, <1>3, <1>7 DEF SupervisorInv, Alone, Lives, RestartsNothingTwice
<1>10. Queued' /\ Running'
  BY <1>1, <1>2, <1>3, <1>6, <1>7
     DEF SupervisorInv, Queued, Running, WellFormed, NotBegun, Exists, flags, Asking
<1>11. Failed'
  BY <1>1, <1>2, <1>3, <1>6, <1>7 DEF SupervisorInv, Failed, record
<1>12. Reported'
  BY <1>1, <1>2, <1>3, <1>6, <1>7 DEF Reported
<1>13. QED BY <1>6, <1>8, <1>9, <1>10, <1>11, <1>12 DEF SupervisorInv
-----------------------------------------------------------------------------
\* The other tasks.

LEMMA IdleKeeps ==
  ASSUME SupervisorInv, IdleBegins \/ IdleDecides \/ IdleStopped
  PROVE  SupervisorInv'
<1>0. report \in Reports
  BY DEF SupervisorInv, TypeOK
<1>v. UNCHANGED session =>
        vault' \in Blob \cup {None} /\ locked' \in BOOLEAN /\ signingOut' \in BOOLEAN
  BY DEF SupervisorInv, TypeOK, session, work
<1>1. CASE IdleBegins
  <2>1. /\ queue # <<>> /\ task.at = "none" /\ Head(queue).kind = "idle"
        /\ UNCHANGED <<session, hosts, record, flags, timers, events>>
        /\ \/ EndTask(report, calls)
           \/ GoTo("demand", current, None, calls) /\ current # None
    BY <1>1 DEF IdleBegins, Runs
  <2>2. CASE EndTask(report, calls)
    BY <1>0, <1>v, <2>1, <2>2, EndsPlainly DEF session, work
  <2>3. CASE GoTo("demand", current, None, calls) /\ current # None
    BY <2>1, <2>3, GoesPlainly DEF session, work
  <2>4. QED BY <2>1, <2>2, <2>3
<1>2. CASE IdleDecides
  <2>1. /\ queue # <<>> /\ Asking /\ Head(queue).kind = "idle"
        /\ UNCHANGED <<session, current, record, flags, timers, events>>
        /\ \/ UNCHANGED host /\ EndTask(report, calls)
           \/ BeginStop(task.host, None)
    BY <1>2 DEF IdleDecides, Runs, Asking
  <2>2. CASE UNCHANGED host /\ EndTask(report, calls)
    BY <1>0, <1>v, <2>1, <2>2, EndsPlainly DEF session, hosts, work, Asking
  <2>3. CASE BeginStop(task.host, None)
    <3>1. current \in {None, task.host}
      BY <2>1 DEF SupervisorInv, Running, Asking
    <3>2. lastUser' \in Users \cup {None} /\ stuck' = stuck /\ crashes' = crashes
      BY <2>1 DEF SupervisorInv, TypeOK, record
    <3>3. task.host \in Hosts
      BY <2>1 DEF SupervisorInv, Running, Asking
    <3>4. QED BY <2>1, <2>3, <3>1, <3>2, <3>3, StopBegins
  <2>4. QED BY <2>1, <2>2, <2>3
<1>3. CASE IdleStopped
  <2>1. /\ queue # <<>> /\ task.at = "stop" /\ Head(queue).kind = "idle"
        /\ KillChild(task.host) /\ timers' = TimersWithout(task.host)
        /\ UNCHANGED <<session, record, flags, events>> /\ EndTask("off", FailAll(task.host))
    BY <1>3 DEF IdleStopped, Runs
  <2>2. QED BY <2>1, StopEnds
<1>4. QED BY <1>1, <1>2, <1>3

LEMMA RevokedKeeps ==
  ASSUME SupervisorInv, RevokedBegins \/ RevokedStopped \/ RevokedClears
  PROVE  SupervisorInv'
<1>0. WellFormed(queue) /\ CallsOK(calls) /\ None \notin Hosts /\ current \in Hosts \cup {None}
  BY Types DEF SupervisorInv
<1>1. CASE RevokedBegins
  <2>1. /\ queue # <<>> /\ task.at = "none" /\ Head(queue).kind = "revoked"
        /\ UNCHANGED <<session, current, record, flags, timers, events>>
        /\ BeginStop(Head(queue).who, None)
    BY <1>1 DEF RevokedBegins, Runs
  <2>2. Head(queue).who \in Hosts
    BY <1>0, <2>1, Dropped
  <2>3. lastUser' \in Users \cup {None} /\ stuck' = stuck /\ crashes' = crashes
    BY <2>1 DEF SupervisorInv, TypeOK, record
  <2>4. QED BY <2>1, <2>2, <2>3, StopBegins
<1>2. CASE RevokedStopped
  <2>1. /\ queue # <<>> /\ task.at = "stop" /\ Head(queue).kind = "revoked"
        /\ KillChild(task.host) /\ timers' = TimersWithout(task.host)
        /\ UNCHANGED <<session, record, flags, events>>
        /\ GoTo("clear", task.host, None, FailAll(task.host))
    BY <1>2 DEF RevokedStopped, Runs
  <2>2. /\ host' \in [Hosts -> HostRecord]
        /\ current' = IF current = task.host THEN None ELSE current
        /\ \A g \in Hosts \ {task.host} : host'[g] = host[g]
        /\ Alone'
        /\ CallsOK(FailAll(task.host)) /\ Reach(FailAll(task.host), current')
    BY <2>1, Kills
  <2>3. /\ report' = report /\ task' = [at |-> "clear", host |-> task.host, blob |-> None]
        /\ CallsOK(calls') /\ Reach(calls', current') /\ Followed(queue, queue')
    BY <1>0, <2>1, <2>2, Goes
  <2>4. timers' \subseteq timers /\ ("retry" \in timers => "retry" \in timers')
    BY <2>1 DEF TimersWithout
  <2>5. current' # None => current' = current /\ host'[current] = host[current]
    BY <1>0, <2>2
  <2>6. TypeOK'
    <3>1. task' \in [at : {"none", "vault", "demand", "wanted", "unwanted", "prepare", "stop", "clear"},
                     host : Hosts \cup {None}, blob : Blob \cup {None}]
      BY <2>3 DEF SupervisorInv, TypeOK
    <3>2. current' \in Hosts \cup {None}
      BY <1>0, <2>2
    <3>3. QED
      BY <2>1, <2>2, <2>3, <2>4, <3>1, <3>2
         DEF SupervisorInv, TypeOK, Followed, WellFormed, CallsOK, CallRecord, Tasks, Kind, HostRecord,
             session, record, flags, work
  <2>7. Queued' /\ RestartsNothingTwice'
    BY <2>1, <2>3, <2>4, <2>5
       DEF SupervisorInv, Queued, RestartsNothingTwice, Followed, WellFormed, flags
  <2>8. Running'
    BY <2>1, <2>2, <2>3, <2>5 DEF SupervisorInv, Running, Exists, Asking
  <2>9. Failed' /\ Reported'
    BY <2>1, <2>2, <2>3, <2>4, <2>5
       DEF SupervisorInv, Failed, Reported, Followed, Corrects, session, record, flags, Asking, work
  <2>10. QED BY <2>2, <2>3, <2>6, <2>7, <2>8, <2>9 DEF SupervisorInv
<1>3. CASE RevokedClears
  <2>1. /\ queue # <<>> /\ task.at = "clear" /\ vault' = None /\ locked' = FALSE /\ signingOut' = TRUE
        /\ UNCHANGED <<work, hosts, record, flags, timers, events>> /\ EndTask("off", calls)
    BY <1>3 DEF RevokedClears, Runs
  <2>2. "off" \in Reports
    BY DEF Reports
  <2>3. locked' \in BOOLEAN /\ signingOut' \in BOOLEAN
    BY <2>1
  <2>4. QED BY <2>1, <2>2, <2>3, EndsPlainly DEF work
<1>4. QED BY <1>1, <1>2, <1>3

LEMMA SignedOutKeeps ==
  ASSUME SupervisorInv, SignedOutBegins \/ SignedOutStopped
  PROVE  SupervisorInv'
<1>1. CASE SignedOutBegins
  <2>1. /\ queue # <<>> /\ task.at = "none" /\ timers' = timers \ {"retry"}
        /\ UNCHANGED <<session, current, flags, events>>
    BY <1>1 DEF SignedOutBegins, Runs
  <2>2. CASE current # None
    <3>1. BeginStop(current, None) /\ stuck' = stuck /\ crashes' = crashes /\ lastUser' = lastUser
      BY <1>1, <2>2 DEF SignedOutBegins
    <3>2. lastUser' \in Users \cup {None} /\ current \in Hosts
      BY <2>2, <3>1 DEF SupervisorInv, TypeOK
    <3>3. QED BY <2>1, <2>2, <3>1, <3>2, StopBegins
  <2>3. CASE current = None
    <3>1. /\ UNCHANGED hosts /\ stuck' = FALSE /\ lastUser' = None /\ crashes' = 0
          /\ EndTask("off", calls)
      BY <1>1, <2>1, <2>3 DEF SignedOutBegins, SignedOutEnds, hosts
    <3>2. vault' \in Blob \cup {None} /\ locked' \in BOOLEAN /\ signingOut' \in BOOLEAN
      BY <2>1 DEF SupervisorInv, TypeOK, session, work
    <3>3. "off" \in Reports /\ timers' \subseteq timers
      BY <2>1 DEF Reports
    <3>4. QED BY <2>1, <2>3, <3>1, <3>2, <3>3, EndsPlainly DEF session, work
  <2>4. QED BY <2>2, <2>3
<1>2. CASE SignedOutStopped
  <2>1. /\ queue # <<>> /\ task.at = "stop" /\ Head(queue).kind = "signOut"
        /\ KillChild(task.host) /\ timers' = TimersWithout(task.host)
        /\ UNCHANGED <<session, flags, events>>
        /\ stuck' = FALSE /\ lastUser' = None /\ crashes' = 0
        /\ EndTask("off", FailAll(task.host))
    BY <1>2 DEF SignedOutStopped, SignedOutEnds, Runs
  <2>2. QED BY <2>1, StopEnds
<1>3. QED BY <1>1, <1>2

LEMMA QuitTaskKeeps ==
  ASSUME SupervisorInv, QuitBegins \/ QuitStopped
  PROVE  SupervisorInv'
<1>1. queue # <<>> /\ Head(queue).kind = "quit"
  BY DEF QuitBegins, QuitStopped, Runs
<1>2. quitting /\ report \in Reports
  BY <1>1, Types, Dropped DEF SupervisorInv, Queued, TypeOK
<1>3. CASE QuitBegins
  <2>1. task.at = "none" /\ UNCHANGED <<session, current, record, flags, timers, events>>
    BY <1>3 DEF QuitBegins, Runs
  <2>2. CASE current # None
    <3>1. BeginStop(current, None)
      BY <1>3, <2>2 DEF QuitBegins
    <3>2. /\ lastUser' \in Users \cup {None} /\ stuck' = stuck /\ crashes' = crashes
          /\ current \in Hosts
      BY <2>1, <2>2 DEF SupervisorInv, TypeOK, record
    <3>3. QED BY <1>1, <2>1, <3>1, <3>2, StopBegins
  <2>3. CASE current = None
    <3>1. UNCHANGED hosts /\ EndTask(report, calls)
      BY <1>3, <2>1, <2>3 DEF QuitBegins, hosts
    <3>2. vault' \in Blob \cup {None} /\ locked' \in BOOLEAN /\ signingOut' \in BOOLEAN
      BY <2>1 DEF SupervisorInv, TypeOK, session, work
    <3>3. QED BY <1>1, <1>2, <2>1, <3>1, <3>2, EndsPlainly DEF session, work
  <2>4. QED BY <2>2, <2>3
<1>4. CASE QuitStopped
  <2>1. /\ task.at = "stop" /\ KillChild(task.host) /\ timers' = TimersWithout(task.host)
        /\ UNCHANGED <<session, record, flags, events>> /\ EndTask(report, FailAll(task.host))
    BY <1>4 DEF QuitStopped, Runs
  <2>2. QED BY <1>1, <1>2, <2>1, StopEnds
<1>5. QED BY <1>3, <1>4
-----------------------------------------------------------------------------
\* The host.

LEMMA Counts ==
  ASSUME SupervisorInv, Event
  PROVE  events' \in 0..MaxEvents
<1>1. events \in Nat /\ events < MaxEvents /\ events' = events + 1
  BY DEF SupervisorInv, TypeOK, Event
<1>2. MaxEvents \in Nat
  BY SupervisorAssumption
<1>3. QED BY <1>1, <1>2

LEMMA HostReadyKeeps ==
  ASSUME SupervisorInv, NEW h \in Hosts, HostReady(h)
  PROVE  SupervisorInv'
<1>1. /\ current = h /\ host[h].proc = "opening"
      /\ host' = [host EXCEPT ![h].ready = TRUE, ![h].proc = "open"]
      /\ UNCHANGED <<session, current, record, flags, timers, task, events>>
      /\ SetState("running", calls, Ensured(queue))
  BY DEF HostReady, Heard
<1>2. /\ WellFormed(queue) /\ CallsOK(calls) /\ host \in [Hosts -> HostRecord]
      /\ current' \in Hosts \cup {None} /\ None \notin Hosts /\ Reach(calls, current')
  BY <1>1, Types DEF SupervisorInv
<1>3. Followed(queue, Ensured(queue)) /\ WellFormed(Ensured(queue))
  BY <1>2, Settles DEF Followed
<1>4. report' = "running" /\ CallsOK(calls') /\ Reach(calls', current') /\ Followed(Ensured(queue), queue')
  BY <1>1, <1>2, <1>3, States
<1>5. Followed(queue, queue')
  BY <1>3, <1>4 DEF Followed
<1>6. /\ host' \in [Hosts -> HostRecord] /\ \A g \in Hosts \ {h} : host'[g] = host[g]
      /\ host'[h].proc = "open" /\ host'[h].ready = TRUE
      /\ host'[h].told = host[h].told /\ host'[h].blob = host[h].blob /\ host'[h].expected = host[h].expected
  BY <1>1, <1>2 DEF HostRecord
<1>7. TypeOK'
  BY <1>1, <1>4, <1>5, <1>6
     DEF SupervisorInv, TypeOK, Followed, WellFormed, CallsOK, CallRecord, Tasks, Kind, HostRecord,
         Reports, session, record, flags, work
<1>8. Alone' /\ RestartsNothingTwice'
  BY <1>1, <1>2, <1>6 DEF SupervisorInv, Alone, Lives, RestartsNothingTwice
<1>9. Queued' /\ Running'
  BY <1>1, <1>2, <1>5, <1>6
     DEF SupervisorInv, Queued, Running, Followed, WellFormed, Exists, flags, record, Asking
<1>10. Failed' /\ Reported'
  BY <1>1, <1>2, <1>4, <1>6
     DEF SupervisorInv, Failed, Reported, RestartsNothingTwice, session, record, flags, work
<1>11. QED BY <1>4, <1>7, <1>8, <1>9, <1>10 DEF SupervisorInv

LEMMA HostFatalKeeps ==
  ASSUME SupervisorInv, NEW h \in Hosts, HostFatal(h)
  PROVE  SupervisorInv'
<1>1. /\ current = h /\ host[h].proc = "opening" /\ Event /\ stuck' = TRUE
      /\ host' = [host EXCEPT ![h].expected = TRUE, ![h].proc = "dying"]
      /\ UNCHANGED <<session, current, lastUser, crashes, flags, timers, task>>
  BY DEF HostFatal, Heard
<1>2. /\ WellFormed(queue) /\ CallsOK(calls) /\ host \in [Hosts -> HostRecord]
      /\ current' \in Hosts \cup {None} /\ None \notin Hosts /\ Reach(calls, current')
  BY <1>1, Types DEF SupervisorInv
<1>3. PICK reason \in {"addonMissing", "baselineInUse"} : SetState(reason, calls, queue)
  BY DEF HostFatal
<1>4. /\ report' = reason /\ reason \in Failures
      /\ CallsOK(calls') /\ Reach(calls', current') /\ Followed(queue, queue')
  BY <1>2, <1>3, States DEF Failures
<1>5. /\ host' \in [Hosts -> HostRecord] /\ \A g \in Hosts \ {h} : host'[g] = host[g]
      /\ host'[h].proc = "dying" /\ host'[h].expected = TRUE /\ host'[h].told = host[h].told /\ host'[h].blob = host[h].blob
  BY <1>1, <1>2 DEF HostRecord
<1>6. TypeOK'
  <2>1. stuck' \in BOOLEAN /\ events' \in 0..MaxEvents /\ report' \in Reports
    BY <1>1, <1>4, Counts DEF Reports
  <2>2. QED
    BY <1>1, <1>4, <1>5, <2>1
       DEF SupervisorInv, TypeOK, Followed, WellFormed, CallsOK, CallRecord, Tasks, Kind, HostRecord,
           session, flags, work
<1>7. Alone' /\ RestartsNothingTwice'
  BY <1>1, <1>2, <1>5 DEF SupervisorInv, Alone, Lives, RestartsNothingTwice
<1>8. Queued' /\ Running'
  BY <1>1, <1>2, <1>4, <1>5 DEF SupervisorInv, Queued, Running, Followed, WellFormed, Exists, flags, Asking
<1>9. Failed' /\ Reported'
  BY <1>1, <1>2, <1>4, <1>5 DEF SupervisorInv, Failed, Reported, Failures
<1>10. QED BY <1>4, <1>6, <1>7, <1>8, <1>9 DEF SupervisorInv

\* It breaks, closes or is revoked, of which the supervisor has yet to hear.
LEMMA HostBreaksKeeps ==
  ASSUME SupervisorInv, NEW h \in Hosts, HostBreaks(h) \/ HostCloses(h) \/ HostRevoked(h)
  PROVE  SupervisorInv'
<1>1. /\ host[h].proc \in {"opening", "open"}
      /\ UNCHANGED <<session, current, report, record, flags, timers, calls, task>>
      /\ events' = events \/ Event
      /\ queue' = queue \/ queue' = Append(queue, Task("revoked", h))
      /\ \/ host' = [host EXCEPT ![h].proc = "dying"]
         \/ host' = [host EXCEPT ![h].revoked = TRUE]
  BY DEF HostBreaks, HostCloses, HostRevoked, Heard, Lives
<1>2. /\ WellFormed(queue) /\ CallsOK(calls) /\ host \in [Hosts -> HostRecord]
      /\ current \in Hosts \cup {None} /\ None \notin Hosts
  BY Types DEF SupervisorInv
<1>3. /\ host' \in [Hosts -> HostRecord] /\ \A g \in Hosts \ {h} : host'[g] = host[g]
      /\ host'[h].proc \in {host[h].proc, "dying"} /\ host'[h].ready = host[h].ready
      /\ host'[h].told = host[h].told /\ host'[h].blob = host[h].blob /\ host'[h].expected = host[h].expected
  <2>1. CASE host' = [host EXCEPT ![h].proc = "dying"]
    BY <1>2, <2>1 DEF HostRecord
  <2>2. CASE host' = [host EXCEPT ![h].revoked = TRUE]
    BY <1>2, <2>2 DEF HostRecord
  <2>3. QED BY <1>1, <2>1, <2>2
<1>4. /\ WellFormed(queue') /\ Kinds(queue) \subseteq Kinds(queue')
      /\ Kinds(queue') \subseteq Kinds(queue) \cup {"revoked"}
      /\ queue # <<>> => queue' # <<>> /\ Head(queue') = Head(queue)
  <2>1. CASE queue' = queue
    BY <1>2, <2>1
  <2>2. CASE queue' = Append(queue, Task("revoked", h))
    <3>1. "revoked" \in Kind /\ h \in Hosts \cup Callers \cup {None}
      BY DEF Kind
    <3>2. QED BY <1>2, <2>2, <3>1, Appended
  <2>3. QED BY <1>1, <2>1, <2>2
<1>5. TypeOK'
  <2>1. events' \in 0..MaxEvents
    BY <1>1, Counts DEF SupervisorInv, TypeOK
  <2>2. QED
    BY <1>1, <1>3, <1>4, <2>1
       DEF SupervisorInv, TypeOK, WellFormed, Tasks, Kind, HostRecord, session, record, flags, work
<1>6. Alone' /\ RestartsNothingTwice' /\ Reach(calls, current)'
  BY <1>1, <1>2, <1>3 DEF SupervisorInv, Alone, Lives, RestartsNothingTwice, Reach
<1>7. Queued' /\ Running'
  BY <1>1, <1>2, <1>3, <1>4
     DEF SupervisorInv, Queued, Running, WellFormed, Exists, flags, record, Asking
<1>8. Failed'
  BY <1>1, <1>2, <1>3 DEF SupervisorInv, Failed, record
<1>9. Reported'
  BY <1>1, <1>2, <1>3, <1>4 DEF SupervisorInv, Reported, Corrects, Queued, session, flags, Asking, work
<1>10. QED BY <1>5, <1>6, <1>7, <1>8, <1>9 DEF SupervisorInv

\* It exits: as a crash, or as it was to.
LEMMA HostExitsKeeps ==
  ASSUME SupervisorInv, NEW h \in Hosts, HostExits(h)
  PROVE  SupervisorInv'
<1> DEFINE crash == current = h /\ ~host[h].expected /\ ~quitting
           new == [Gone EXCEPT !.blob = IF Named(h) THEN host[h].blob ELSE None]
<1>1. /\ host[h].proc = "dying" /\ host' = [host EXCEPT ![h] = new]
      /\ current' = IF current = h THEN None ELSE current
      /\ UNCHANGED <<session, lastUser, flags, task, events>>
  BY DEF HostExits
<1>2. /\ WellFormed(queue) /\ CallsOK(calls) /\ host \in [Hosts -> HostRecord]
      /\ current \in Hosts \cup {None} /\ None \notin Hosts
  BY Types DEF SupervisorInv
<1>3. /\ host' \in [Hosts -> HostRecord] /\ \A g \in Hosts \ {h} : host'[g] = host[g]
      /\ host'[h].proc = "gone"
  <2>1. host[h].blob \in Blob \cup {None}
    BY <1>2 DEF HostRecord
  <2>2. new \in HostRecord /\ new.proc = "gone"
    BY <2>1 DEF Gone, HostRecord
  <2> HIDE DEF new
  <2>3. QED BY <1>1, <1>2, <2>2
<1> HIDE DEF new
<1>4. /\ CallsOK(FailAll(h)) /\ Reach(FailAll(h), current') /\ current' \in Hosts \cup {None}
  BY <1>1, <1>2, FailsAll DEF SupervisorInv
<1>5. TimersWithout(h) \subseteq timers /\ ("retry" \in timers => "retry" \in TimersWithout(h))
  BY DEF TimersWithout
<1>6. current' # None => current' = current /\ host'[current] = host[current]
  BY <1>1, <1>2, <1>3
<1>7. Alone'
  BY <1>1, <1>2, <1>3 DEF SupervisorInv, Alone, Lives
<1>8. CASE crash
  <2>1. /\ CountCrash /\ timers' = CrashTimers(TimersWithout(h))
        /\ SetState(CrashReport, FailAll(h), queue)
    BY <1>8 DEF HostExits
  <2>2. ~stuck /\ "retry" \notin timers /\ current' = None /\ task.at # "prepare"
    BY <1>1, <1>2, <1>8 DEF SupervisorInv, Failed, RestartsNothingTwice, Running, Asking
  <2>3. /\ report' = CrashReport
        /\ CallsOK(calls') /\ Reach(calls', current') /\ Followed(queue, queue')
    BY <1>2, <1>4, <2>1, States
  <2>4. /\ stuck' \in BOOLEAN /\ crashes' \in 0..CrashLoop
        /\ crashes' = CrashLoop => stuck'
        /\ \/ stuck' /\ report' = "crashLoop" /\ timers' = TimersWithout(h)
           \/ ~stuck' /\ report' = "restarting" /\ timers' = TimersWithout(h) \cup {"retry"}
    BY <2>1, <2>2, <2>3, Counted
  <2>5. TypeOK'
    <3>1. report' \in Reports /\ timers' \subseteq {"retry", "idle", "session"}
      BY <1>5, <2>4 DEF SupervisorInv, TypeOK, Reports, Failures
    <3>2. QED
      BY <1>1, <1>3, <1>4, <2>3, <2>4, <3>1
         DEF SupervisorInv, TypeOK, Followed, WellFormed, CallsOK, CallRecord, Tasks, Kind,
             HostRecord, session, flags, work
  <2>6. Queued' /\ RestartsNothingTwice'
    BY <1>1, <2>2, <2>3
       DEF SupervisorInv, Queued, RestartsNothingTwice, Followed, WellFormed, flags
  <2>7. Running'
    BY <1>1, <2>2, <2>3 DEF SupervisorInv, Running, Queued, Followed, Asking
  <2>8. Failed' /\ Reported'
    BY <2>2, <2>4 DEF Failed, Reported, Failures
  <2>9. QED BY <1>7, <2>3, <2>5, <2>6, <2>7, <2>8 DEF SupervisorInv
<1>9. CASE ~crash
  <2>1. /\ timers' = TimersWithout(h) /\ UNCHANGED <<stuck, crashes>>
        /\ SetState(report, FailAll(h), queue)
    BY <1>9 DEF HostExits
  <2>2. /\ report' = report
        /\ CallsOK(calls') /\ Reach(calls', current') /\ Followed(queue, queue')
    BY <1>2, <1>4, <2>1, States
  <2>3. TypeOK'
    <3>1. timers' \subseteq {"retry", "idle", "session"}
      BY <1>5, <2>1 DEF SupervisorInv, TypeOK
    <3>2. QED
      BY <1>1, <1>3, <1>4, <2>1, <2>2, <3>1
         DEF SupervisorInv, TypeOK, Followed, WellFormed, CallsOK, CallRecord, Tasks, Kind,
             HostRecord, session, flags, work
  <2>4. Queued' /\ RestartsNothingTwice'
    BY <1>1, <1>5, <2>1, <2>2
       DEF SupervisorInv, Queued, RestartsNothingTwice, Followed, WellFormed, flags
  <2>5. Running'
    BY <1>1, <1>2, <1>5, <1>6, <2>1, <2>2
       DEF SupervisorInv, Running, Queued, Followed, Exists, Asking
  <2>6. Failed'
    BY <1>1, <1>6, <2>1, <2>2 DEF SupervisorInv, Failed
  <2>7. current = h => quitting \/ task.at = "stop" \/ report \in Failures \cup {"off"}
    BY <1>2, <1>9 DEF SupervisorInv, Failed, Running, Asking
  <2>8. Reported'
    BY <1>1, <1>2, <1>5, <1>6, <2>1, <2>2, <2>7
       DEF SupervisorInv, Reported, Corrects, Queued, Followed, Failures, session, flags, Asking, work
  <2>9. QED BY <1>7, <2>2, <2>3, <2>4, <2>5, <2>6, <2>8 DEF SupervisorInv
<1>10. QED BY <1>8, <1>9
-----------------------------------------------------------------------------
\* What happens outside the tasks and the host: calls, timers, users and pages.
LEMMA OutsideKeeps ==
  ASSUME SupervisorInv, UNCHANGED <<hosts, report, lastUser, task>>,
         WellFormed(queue'), Kinds(queue) \subseteq Kinds(queue'),
         queue # <<>> => queue' # <<>> /\ Head(queue') = Head(queue),
         "quit" \in Kinds(queue') => quitting',
         CallsOK(calls'), Reach(calls', current'),
         vault' \in Blob \cup {None}, locked' \in BOOLEAN, demand' \subseteq Users, noticed' \subseteq demand',
         signingOut' \in BOOLEAN, subscribed' \in BOOLEAN, quitting' \in BOOLEAN,
         events' \in 0..MaxEvents, timers' \subseteq timers \cup {"session"},
         quitting => quitting',
         signingOut => signingOut' \/ "signOut" \in Kinds(queue'),
         "retry" \in timers =>
           "retry" \in timers' \/ quitting' \/ "evaluate" \in Kinds(queue'),
         \/ stuck' = stuck /\ crashes' = crashes
         \/ stuck' = stuck /\ crashes' = 0
         \/ stuck' = FALSE /\ crashes' = 0
  PROVE  SupervisorInv'
<1>1. host' = host /\ current' = current
  BY DEF hosts
<1>2. 0 \in 0..CrashLoop /\ 0 # CrashLoop
  BY SupervisorAssumption
<1>3. TypeOK'
  <2>1. stuck' \in BOOLEAN
    BY DEF SupervisorInv, TypeOK
  <2>2. crashes' \in 0..CrashLoop /\ timers' \subseteq {"retry", "idle", "session"}
    BY <1>2 DEF SupervisorInv, TypeOK
  <2>3. QED
    BY <1>1, <2>1, <2>2
       DEF SupervisorInv, TypeOK, WellFormed, CallsOK, CallRecord, Tasks, Kind
<1>4. Alone' /\ RestartsNothingTwice'
  BY <1>1 DEF SupervisorInv, Alone, Lives, RestartsNothingTwice
<1>5. Queued' /\ Running'
  BY <1>1 DEF SupervisorInv, Queued, Running, WellFormed, Exists, Asking
<1>6. Failed'
  BY <1>1, <1>2 DEF SupervisorInv, Failed
<1>7. Reported'
  BY <1>1 DEF SupervisorInv, Reported, Corrects, Queued, Asking
<1>8. QED BY <1>3, <1>4, <1>5, <1>6, <1>7 DEF SupervisorInv

\* A call is answered, or is not in time; either way its caller goes on.
LEMMA CallEndsKeeps ==
  ASSUME SupervisorInv, NEW c \in Callers, Reply(c) \/ CallTimesOut(c)
  PROVE  SupervisorInv'
<1>1. /\ calls' = [calls EXCEPT ![c] = Settled] /\ queue' = Settling(queue, calls')
      /\ UNCHANGED <<session, hosts, report, record, flags, timers, task, events>>
  BY DEF Reply, CallTimesOut
<1>2. WellFormed(queue) /\ CallsOK(calls)
  BY Types DEF SupervisorInv
<1>3. Followed(queue, queue')
  BY <1>1, <1>2, Settles
<1>4. CallsOK(calls') /\ Reach(calls', current')
  BY <1>1, <1>2 DEF SupervisorInv, CallsOK, CallRecord, Settled, Reach, hosts
<1>5. "quit" \in Kinds(queue') => quitting'
  BY <1>1, <1>3 DEF SupervisorInv, Queued, Followed, flags
<1>6. QED
  BY <1>1, <1>3, <1>4, <1>5, OutsideKeeps
     DEF SupervisorInv, TypeOK, Followed, session, record, flags, work

LEMMA CallKeeps ==
  ASSUME SupervisorInv, NEW c \in Callers, Call(c)
  PROVE  SupervisorInv'
<1>1. /\ Act /\ UNCHANGED <<session, hosts, report, record, flags, timers, task>>
  BY DEF Call
<1>2. /\ WellFormed(queue) /\ CallsOK(calls) /\ current \in Hosts \cup {None}
      /\ current' = current
  BY <1>1, Types DEF SupervisorInv, hosts
<1>3. /\ WellFormed(queue') /\ Kinds(queue) \subseteq Kinds(queue')
      /\ Kinds(queue') \subseteq Kinds(queue) \cup {"evaluate"}
      /\ queue # <<>> => queue' # <<>> /\ Head(queue') = Head(queue)
  <2>1. queue' \in {queue, Ensured(queue), Append(queue, Task("evaluate", c))}
    BY DEF Call
  <2>2. CASE queue' = Append(queue, Task("evaluate", c))
    <3>1. "evaluate" \in Kind /\ c \in Hosts \cup Callers \cup {None}
      BY DEF Kind
    <3>2. QED BY <1>2, <2>2, <3>1, Appended
  <2>3. CASE queue' \in {queue, Ensured(queue)}
    BY <1>2, <2>3, Settles DEF Followed
  <2>4. QED BY <2>1, <2>2, <2>3
<1>4. CallsOK(calls') /\ Reach(calls', current')
  <2> DEFINE call(u) == [at |-> "queued", user |-> u, host |-> None]
             out(u) == [call(u) EXCEPT !.at = "calling", !.host = current]
  <2>1. PICK u \in CallFor :
          \/ calls' = [calls EXCEPT ![c] = call(u)]
          \/ calls' = [calls EXCEPT ![c] = Settled]
          \/ calls' = [calls EXCEPT ![c] = out(u)] /\ current # None
    BY DEF Call
  <2>2. /\ call(u) \in CallRecord /\ call(u).at = "queued"
        /\ out(u) \in CallRecord /\ out(u).at = "calling" /\ out(u).host = current
        /\ Settled \in CallRecord /\ Settled.at = "idle"
    BY <1>2 DEF CallRecord, Settled
  <2> HIDE DEF call, out
  <2>4. PICK entry \in CallRecord :
          /\ calls' = [calls EXCEPT ![c] = entry]
          /\ entry.at = "calling" => entry.host = current' /\ current' # None
    BY <1>2, <2>1, <2>2
  <2>5. CallsOK(calls')
    BY <1>2, <2>4 DEF CallsOK
  <2>6. \A d \in Callers : calls'[d] = IF d = c THEN entry ELSE calls[d]
    BY <1>2, <2>4 DEF CallsOK
  <2>7. Reach(calls', current')
    BY <1>2, <2>4, <2>6 DEF SupervisorInv, Reach
  <2>8. QED BY <2>5, <2>7
<1>5. "quit" \in Kinds(queue') => quitting'
  BY <1>1, <1>3 DEF SupervisorInv, Queued, flags
<1>6. events' \in 0..MaxEvents
  BY <1>1, Counts DEF Act
<1>7. QED
  BY <1>1, <1>3, <1>4, <1>5, <1>6, OutsideKeeps
     DEF SupervisorInv, TypeOK, session, record, flags, work

LEMMA TimersKeep ==
  ASSUME SupervisorInv,
         RetryTimerFires \/ SessionTimerFires \/ IdleTimerFires \/ CrashWindowPasses
  PROVE  SupervisorInv'
<1>1. /\ UNCHANGED <<session, hosts, report, stuck, lastUser, flags, calls, task, events>>
      /\ crashes' \in {crashes, 0} /\ timers' \subseteq timers
      /\ queue' \in {queue, Ensured(queue), Append(queue, Task("idle", None))}
      /\ "retry" \in timers => "retry" \in timers' \/ queue' = Ensured(queue)
  BY DEF RetryTimerFires, SessionTimerFires, IdleTimerFires, CrashWindowPasses, record
<1>2. WellFormed(queue) /\ CallsOK(calls) /\ Reach(calls, current)
  BY Types DEF SupervisorInv
<1>3. /\ WellFormed(queue') /\ Kinds(queue) \subseteq Kinds(queue')
      /\ Kinds(queue') \subseteq Kinds(queue) \cup {"evaluate", "idle"}
      /\ queue # <<>> => queue' # <<>> /\ Head(queue') = Head(queue)
      /\ "retry" \in timers => "retry" \in timers' \/ "evaluate" \in Kinds(queue')
  <2>1. CASE queue' = queue
    BY <1>1, <1>2, <2>1, Appended DEF Ensured, Kind
  <2>2. CASE queue' = Ensured(queue)
    BY <1>1, <1>2, <2>2, Appended DEF Ensured, Kind
  <2>3. CASE queue' = Append(queue, Task("idle", None))
    BY <1>1, <1>2, <2>3, Appended DEF Ensured, Kind
  <2>4. QED BY <1>1, <2>1, <2>2, <2>3
<1>4. "quit" \in Kinds(queue') => quitting'
  BY <1>1, <1>3 DEF SupervisorInv, Queued, flags
<1>5. CallsOK(calls') /\ Reach(calls', current')
  BY <1>1, <1>2 DEF hosts
<1>6. QED
  BY <1>1, <1>3, <1>4, <1>5, OutsideKeeps DEF SupervisorInv, TypeOK, session, flags, work

\* Users and pages: what changes no task but by putting one behind them.
LEMMA ActsKeep ==
  ASSUME SupervisorInv,
         \/ \E b \in Blob : SignIn(b)
         \/ SignOut \/ CallSignedOut \/ Unlock \/ Ensure \/ Subscribe
         \/ \E u \in Users : DropWork(u) \/ AddWork(u)
         \/ Retry \/ Quit
  PROVE  SupervisorInv'
<1>1. /\ WellFormed(queue) /\ CallsOK(calls) /\ Reach(calls, current)
      /\ Followed(queue, queue) /\ Followed(queue, Ensured(queue))
  BY Types, Settles DEF SupervisorInv, Followed
<1>q. "quit" \in Kinds(queue) => quitting
  BY DEF SupervisorInv, Queued
<1>e. "evaluate" \in Kinds(Ensured(queue))
  BY <1>1, Appended DEF Ensured, Kind
<1>2. CASE \E b \in Blob : SignIn(b)
  <2>1. PICK b \in Blob : SignIn(b)
    BY <1>2
  <2>2. /\ vault' = b /\ locked' = FALSE /\ events' \in 0..MaxEvents
        /\ timers' \subseteq timers \cup {"session"} /\ ("retry" \in timers => "retry" \in timers')
        /\ UNCHANGED <<work, signingOut, hosts, report, record, flags, calls, queue, task>>
    BY <2>1, Counts DEF SignIn, Act
  <2>3. QED
    BY <1>1, <1>q, <2>2, OutsideKeeps
       DEF SupervisorInv, TypeOK, record, flags, hosts, work
<1>3. CASE SignOut \/ Unlock
  <2>1. /\ vault' \in {vault, None} /\ locked' = FALSE /\ events' \in 0..MaxEvents
        /\ signingOut' \in {signingOut, TRUE}
        /\ UNCHANGED <<work, hosts, report, record, flags, timers, calls, queue, task>>
    <3>1. CASE SignOut
      BY <3>1, Counts DEF SignOut, Act
    <3>2. CASE Unlock
      BY <3>2 DEF Unlock, SupervisorInv, TypeOK
    <3>3. QED BY <1>3, <3>1, <3>2
  <2>2. /\ signingOut' \in BOOLEAN /\ locked' \in BOOLEAN /\ vault' \in Blob \cup {None}
        /\ signingOut => signingOut'
    <3>1. signingOut \in BOOLEAN /\ vault \in Blob \cup {None}
      BY DEF SupervisorInv, TypeOK
    <3>2. CASE signingOut' = signingOut
      BY <2>1, <3>1, <3>2
    <3>3. CASE signingOut' = TRUE
      BY <2>1, <3>1, <3>3
    <3>4. QED BY <2>1, <3>2, <3>3
  <2>3. QED
    BY <1>1, <1>q, <2>1, <2>2, OutsideKeeps DEF SupervisorInv, TypeOK, record, flags, hosts, work
<1>4. CASE CallSignedOut
  <2>1. /\ signingOut' = FALSE /\ timers' = timers \ {"session"}
        /\ queue' = Append(queue, Task("signOut", None))
        /\ UNCHANGED <<vault, locked, work, hosts, report, record, flags, calls, task, events>>
    BY <1>4 DEF CallSignedOut
  <2>2. /\ WellFormed(queue') /\ Kinds(queue') = Kinds(queue) \cup {"signOut"}
        /\ queue # <<>> => queue' # <<>> /\ Head(queue') = Head(queue)
    <3>1. "signOut" \in Kind
      BY DEF Kind
    <3>2. QED BY <1>1, <2>1, <3>1, Appended
  <2>3. QED
    BY <1>1, <1>q, <2>1, <2>2, OutsideKeeps DEF SupervisorInv, TypeOK, record, flags, hosts, work
<1>5. CASE Ensure \/ Subscribe \/ \E u \in Users : DropWork(u)
  <2>1. /\ queue' = Ensured(queue) /\ Act
        /\ demand' \subseteq Users /\ noticed' \subseteq demand' /\ subscribed' \in BOOLEAN
        /\ UNCHANGED <<vault, locked, signingOut, hosts, report, record, quitting, timers, calls,
                       task>>
    BY <1>5 DEF Ensure, Subscribe, DropWork, SupervisorInv, TypeOK, session, flags, work
  <2>2. events' \in 0..MaxEvents
    BY <2>1, Counts DEF Act
  <2>3. QED
    BY <1>1, <1>q, <2>1, <2>2, OutsideKeeps
       DEF SupervisorInv, TypeOK, Followed, record, hosts
<1>6. CASE \E u \in Users : AddWork(u)
  <2>1. /\ queue' \in {queue, Ensured(queue)} /\ Act
        /\ demand' \subseteq Users /\ noticed' \subseteq demand'
        /\ UNCHANGED <<vault, locked, signingOut, hosts, report, record, flags, timers, calls, task>>
    BY <1>6 DEF AddWork, SupervisorInv, TypeOK
  <2>2. events' \in 0..MaxEvents
    BY <2>1, Counts DEF Act
  <2>3. QED
    BY <1>1, <1>q, <2>1, <2>2, OutsideKeeps
       DEF SupervisorInv, TypeOK, Followed, record, flags, hosts
<1>7. CASE Retry
  <2>1. /\ stuck' = FALSE /\ crashes' = 0 /\ timers' = timers \ {"retry"} /\ Event
        /\ queue' = Ensured(queue)
        /\ UNCHANGED <<session, hosts, report, lastUser, flags, calls, task>>
    BY <1>7 DEF Retry, Act
  <2>2. events' \in 0..MaxEvents
    BY <2>1, Counts
  <2>3. QED
    BY <1>1, <1>q, <1>e, <2>1, <2>2, OutsideKeeps
       DEF SupervisorInv, TypeOK, Followed, session, flags, hosts, work
<1>8. CASE Quit
  <2>1. /\ quitting' = TRUE /\ timers' = {} /\ Event /\ queue' = Append(queue, Task("quit", None))
        /\ UNCHANGED <<session, hosts, report, record, subscribed, calls, task>>
    BY <1>8 DEF Quit, Act
  <2>2. events' \in 0..MaxEvents
    BY <2>1, Counts
  <2>3. /\ WellFormed(queue') /\ Kinds(queue') = Kinds(queue) \cup {"quit"}
        /\ queue # <<>> => queue' # <<>> /\ Head(queue') = Head(queue)
    <3>1. "quit" \in Kind
      BY DEF Kind
    <3>2. QED BY <1>1, <2>1, <3>1, Appended
  <2>4. QED
    BY <1>1, <2>1, <2>2, <2>3, OutsideKeeps DEF SupervisorInv, TypeOK, session, record, hosts, work
<1>9. QED BY <1>2, <1>3, <1>4, <1>5, <1>6, <1>7, <1>8
-----------------------------------------------------------------------------
LEMMA SupervisorInit ==
  ASSUME Init
  PROVE  SupervisorInv
<1> DEFINE first == Task("evaluate", None)
<1>1. first \in Tasks /\ first.kind = "evaluate"
  BY DEF Task, Tasks, Kind
<1>2. queue = <<first>>
  BY DEF Init, Task
<1> HIDE DEF first
<1>3. /\ queue \in Seq(Tasks) /\ Len(queue) = 1 /\ queue[1] = first /\ Head(queue) = first
      /\ Kinds(queue) = {"evaluate"}
  BY <1>1, <1>2 DEF Kinds
<1>4. 0 \in 0..CrashLoop /\ 0 # CrashLoop /\ 0 \in 0..MaxEvents
  BY SupervisorAssumption
<1>5. TypeOK
  <2>1. vault \in Blob \cup {None}
    <3>1. CASE vault = None
      BY <3>1
    <3>2. CASE vault # None
      BY <3>2, SupervisorAssumption DEF Init, Blob
    <3>3. QED BY <3>1, <3>2
  <2>2. locked \in BOOLEAN /\ signingOut \in BOOLEAN /\ stuck \in BOOLEAN
    BY DEF Init
  <2>3. subscribed \in BOOLEAN /\ quitting \in BOOLEAN /\ demand \subseteq Users /\ noticed \subseteq demand
    BY DEF Init
  <2>4. host \in [Hosts -> HostRecord]
    BY DEF Init, Gone, HostRecord
  <2>5. calls \in [Callers -> CallRecord]
    BY DEF Init, Settled, CallRecord
  <2>6. task \in [at : {"none", "vault", "demand", "wanted", "unwanted", "prepare", "stop", "clear"},
                  host : Hosts \cup {None}, blob : Blob \cup {None}]
    BY DEF Init, NotBegun
  <2>7. QED
    BY <1>3, <1>4, <2>1, <2>2, <2>3, <2>4, <2>5, <2>6
       DEF Init, TypeOK, Tasks, Kind, HostRecord, CallRecord, Reports
<1>6. Alone /\ RestartsNothingTwice /\ Reach(calls, current)
  BY DEF Init, Alone, Lives, Gone, RestartsNothingTwice, Reach, Settled
<1>7. Queued /\ Running
  BY <1>1, <1>3 DEF Init, Queued, Running, NotBegun, Asking
<1>8. Failed /\ Reported
  BY <1>4 DEF Init, Failed, Reported
<1>9. QED BY <1>5, <1>6, <1>7, <1>8 DEF SupervisorInv

LEMMA SupervisorStep ==
  ASSUME SupervisorInv, [Next]_vars
  PROVE  SupervisorInv'
<1>1. CASE RunTask
  BY <1>1, EvaluateBeginsKeeps, VaultUnreadableKeeps, VaultEmptyKeeps, VaultReadKeeps,
     EvaluateStoppedKeeps, DemandReadKeeps, DemandDecidesKeeps, ForkKeeps, AddonAbsentKeeps, StartFailsKeeps,
     IdleKeeps, RevokedKeeps, SignedOutKeeps, QuitTaskKeeps
     DEF RunTask
<1>2. ASSUME NEW h \in Hosts,
             \/ HostReady(h) \/ HostRevoked(h) \/ HostFatal(h) \/ HostBreaks(h)
             \/ HostExits(h) \/ HostCloses(h)
      PROVE  SupervisorInv'
  BY <1>2, HostReadyKeeps, HostFatalKeeps, HostBreaksKeeps, HostExitsKeeps
<1>3. ASSUME NEW c \in Callers, Reply(c) \/ CallTimesOut(c) \/ Call(c)
      PROVE  SupervisorInv'
  BY <1>3, CallEndsKeeps, CallKeeps, ActsKeep
<1>4. CASE RetryTimerFires \/ SessionTimerFires \/ IdleTimerFires \/ CrashWindowPasses
  BY <1>4, TimersKeep
<1>5. CASE \/ \E b \in Blob : SignIn(b)
           \/ SignOut \/ CallSignedOut \/ Unlock \/ Ensure \/ Subscribe
           \/ \E u \in Users : DropWork(u) \/ AddWork(u)
           \/ Retry \/ Quit
  BY <1>5, ActsKeep
<1>6. CASE UNCHANGED vars
  BY <1>6
     DEF vars, session, hosts, record, flags, SupervisorInv, TypeOK, Alone, Lives,
         RestartsNothingTwice, Reach, Queued, Kinds, Running, Exists, Failed, Reported, Corrects, Asking, work
<1>7. QED BY <1>1, <1>2, <1>3, <1>4, <1>5, <1>6 DEF Next

\* SupervisorInv is inductive, for any users, hosts, callers and failures.
THEOREM SupervisorInvariant == Spec => []SupervisorInv
<1>1. Init => SupervisorInv
  BY SupervisorInit
<1>2. SupervisorInv /\ [Next]_vars => SupervisorInv'
  BY SupervisorStep
<1>3. QED BY <1>1, <1>2, PTL DEF Spec

\* One host runs, and whichever else is there was told to stop: starts, stops
\* and restarts overlap in no other way, however many hosts, failures and exits.
THEOREM SupervisorOneHost == Spec => []OneHost
<1>1. SupervisorInv => OneHost
  BY DEF SupervisorInv, Alone, OneHost
<1>2. QED BY <1>1, SupervisorInvariant, PTL

\* The timer of a restart runs only while there is no host, so that it never
\* starts a second one.
THEOREM SupervisorRestartsOnce == Spec => []RestartsNothingTwice
<1>1. SupervisorInv => RestartsNothingTwice
  BY DEF SupervisorInv
<1>2. QED BY <1>1, SupervisorInvariant, PTL

\* No call is left waiting on a host that stopped, crashed or was replaced.
THEOREM SupervisorCalls == Spec => []CallsReachTheHost
<1>1. SupervisorInv => CallsReachTheHost
  BY DEF SupervisorInv, Reach, CallsReachTheHost
<1>2. QED BY <1>1, SupervisorInvariant, PTL

\* Between tasks the pages see what there is: a host that starts or runs, a
\* restart that is due, or none.
THEOREM SupervisorReport == Spec => []ReportIsTrue
<1>1. ASSUME SupervisorInv, queue = <<>>, ~quitting, ~signingOut
      PROVE  /\ report = "off" => current = None
             /\ report = "starting" => current # None /\ ~host[current].ready
             /\ report = "running" => current # None /\ host[current].ready
             /\ report = "restarting" => "retry" \in timers
  <2>1. Kinds(queue) = {}
    BY <1>1, Types, NoTasks DEF SupervisorInv, WellFormed
  <2>2. task.at = "none"
    BY <1>1 DEF SupervisorInv, Queued, TypeOK
  <2>3. QED BY <1>1, <2>1, <2>2 DEF SupervisorInv, Reported, Corrects, Asking
<1>2. SupervisorInv => ReportIsTrue
  BY <1>1 DEF ReportIsTrue
<1>3. QED BY <1>2, SupervisorInvariant, PTL
=============================================================================
