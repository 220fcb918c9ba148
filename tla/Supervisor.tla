----------------------------- MODULE Supervisor -----------------------------
(***************************************************************************)
(* packages/filen-desktop/src/main/native/supervisor.ts: the main process  *)
(* keeps one native host (sync engine and mounts) for the signed-in user.  *)
(* Starts, stops and restarts are tasks of a serial queue; timers, calls,  *)
(* the host's messages and its exit fall between the awaits of a task.     *)
(* sessionVault.ts, rpc.ts, backoff.ts and the sign-out flow of signOut.ts *)
(* and index.ts are modelled as far as the supervisor depends on them.     *)
(*                                                                         *)
(* One subscription stands for the topics, and one `dying` process for a   *)
(* host that exited by itself, was killed or sent something malformed: its *)
(* messages sent before still arrive, its exit event comes last.  The wait *)
(* of stopChild() ends on `stopped`, on the exit or after 25 s, so it may  *)
(* end at any time.  reconnectSocket() and user() change nothing here.     *)
(* Another user signs in once the last one is signed out, as the page has  *)
(* it; the stores and the vault answer, except where an action says not.   *)
(***************************************************************************)
EXTENDS Naturals, Sequences, SequencesExt, FiniteSets

CONSTANTS Users,
          MaxKeys,     \* bound: credentials a user has had
          Hosts,       \* host processes; bounds how many exist at once
          Callers,     \* those that call() the host, one call at a time
          Anyone,      \* no userId: a call for whoever is signed in
          CallFor,     \* whom calls are for: users, or Anyone
          None,
          CrashLoop,   \* CRASH_LOOP_COUNT
          MaxEvents    \* bound: acts of users and pages, and failures

ASSUME SupervisorAssumption ==
  /\ Hosts \cap Callers = {}
  /\ None \notin Hosts \cup Callers \cup Users
  /\ CallFor \subseteq Users \cup {Anyone}
  /\ CrashLoop \in Nat \ {0}
  /\ MaxKeys \in Nat \ {0} /\ MaxEvents \in Nat

\* A session blob; a user's credentials change, and never back.
Blob == [user : Users, key : 1..MaxKeys]

VARIABLES
  vault,       \* the stored session
  locked,      \* the vault cannot be decrypted yet
  demand,      \* the users with pairs or mounts
  signingOut,  \* the sign-out flow has yet to call signedOut()
  host,        \* the host processes, as the supervisor's Child records
  current,     \* the child the supervisor works with
  report,      \* the state it reports, a failure by its reason
  stuck, lastUser, crashes, subscribed, quitting,
  timers,      \* which of the retry, idle and session timers run
  calls,       \* what each caller waits for
  queue,       \* the tasks, the first of them the one that runs
  task,        \* at which await the first one is; "none": not begun
  events       \* acts and failures so far

\* What the code does not keep and HostComesUp needs.
VARIABLE noticed  \* users whose work an evaluation has begun with

work == <<demand, noticed>>
session == <<vault, locked, work, signingOut>>
hosts == <<host, current>>
record == <<stuck, lastUser, crashes>>
flags == <<subscribed, quitting>>
vars == <<session, hosts, report, record, flags, timers, calls, queue, task, events>>

Failures == {"addonMissing", "baselineInUse", "crashLoop", "keychainLocked"}
Reports == {"off", "starting", "running", "restarting"} \cup Failures
Pending == {"starting", "restarting"}

Gone == [proc |-> "gone", blob |-> None, ready |-> FALSE, told |-> FALSE,
         expected |-> FALSE, revoked |-> FALSE]
Exists(h) == host[h].proc # "gone"
Settled == [at |-> "idle", user |-> Anyone, host |-> None]
NotBegun == [at |-> "none", host |-> None, blob |-> None]

TypeOK ==
  /\ vault \in Blob \cup {None}
  /\ locked \in BOOLEAN
  /\ demand \subseteq Users /\ noticed \subseteq demand
  /\ signingOut \in BOOLEAN
  /\ host \in [Hosts -> [proc : {"gone", "opening", "open", "dying"},
                         blob : Blob \cup {None}, ready : BOOLEAN, told : BOOLEAN,
                         expected : BOOLEAN, revoked : BOOLEAN]]
  /\ current \in Hosts \cup {None}
  /\ report \in Reports
  /\ stuck \in BOOLEAN
  /\ lastUser \in Users \cup {None}
  /\ crashes \in 0..CrashLoop
  /\ subscribed \in BOOLEAN
  /\ quitting \in BOOLEAN
  /\ timers \subseteq {"retry", "idle", "session"}
  /\ calls \in [Callers -> [at : {"idle", "queued", "waiting", "calling"},
                            user : CallFor \cup {Anyone}, host : Hosts \cup {None}]]
  /\ queue \in Seq([kind : {"evaluate", "idle", "revoked", "signOut", "quit"},
                    who : Hosts \cup Callers \cup {None}])
  /\ task \in [at : {"none", "vault", "demand", "wanted", "unwanted", "prepare", "stop", "clear"},
               host : Hosts \cup {None}, blob : Blob \cup {None}]
  /\ events \in 0..MaxEvents

Init ==
  /\ vault \in [user : Users, key : {1}] \cup {None}
  /\ locked \in IF vault = None THEN {FALSE} ELSE BOOLEAN
  /\ demand \in SUBSET Users /\ noticed = {}
  /\ signingOut = FALSE
  /\ host = [h \in Hosts |-> Gone]
  /\ current = None
  /\ report = "off"
  /\ stuck = FALSE
  /\ lastUser = None
  /\ crashes = 0
  /\ subscribed = FALSE
  /\ quitting = FALSE
  /\ timers = {}
  /\ calls = [c \in Callers |-> Settled]
  /\ queue = <<[kind |-> "evaluate", who |-> None]>>
  /\ task = NotBegun
  /\ events = 0
-----------------------------------------------------------------------------
\* The serial queue.

Task(kind, who) == [kind |-> kind, who |-> who]
Runs(kind, at) == queue # <<>> /\ Head(queue).kind = kind /\ task.at = at

\* A task is about h.
Named(h) == task.host = h \/ \E i \in 1..Len(queue) : queue[i].who = h

\* ensure()
Ensured(q) == Append(q, Task("evaluate", None))

InFlight(cs) == \E c \in Callers : cs[c].at # "idle"

\* The tasks once the calls are `cs`: the last call in flight ensures.
Settling(q, cs) ==
  IF InFlight(calls) /\ ~InFlight(cs) /\ ~subscribed THEN Ensured(q) ELSE q

\* The bound, for what users and pages do and for what fails.
Event == events < MaxEvents /\ events' = events + 1
Act == Event /\ ~quitting
-----------------------------------------------------------------------------
\* Calls, states and the steps of a task.

\* The end of invoke(): through the current host's rpc, or unavailable.
Through(call) ==
  IF /\ current' # None
     /\ host'[current'].ready
     /\ call.user \in {Anyone, host'[current'].blob.user}
    THEN [call EXCEPT !.at = "calling", !.host = current']
    ELSE Settled

\* rpc.failAll() of h.
FailAll(h) ==
  [c \in Callers |->
     IF calls[c].at = "calling" /\ calls[c].host = h THEN Settled ELSE calls[c]]

\* A slip: only a host that is running ends the wait.
ResolveRunning(cs, next) ==
  [c \in Callers |->
     IF cs[c].at = "waiting" /\ next = "running" THEN Through(cs[c]) ELSE cs[c]]

\* setState(next) resolves who waits for the host, unless it is still coming.
Resolve(cs, next) ==
  [c \in Callers |->
     IF cs[c].at = "waiting" /\ next \notin Pending
       THEN IF next = "running" THEN Through(cs[c]) ELSE Settled
       ELSE cs[c]]

\* `next` is reported outside the queue, with q the tasks.
SetState(next, cs, q) ==
  /\ report' = next
  /\ calls' = Resolve(cs, next)
  /\ queue' = Settling(q, calls')

\* The running task ends with `next` reported; the call it ran for goes on.
EndTask(next, cs) ==
  LET who == Head(queue).who
      resolved == Resolve(cs, next)
      coming == (current' = None \/ ~host'[current'].ready) /\ next \in Pending
      goesOn(call) == IF coming THEN [call EXCEPT !.at = "waiting"] ELSE Through(call)
  IN /\ report' = next
     /\ calls' = IF who \in Callers THEN [resolved EXCEPT ![who] = goesOn(@)] ELSE resolved
     /\ queue' = Settling(Tail(queue), calls')
     /\ task' = NotBegun

\* The running task gets to its await `at`.
GoTo(at, h, blob, cs) ==
  /\ task' = [at |-> at, host |-> h, blob |-> blob]
  /\ calls' = cs
  /\ queue' = Settling(queue, cs)
  /\ UNCHANGED report

\* stopChild(h), until its wait is over; `blob` is what comes after it.
BeginStop(h, blob) ==
  /\ host' = [host EXCEPT ![h] = IF Exists(h) THEN [@ EXCEPT !.told = TRUE, !.expected = TRUE]
                                              ELSE @]
  /\ GoTo("stop", h, blob, calls)

\* stopChild(h) kills the child, which is the current one no longer.
KillChild(h) ==
  /\ host' = [host EXCEPT ![h].proc = IF Exists(h) THEN "dying" ELSE @]
  /\ current' = IF current = h THEN None ELSE current

\* The timers once h is not the current child.
TimersWithout(h) == IF current = h THEN timers \ {"idle"} ELSE timers

\* A slip: the loop is reported and not remembered.
CountCrashOnly ==
  /\ crashes' = crashes + 1
  /\ UNCHANGED stuck

\* crashed(): a restart after a delay, unless the hosts crash in a loop.
CountCrash ==
  /\ crashes' = crashes + 1
  /\ stuck' = (stuck \/ crashes' >= CrashLoop)
CrashReport == IF crashes' >= CrashLoop THEN "crashLoop" ELSE "restarting"
CrashTimers(ts) == IF crashes' >= CrashLoop THEN ts ELSE ts \cup {"retry"}
-----------------------------------------------------------------------------
\* evaluate()

EvaluateBegins ==
  /\ Runs("evaluate", "none")
  /\ noticed' = IF quitting THEN noticed ELSE demand
  /\ UNCHANGED <<vault, locked, demand, signingOut, hosts, record, flags, timers, events>>
  /\ IF quitting THEN EndTask(report, calls) ELSE GoTo("vault", None, None, calls)

\* A slip: a host that came up or went during the awaits is not looked for.
DecideBlindly(wanted, blob, cs, ts) ==
  /\ timers' = ts
  /\ IF stuck' \/ ~wanted THEN EndTask(report, cs) ELSE GoTo("prepare", None, blob, cs)

\* A slip: a restart that is due already is not waited for.
DecideAtOnce(wanted, blob, cs, ts) ==
  IF current' # None \/ ~wanted
    THEN /\ timers' = IF wanted THEN ts \ {"idle"} ELSE ts \cup {"idle"}
         /\ EndTask(report, cs)
    ELSE /\ timers' = ts
         /\ IF stuck' THEN EndTask(report, cs) ELSE GoTo("prepare", None, blob, cs)

\* What evaluate() does once it knows whether a host is wanted, `ts` being the
\* timers.
Decide(wanted, blob, cs, ts) ==
  CASE current' # None ->
         /\ timers' = IF wanted THEN ts \ {"idle"} ELSE ts \cup {"idle"}
         /\ EndTask(report, cs)
    [] current' = None /\ ~wanted ->
         /\ timers' = ts \ {"retry"}
         /\ EndTask(IF stuck' THEN report ELSE "off", cs)
    [] OTHER ->
         /\ timers' = ts
         /\ IF stuck' \/ "retry" \in ts THEN EndTask(report, cs)
                                        ELSE GoTo("prepare", None, blob, cs)

\* Whether a host is wanted: at once when a page or a call wants it, else from
\* the user's stores.
Want(blob, cs, ts) ==
  IF subscribed \/ InFlight(cs)
    THEN Decide(TRUE, blob, cs, ts)
    ELSE GoTo("demand", None, blob, cs) /\ timers' = ts

\* The vault cannot be read: nothing is cleared.
VaultUnreadable ==
  /\ Runs("evaluate", "vault")
  /\ locked
  /\ UNCHANGED <<session, hosts, record, flags, timers, events>>
  /\ EndTask(IF current = None /\ (subscribed \/ InFlight(calls) \/ report # "off")
               THEN "keychainLocked" ELSE report, calls)

VaultEmpty ==
  /\ Runs("evaluate", "vault")
  /\ ~locked /\ vault = None
  /\ timers' = timers \ {"retry"}
  /\ UNCHANGED <<session, current, record, flags, events>>
  /\ IF current # None
       THEN BeginStop(current, None)
       ELSE UNCHANGED host /\ EndTask("off", calls)

\* A slip: a session of the same user never restarts the host.
VaultReadByUser ==
  /\ Runs("evaluate", "vault")
  /\ ~locked /\ vault # None
  /\ lastUser' = vault.user
  /\ stuck' = (stuck /\ lastUser' = lastUser)
  /\ crashes' = IF lastUser' = lastUser THEN crashes ELSE 0
  /\ UNCHANGED <<session, current, flags, events>>
  /\ IF current # None /\ host[current].blob.user # vault.user
       THEN BeginStop(current, vault) /\ UNCHANGED timers
       ELSE UNCHANGED host /\ Want(vault, calls, timers)

\* A session: another user starts from a clean slate, another blob stops the
\* host first.
VaultRead ==
  /\ Runs("evaluate", "vault")
  /\ ~locked /\ vault # None
  /\ lastUser' = vault.user
  /\ stuck' = (stuck /\ lastUser' = lastUser)
  /\ crashes' = IF lastUser' = lastUser THEN crashes ELSE 0
  /\ UNCHANGED <<session, current, flags, events>>
  /\ IF current # None /\ host[current].blob # vault
       THEN BeginStop(current, vault) /\ UNCHANGED timers
       ELSE UNCHANGED host /\ Want(vault, calls, timers)

\* stopChild() is over: with a session evaluate() goes on, else it is off.
EvaluateStopped ==
  /\ Runs("evaluate", "stop")
  /\ LET h == task.host
         ts == TimersWithout(h)
     IN /\ KillChild(h)
        /\ UNCHANGED <<session, record, flags, events>>
        /\ IF task.blob # None
             THEN Want(task.blob, FailAll(h), ts)
             ELSE timers' = ts /\ EndTask("off", FailAll(h))

\* The stores say whether the user has work, to evaluate() or to the idle task.
DemandRead ==
  /\ \E kind \in {"evaluate", "idle"} :
       /\ Runs(kind, "demand")
       /\ LET blob == IF kind = "evaluate" THEN task.blob ELSE host[task.host].blob
          IN task' = [task EXCEPT !.at = IF blob.user \in demand THEN "wanted" ELSE "unwanted"]
  /\ UNCHANGED <<session, hosts, report, record, flags, timers, calls, queue, events>>

DemandDecides ==
  /\ Runs("evaluate", "wanted") \/ Runs("evaluate", "unwanted")
  /\ UNCHANGED <<session, hosts, record, flags, events>>
  /\ Decide(task.at = "wanted", task.blob, calls, timers)

\* start(): a host is forked with the session evaluate() read.
Fork ==
  /\ Runs("evaluate", "prepare")
  /\ \E h \in Hosts :
       /\ ~Exists(h) /\ ~Named(h)
       /\ host' = [host EXCEPT ![h] = [Gone EXCEPT !.proc = "opening", !.blob = task.blob]]
       /\ current' = h
  /\ UNCHANGED <<session, record, flags, timers, events>>
  /\ EndTask("starting", calls)

\* start() in a build without the addon, which is given up at once.
AddonAbsent ==
  /\ Runs("evaluate", "prepare")
  /\ Event
  /\ stuck' = TRUE
  /\ UNCHANGED <<session, hosts, lastUser, crashes, flags, timers>>
  /\ EndTask("addonMissing", calls)

\* The user's directory or stores are not available, or the fork fails: that
\* counts as a crash.
StartFails ==
  /\ Runs("evaluate", "prepare")
  /\ Event
  /\ CountCrash
  /\ timers' = CrashTimers(timers)
  /\ UNCHANGED <<session, hosts, lastUser, flags>>
  /\ EndTask(CrashReport, calls)
-----------------------------------------------------------------------------
\* The other tasks.

\* The idle timer's task: is the host wanted after all?
IdleBegins ==
  /\ Runs("idle", "none")
  /\ UNCHANGED <<session, hosts, record, flags, timers, events>>
  /\ IF current = None \/ quitting \/ subscribed \/ InFlight(calls)
       THEN EndTask(report, calls)
       ELSE GoTo("demand", current, None, calls)

IdleDecides ==
  /\ UNCHANGED <<session, current, record, flags, timers, events>>
  /\ \/ Runs("idle", "wanted") /\ UNCHANGED host /\ EndTask(report, calls)
     \/ Runs("idle", "unwanted") /\ BeginStop(task.host, None)

\* A slip: the pages are not told.
IdleStoppedSilently ==
  /\ Runs("idle", "stop")
  /\ KillChild(task.host)
  /\ timers' = TimersWithout(task.host)
  /\ UNCHANGED <<session, record, flags, events>>
  /\ EndTask(report, FailAll(task.host))

IdleStopped ==
  /\ Runs("idle", "stop")
  /\ KillChild(task.host)
  /\ timers' = TimersWithout(task.host)
  /\ UNCHANGED <<session, record, flags, events>>
  /\ EndTask("off", FailAll(task.host))

\* revoked(): the host stops, the vault is cleared, the user is signed out.
RevokedBegins ==
  /\ Runs("revoked", "none")
  /\ BeginStop(Head(queue).who, None)
  /\ UNCHANGED <<session, current, record, flags, timers, events>>

RevokedStopped ==
  /\ Runs("revoked", "stop")
  /\ KillChild(task.host)
  /\ timers' = TimersWithout(task.host)
  /\ UNCHANGED <<session, record, flags, events>>
  /\ GoTo("clear", task.host, None, FailAll(task.host))

RevokedClears ==
  /\ Runs("revoked", "clear")
  /\ vault' = None
  /\ locked' = FALSE
  /\ signingOut' = TRUE
  /\ UNCHANGED <<work, hosts, record, flags, timers, events>>
  /\ EndTask("off", calls)

\* signedOut()
SignedOutEnds(cs) ==
  /\ stuck' = FALSE
  /\ lastUser' = None
  /\ crashes' = 0
  /\ EndTask("off", cs)

SignedOutBegins ==
  /\ Runs("signOut", "none")
  /\ timers' = timers \ {"retry"}
  /\ UNCHANGED <<session, current, flags, events>>
  /\ IF current # None
       THEN BeginStop(current, None) /\ UNCHANGED <<stuck, lastUser, crashes>>
       ELSE UNCHANGED host /\ SignedOutEnds(calls)

SignedOutStopped ==
  /\ Runs("signOut", "stop")
  /\ KillChild(task.host)
  /\ timers' = TimersWithout(task.host)
  /\ UNCHANGED <<session, flags, events>>
  /\ SignedOutEnds(FailAll(task.host))

\* stop(), for quitting.
QuitBegins ==
  /\ Runs("quit", "none")
  /\ UNCHANGED <<session, current, record, flags, timers, events>>
  /\ IF current # None THEN BeginStop(current, None)
                       ELSE UNCHANGED host /\ EndTask(report, calls)

QuitStopped ==
  /\ Runs("quit", "stop")
  /\ KillChild(task.host)
  /\ timers' = TimersWithout(task.host)
  /\ UNCHANGED <<session, record, flags, events>>
  /\ EndTask(report, FailAll(task.host))
-----------------------------------------------------------------------------
\* The host: its messages count while it is the current child and not revoked.

Lives(h) == host[h].proc \in {"opening", "open"}
Heard(h) == Lives(h) /\ current = h /\ ~host[h].revoked

HostReady(h) ==
  /\ Heard(h)
  /\ host[h].proc = "opening"
  /\ host' = [host EXCEPT ![h].ready = TRUE, ![h].proc = "open"]
  /\ UNCHANGED <<session, current, record, flags, timers, task, events>>
  /\ SetState("running", calls, Ensured(queue))

\* The server rejected the host's session, says a reply or the host itself.
HostRevoked(h) ==
  /\ Heard(h)
  /\ Event
  /\ host' = [host EXCEPT ![h].revoked = TRUE]
  /\ queue' = Append(queue, Task("revoked", h))
  /\ UNCHANGED <<session, current, report, record, flags, timers, calls, task>>

\* A failure that starting again does not cure.
HostFatal(h) ==
  /\ Heard(h)
  /\ host[h].proc = "opening"
  /\ Event
  /\ host' = [host EXCEPT ![h].expected = TRUE, ![h].proc = "dying"]
  /\ stuck' = TRUE
  /\ UNCHANGED <<session, current, lastUser, crashes, flags, timers, task>>
  /\ \E reason \in {"addonMissing", "baselineInUse"} : SetState(reason, calls, queue)

\* The process ends: by itself, or killed for what it sent.
HostBreaks(h) ==
  /\ Lives(h)
  /\ Event
  /\ host' = [host EXCEPT ![h].proc = "dying"]
  /\ UNCHANGED <<session, current, report, record, flags, timers, calls, queue, task>>

\* A slip: calls the host has not answered are left waiting.
ExitFailsNoCall(h) ==
  /\ host[h].proc = "dying"
  /\ host' = [host EXCEPT ![h] = [Gone EXCEPT !.blob = IF Named(h) THEN host[h].blob ELSE None]]
  /\ current' = IF current = h THEN None ELSE current
  /\ UNCHANGED <<session, lastUser, flags, task, events>>
  /\ IF current = h /\ ~host[h].expected /\ ~quitting
       THEN /\ CountCrash
            /\ timers' = CrashTimers(TimersWithout(h))
            /\ SetState(CrashReport, calls, queue)
       ELSE /\ timers' = TimersWithout(h)
            /\ UNCHANGED <<stuck, crashes>>
            /\ SetState(report, calls, queue)

\* onExit(h): of the current child it is a crash, unless it was asked for.
HostExits(h) ==
  /\ host[h].proc = "dying"
  /\ host' = [host EXCEPT ![h] = [Gone EXCEPT !.blob = IF Named(h) THEN host[h].blob ELSE None]]
  /\ current' = IF current = h THEN None ELSE current
  /\ UNCHANGED <<session, lastUser, flags, task, events>>
  /\ IF current = h /\ ~host[h].expected /\ ~quitting
       THEN /\ CountCrash
            /\ timers' = CrashTimers(TimersWithout(h))
            /\ SetState(CrashReport, FailAll(h), queue)
       ELSE /\ timers' = TimersWithout(h)
            /\ UNCHANGED <<stuck, crashes>>
            /\ SetState(report, FailAll(h), queue)

\* A host that was told to stop, and was not killed for it, exits when it is done.
HostCloses(h) ==
  /\ host[h].told
  /\ Lives(h)
  /\ host' = [host EXCEPT ![h].proc = "dying"]
  /\ UNCHANGED <<session, current, report, record, flags, timers, calls, queue, task, events>>

\* The host answers a call.
Reply(c) ==
  /\ calls[c].at = "calling"
  /\ Heard(calls[c].host)
  /\ calls' = [calls EXCEPT ![c] = Settled]
  /\ queue' = Settling(queue, calls')
  /\ UNCHANGED <<session, hosts, report, record, flags, timers, task, events>>

\* It does not, in time; or the host does not get ready in time.
CallTimesOut(c) ==
  /\ calls[c].at \in {"calling", "waiting"}
  /\ calls' = [calls EXCEPT ![c] = Settled]
  /\ queue' = Settling(queue, calls')
  /\ UNCHANGED <<session, hosts, report, record, flags, timers, task, events>>
-----------------------------------------------------------------------------
\* Timers.

RetryTimerFires ==
  /\ "retry" \in timers
  /\ timers' = timers \ {"retry"}
  /\ queue' = Ensured(queue)
  /\ UNCHANGED <<session, hosts, report, record, flags, calls, task, events>>

SessionTimerFires ==
  /\ "session" \in timers
  /\ timers' = timers \ {"session"}
  /\ queue' = Ensured(queue)
  /\ UNCHANGED <<session, hosts, report, record, flags, calls, task, events>>

IdleTimerFires ==
  /\ "idle" \in timers
  /\ timers' = timers \ {"idle"}
  /\ queue' = Append(queue, Task("idle", None))
  /\ UNCHANGED <<session, hosts, report, record, flags, calls, task, events>>

\* Ten minutes without a crash.
CrashWindowPasses ==
  /\ crashes \in 1..(CrashLoop - 1)
  /\ crashes' = 0
  /\ UNCHANGED <<session, hosts, report, stuck, lastUser, flags, timers, calls, queue, task,
                 events>>
-----------------------------------------------------------------------------
\* What the user and the page do.

\* A sign-in, or the credentials changed; it waits for a sign-out under way.
SignIn(b) ==
  /\ Act
  /\ ~signingOut /\ \A i \in 1..Len(queue) : queue[i].kind # "signOut"
  /\ vault # None => vault.user = b.user /\ vault.key < b.key
  /\ vault' = b
  /\ locked' = FALSE
  /\ timers' = IF current # None /\ host[current].blob = b
                 THEN timers \ {"session"} ELSE timers \cup {"session"}
  /\ UNCHANGED <<work, signingOut, hosts, report, record, flags, calls, queue, task>>

\* The session leaves the vault; the sign-out flow has begun.
SignOut ==
  /\ Act
  /\ vault # None /\ ~signingOut
  /\ vault' = None
  /\ locked' = FALSE
  /\ signingOut' = TRUE
  /\ UNCHANGED <<work, hosts, report, record, flags, timers, calls, queue, task>>

\* The flow calls signedOut().
CallSignedOut ==
  /\ signingOut
  /\ signingOut' = FALSE
  /\ timers' = timers \ {"session"}
  /\ queue' = Append(queue, Task("signOut", None))
  /\ UNCHANGED <<vault, locked, work, hosts, report, record, flags, calls, task, events>>

\* The keychain can be read from now on.
Unlock ==
  /\ locked
  /\ locked' = FALSE
  /\ UNCHANGED <<vault, work, signingOut, hosts, report, record, flags, timers, calls,
                 queue, task, events>>

\* ensure() from outside: the window is focused, the session is verified.
Ensure ==
  /\ Act
  /\ queue' = Ensured(queue)
  /\ UNCHANGED <<session, hosts, report, record, flags, timers, calls, task>>

Subscribe ==
  /\ Act
  /\ subscribed' = ~subscribed
  /\ queue' = Ensured(queue)
  /\ UNCHANGED <<session, hosts, report, record, quitting, timers, calls, task>>

\* A user's last pair or mount goes.
DropWork(u) ==
  /\ Act
  /\ u \in demand
  /\ demand' = demand \ {u} /\ noticed' = noticed \ {u}
  /\ queue' = Ensured(queue)
  /\ UNCHANGED <<vault, locked, signingOut, hosts, report, record, flags, timers, calls,
                 task>>

\* The first one comes, at any time: a mount's store is followed by ensure(), a
\* pair's is written after its calls settled, and by nothing.
AddWork(u) ==
  /\ Act
  /\ u \notin demand
  /\ demand' = demand \cup {u}
  /\ queue' \in {queue, Ensured(queue)}
  /\ UNCHANGED <<vault, locked, noticed, signingOut, hosts, report, record, flags, timers, calls,
                 task>>

\* retry(): a clean slate.
Retry ==
  /\ Act
  /\ report \in Failures
  /\ stuck' = FALSE
  /\ crashes' = 0
  /\ timers' = timers \ {"retry"}
  /\ queue' = Ensured(queue)
  /\ UNCHANGED <<session, hosts, report, lastUser, flags, calls, task>>

\* call(): at once through a host that is ready, else evaluated first.
Call(c) ==
  /\ Act
  /\ calls[c].at = "idle"
  /\ \E u \in CallFor :
       LET call == [at |-> "queued", user |-> u, host |-> None] IN
       IF current # None /\ host[current].ready
         THEN /\ calls' = [calls EXCEPT ![c] =
                             IF u \in {Anyone, host[current].blob.user}
                               THEN [call EXCEPT !.at = "calling", !.host = current]
                               ELSE Settled]
              /\ queue' = IF calls'[c].at = "idle" /\ ~InFlight(calls) /\ ~subscribed
                            THEN Ensured(queue) ELSE queue
         ELSE /\ calls' = [calls EXCEPT ![c] = call]
              /\ queue' = Append(queue, Task("evaluate", c))
  /\ UNCHANGED <<session, hosts, report, record, flags, timers, task>>

\* stop(): the app quits with a host to stop.
Quit ==
  /\ Act
  /\ current # None
  /\ quitting' = TRUE
  /\ timers' = {}
  /\ queue' = Append(queue, Task("quit", None))
  /\ UNCHANGED <<session, hosts, report, record, subscribed, calls, task>>
-----------------------------------------------------------------------------
RunTask ==
  \/ EvaluateBegins \/ VaultUnreadable \/ VaultEmpty \/ VaultRead
  \/ EvaluateStopped \/ DemandRead \/ DemandDecides \/ Fork \/ AddonAbsent \/ StartFails
  \/ IdleBegins \/ IdleDecides \/ IdleStopped
  \/ RevokedBegins \/ RevokedStopped \/ RevokedClears
  \/ SignedOutBegins \/ SignedOutStopped
  \/ QuitBegins \/ QuitStopped

Next ==
  \/ RunTask
  \/ \E h \in Hosts :
       \/ HostReady(h) \/ HostRevoked(h) \/ HostFatal(h) \/ HostBreaks(h)
       \/ HostExits(h) \/ HostCloses(h)
  \/ \E c \in Callers : Reply(c) \/ CallTimesOut(c) \/ Call(c)
  \/ RetryTimerFires \/ SessionTimerFires \/ IdleTimerFires \/ CrashWindowPasses
  \/ \E b \in Blob : SignIn(b)
  \/ SignOut \/ CallSignedOut \/ Unlock \/ Ensure \/ Subscribe
  \/ \E u \in Users : DropWork(u) \/ AddWork(u)
  \/ Retry \/ Quit

\* Node runs what is due; hosts open, answer and exit.  Nobody has to sign in,
\* call, focus or retry.
Fairness ==
  /\ WF_vars(RunTask)
  /\ WF_vars(RetryTimerFires) /\ WF_vars(SessionTimerFires) /\ WF_vars(CallSignedOut)
  /\ \A h \in Hosts : WF_vars(HostReady(h)) /\ WF_vars(HostExits(h))
  /\ \A c \in Callers : WF_vars(Reply(c))

Spec == Init /\ [][Next]_vars /\ Fairness
-----------------------------------------------------------------------------
\* The types hold; only the current child runs without having been told to stop:
\* starts, stops and restarts overlap in no other way (supervisor.ts "run one at
\* a time").
OneHost ==
  /\ TypeOK
  /\ \A h \in Hosts : Lives(h) /\ ~host[h].told => h = current

\* A restart is due only while there is no host, whatever crashed, stopped or
\* changed user meanwhile: the timer never starts a second one.
RestartsNothingTwice == "retry" \in timers => current = None

\* A call waits only on the host that is current: none is left waiting on one
\* that stopped, crashed or was replaced.
CallsReachTheHost ==
  \A c \in Callers : calls[c].at = "calling" => calls[c].host = current

\* Between tasks the state the pages see is the supervisor's own.
ReportIsTrue ==
  queue = <<>> /\ ~quitting /\ ~signingOut =>
    CASE report = "off" -> current = None
      [] report = "starting" -> current # None /\ ~host[current].ready
      [] report = "running" -> current # None /\ host[current].ready
      [] report = "restarting" -> "retry" \in timers
      [] OTHER -> TRUE

\* A session in the vault with work an evaluation has begun with, and nobody quitting.
Wanted(b) ==
  /\ vault = b /\ ~locked /\ ~quitting
  /\ subscribed \/ b.user \in noticed
Serves(b) == current # None /\ host[current].ready /\ host[current].blob = b

\* A session with work gets its host, or the pages see that it failed: no
\* restart, stop or change of session on the way is forgotten.  Work that was
\* added with nothing due counts from the next evaluation (see WorkIsServed).
HostComesUp ==
  ~locked => \A b \in Blob : Wanted(b) ~> (Serves(b) \/ ~Wanted(b) \/ stuck \/ report \in Failures)

\* Who waits for the host to get ready hears of it, or of its failure, without
\* the timeout (waitReady's resolution is in setState only).
WaitersHear ==
  \A c \in Callers :
    calls[c].at \in {"queued", "waiting"} ~> (calls[c].at \in {"idle", "calling"} \/ quitting)

(* Three that do not hold, and no run checks.                                *)

\* supervisor.ts:72, ensure() "Starts or stops the host as the session and demand
\* now say": addPair() raises demand and does not call it (sync/service.ts:662),
\* so a host that crashed and was not restarted for want of demand stays away.
WorkIsServed ==
  ~locked => \A b \in Blob :
    vault = b /\ ~locked /\ ~quitting /\ b.user \in demand ~>
      Serves(b) \/ vault # b \/ quitting \/ b.user \notin demand \/ stuck \/ report \in Failures

\* onRevoked "The server rejected the session of `userId`" and sessionChanged
\* "changed credentials restart the host with it": a revocation takes the
\* session its host ran with, never the one that replaced it.
RevocationTakesItsOwn ==
  [][RevokedClears => vault \in {None, host[task.host].blob}]_vars

\* signedOut() "settles once it exited (the sign-out deletes the user's engine
\* data then)".
SignedOutOnceExited ==
  [][SignedOutStopped => host[task.host].proc = "gone"]_vars
=============================================================================
