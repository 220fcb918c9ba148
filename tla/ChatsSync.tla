------------------------------ MODULE ChatsSync ------------------------------
(***************************************************************************)
(* packages/filen-mobile/src/features/chats/components/sync.tsx, class     *)
(* Sync, with chatsInflight.ts and the chats store: the chat outbox of the *)
(* mobile app.  A pass takes a snapshot of the queue and sends it, the     *)
(* chats side by side and the messages of a chat one after the other; the  *)
(* user sends, retries and removes messages meanwhile, and chats go.       *)
(*                                                                         *)
(* Messages are numbered by the time they were sent at (the clock is taken *)
(* not to go back), so a queue is the set of its messages.  The server     *)
(* takes no id from the app: a message sent twice arrives twice.           *)
(***************************************************************************)
EXTENDS OutboxSync

CONSTANTS Chats,
          MaxMessages,    \* bound: messages the user sends
          MaxRejections,  \* MAX_NON_RETRYABLE_REJECTIONS
          MaxMishaps,     \* bound: what goes wrong, offline periods and restarts included
          None

ASSUME ChatsAssumption ==
  /\ {MaxMessages, MaxMishaps} \subseteq Nat /\ MaxRejections \in Nat \ {0}
  /\ EmptyQueue = {} /\ None \notin Chats \cup Nat

VARIABLES rest,       \* what the pass has yet to settle of its snapshot
          landed,     \* chats whose request in progress the server performed
          errors,     \* inflightErrors: the rejections counted, None without an entry
          liveBefore, \* liveBeforeMerge: the chats the restore found messages in
          gone,       \* chats the server no longer has, or has us no longer in
          purged      \* of those, the ones the app has dropped

\* What the code does not keep and the properties need.
VARIABLES chatOf,     \* the chat of each message the user has sent
          arrivals,   \* how often each message arrived: not, once, or more
          unheard,    \* messages that arrived and may be sent again, their answer lost
          failed,     \* messages an attempt to send failed
          out,        \* messages withdrawn, or that ended with a process or a chat
          saved,      \* queued messages whose flush reached the disk
          mishaps     \* what went wrong so far

passVars  == <<rest, landed, errors, liveBefore>>
chatVars  == <<gone, purged>>
ghostVars == <<chatOf, arrivals, unheard, failed, out, saved>>
vars      == <<outboxVars, passVars, chatVars, ghostVars, mishaps>>

Messages == 1..MaxMessages
Sent == {m \in Messages : chatOf[m] # None}
In(c, queue) == {m \in queue : chatOf[m] = c}

\* Something goes wrong that no state of the network or the chats explains.
Mishap == mishaps < MaxMishaps /\ mishaps' = mishaps + 1
MishapUnless(explained) == IF explained THEN UNCHANGED mishaps ELSE Mishap

TypeOK ==
  /\ OutboxTypeOK(SUBSET Messages, {"sync", "none", "pass"})
  /\ rest \subseteq Sent /\ landed \subseteq Chats
  /\ errors \in [Messages -> 0..MaxRejections \cup {None}]
  /\ liveBefore \subseteq Chats /\ purged \subseteq gone /\ gone \subseteq Chats
  /\ chatOf \in [Messages -> Chats \cup {None}] /\ arrivals \in [Messages -> 0..2]
  /\ unheard \subseteq Sent /\ failed \subseteq Sent /\ out \subseteq Sent
  /\ saved \subseteq store \cup disk /\ mishaps \in 0..MaxMishaps

Init ==
  /\ OutboxInit
  /\ rest = {} /\ landed = {} /\ liveBefore = {} /\ gone = {} /\ purged = {}
  /\ errors = [m \in Messages |-> None]
  /\ chatOf = errors
  /\ arrivals = [m \in Messages |-> 0]
  /\ unheard = {} /\ failed = {} /\ out = {} /\ saved = {} /\ mishaps = 0
-----------------------------------------------------------------------------
(* start() and restoreFromDisk().                                          *)

SyncHostMounts ==
  /\ Start
  /\ UNCHANGED <<passVars, chatVars, ghostVars, mishaps>>

\* A slip: what is live already makes way for the row.
MergedByRow(current, fromDisk) == fromDisk

\* mergeInflightQueuesByUnion().
MergedByUnion(current, fromDisk) == current \cup fromDisk

\* The row is read and merged into what is live already.
RestoreReads ==
  /\ phase = "reading"
  /\ IF disk = {}
       THEN UNCHANGED <<store, liveBefore>> /\ FinishRestore(FALSE)
       ELSE /\ liveBefore' = {chatOf[m] : m \in store}
            /\ store' = MergedByUnion(store, disk)
            /\ phase' = "reconciling"
            /\ UNCHANGED <<gated, writes, waiting>>
  /\ UNCHANGED <<online, disk, pass, rest, landed, errors, chatVars, ghostVars, mishaps>>

\* The chats the row had messages in, and the list does not have.
Unlisted == {c \in gone : In(c, disk) # {}}

\* The chats have been listed: those of the row that are gone are dropped.
RestorePrunes ==
  /\ phase = "reconciling" /\ online
  /\ store' = {m \in store : chatOf[m] \notin Unlisted \ liveBefore}
  /\ FinishRestore(TRUE)
  /\ out' = out \cup (store \ store')
  /\ saved' = saved \cap store'
  /\ UNCHANGED <<online, disk, pass, passVars, chatVars, chatOf, arrivals, unheard, failed, mishaps>>

\* The list could not be had: the queue is kept.
RestoreKeepsAll ==
  /\ phase = "reconciling" /\ MishapUnless(~online)
  /\ UNCHANGED store
  /\ FinishRestore(TRUE)
  /\ UNCHANGED <<online, disk, pass, passVars, chatVars, ghostVars>>
-----------------------------------------------------------------------------
(* A pass.                                                                 *)

PassFindsNothing ==
  /\ waiting /\ MutexFree /\ store = {}
  /\ waiting' = FALSE
  /\ UNCHANGED <<phase, online, store, disk, gated, writes, pass, passVars, chatVars, ghostVars, mishaps>>

PassBegins ==
  /\ waiting /\ MutexFree /\ store # {}
  /\ waiting' = FALSE
  /\ pass' = "body"
  /\ rest' = store
  /\ UNCHANGED <<phase, online, store, disk, gated, writes, landed, errors, liveBefore,
                 chatVars, ghostVars, mishaps>>

\* A slip: the snapshot's order, which the restore's merge does not sort.
IsNextUnsorted(m, c) == m \in In(c, rest) /\ \A other \in In(c, rest) : m >= other

\* The message chat c's part of the pass is about: the earliest it has left.
IsNext(m, c) == m \in In(c, rest) /\ \A other \in In(c, rest) : m <= other

\* The server performs sendChatMessage().
Arrives(m, c) ==
  /\ IsNext(m, c) /\ c \notin landed
  /\ online /\ c \notin gone
  /\ landed' = landed \cup {c}
  /\ arrivals' = [arrivals EXCEPT ![m] = IF @ < 2 THEN @ + 1 ELSE @]
  /\ UNCHANGED <<outboxVars, rest, errors, liveBefore, chatVars, chatOf, unheard, failed,
                 out, saved, mishaps>>

\* The request came back well, leaving `queue` and `entries`.
SettleSuccess(m, c, queue, entries) ==
  /\ IsNext(m, c) /\ c \in landed
  /\ rest' = rest \ {m}
  /\ landed' = landed \ {c}
  /\ errors' = entries
  /\ store' = queue
  /\ saved' = saved \cap store'
  /\ UNCHANGED <<phase, online, disk, gated, writes, waiting, pass, liveBefore, chatVars,
                 chatOf, arrivals, unheard, failed, out, mishaps>>

\* Slips: the snapshot is written back without what was sent; what was sent
\* stays queued.
SendReturnsSnapshot(m, c) == SettleSuccess(m, c, rest \ {m}, [errors EXCEPT ![m] = None])
SendReturnsQueued(m, c) == SettleSuccess(m, c, store, [errors EXCEPT ![m] = None])

\* sendMessage() resolved; marking the chat as read, before, may fail unheard.
SendReturns(m, c) == SettleSuccess(m, c, store \ {m}, [errors EXCEPT ![m] = None])

Rejections(m) == IF errors[m] = None THEN 0 ELSE errors[m]

\* A slip: an off-by-one in the bound on the strikes.
GivesUpLate(rejections) == rejections > MaxRejections

GivesUp(rejections) == rejections >= MaxRejections

\* The loop's catch: an error entry, and the message is given up with the last
\* strike.  The next message follows.
SettleFailure(m, c, rejections) ==
  /\ rest' = rest \ {m}
  /\ landed' = landed \ {c}
  /\ errors' = [errors EXCEPT ![m] = rejections]
  /\ store' = IF GivesUp(rejections) THEN store \ {m} ELSE store
  /\ saved' = saved \cap store'
  /\ failed' = failed \cup {m}
  /\ unheard' = IF c \in landed THEN unheard \cup {m} ELSE unheard
  /\ UNCHANGED <<phase, online, disk, gated, writes, waiting, pass, liveBefore, chatVars,
                 chatOf, arrivals, out>>

\* The request fails in a way a later attempt may not, or its answer is lost.
SendFails(m, c) ==
  /\ IsNext(m, c)
  /\ MishapUnless(c \notin landed /\ ~online)
  /\ SettleFailure(m, c, Rejections(m))

SendRejected(m, c) ==
  /\ IsNext(m, c) /\ c \notin landed
  /\ online /\ MishapUnless(c \in gone)
  /\ SettleFailure(m, c, Rejections(m) + 1)

\* Every chat is through: the pass flushes the queue as it is now.
PassFlushes ==
  /\ pass = "body" /\ rest = {}
  /\ pass' = "flushing"
  /\ Flush(store, "pass")
  /\ UNCHANGED <<phase, online, store, disk, waiting, passVars, chatVars, ghostVars, mishaps>>

\* A slip: a send whose row could not be written is not delivered either.
GoesOnIfWritten(then, ok) == IF then = "sync" /\ ok THEN CallSync ELSE UNCHANGED waiting

\* What a caller does once its flush is written, or is not.
GoesOn(then, ok) == IF then = "sync" THEN CallSync ELSE UNCHANGED waiting

\* Of the queue just written, what the row has from now on.  A message that
\* failed may have left the queue and come back since; later flushes tell.
Persisted(queue) ==
  {m \in store \cap queue :
     m \in failed => \A i \in 2..Len(writes) : m \in writes[i].queue}

\* SQLite is done with the oldest write; its caller goes on.
WriteReturns(ok) ==
  /\ WriteOldest(ok) /\ MishapUnless(ok)
  /\ pass' = IF Head(writes).then = "pass" THEN "none" ELSE pass
  /\ GoesOn(Head(writes).then, ok)
  /\ saved' = IF ok THEN saved \cup Persisted(Head(writes).queue) ELSE saved
  /\ UNCHANGED <<store, passVars, chatVars, chatOf, arrivals, unheard, failed, out>>
-----------------------------------------------------------------------------
(* The user, and the chats.                                                *)

\* Send.  Before the restore has read the row, what the row holds may be
\* overwritten by this one's flush: see SavedSurvives.
SendMessage(m, c) ==
  /\ phase # "off" /\ FlushRoom
  /\ m \notin Sent /\ \A other \in Messages : other < m => other \in Sent
  /\ c \notin purged
  /\ chatOf' = [chatOf EXCEPT ![m] = c]
  /\ store' = store \cup {m}
  /\ Flush(store', "sync")
  /\ saved' = IF phase = "reading" THEN {} ELSE saved
  /\ UNCHANGED <<phase, online, disk, waiting, pass, passVars, chatVars,
                 arrivals, unheard, failed, out, mishaps>>

\* retryInflightMessage(), offered on a message with an error.
RetryMessage(m) ==
  /\ phase # "off" /\ FlushRoom
  /\ errors[m] # None /\ chatOf[m] \notin purged
  /\ store' = store \cup {m}
  /\ errors' = [errors EXCEPT ![m] = None]
  /\ Flush(store', "sync")
  /\ out' = out \ {m}
  /\ UNCHANGED <<phase, online, disk, waiting, pass, rest, landed, liveBefore, chatVars,
                 chatOf, arrivals, unheard, failed, saved, mishaps>>

\* removeInflightMessage(), offered likewise.
RemoveMessage(m) ==
  /\ phase # "off" /\ FlushRoom
  /\ errors[m] # None /\ chatOf[m] \notin purged
  /\ store' = store \ {m}
  /\ errors' = [errors EXCEPT ![m] = None]
  /\ Flush(store', "none")
  /\ out' = out \cup {m}
  /\ saved' = saved \ {m}
  /\ UNCHANGED <<phase, online, disk, waiting, pass, rest, landed, liveBefore, chatVars,
                 chatOf, arrivals, unheard, failed, mishaps>>

\* A chat is deleted or left, here or elsewhere.
ChatGoes(c) ==
  /\ c \notin gone /\ Mishap
  /\ gone' = gone \cup {c}
  /\ UNCHANGED <<outboxVars, passVars, purged, ghostVars>>

\* purgeChatInflightState(): after delete(), leave() or ConversationDeleted.
Purge(c) ==
  /\ phase # "off" /\ FlushRoom
  /\ c \in gone \ purged
  /\ purged' = purged \cup {c}
  /\ store' = store \ In(c, store)
  /\ errors' = [m \in Messages |-> IF chatOf[m] = c THEN None ELSE errors[m]]
  /\ Flush(store', "none")
  /\ out' = out \cup In(c, store) \cup {m \in In(c, Sent) : errors[m] # None}
  /\ saved' = IF phase = "reading" THEN {} ELSE saved \cap store'
  /\ UNCHANGED <<phase, online, disk, waiting, pass, rest, landed, liveBefore, gone,
                 chatOf, arrivals, unheard, failed, mishaps>>

\* The app comes to the front or leaves it.
AppStateChanges ==
  /\ CallSync
  /\ UNCHANGED <<phase, online, store, disk, gated, writes, pass, passVars, chatVars, ghostVars, mishaps>>

GoesOffline ==
  /\ online /\ online' = FALSE /\ Mishap
  /\ UNCHANGED <<phase, store, disk, gated, writes, waiting, pass, passVars, chatVars, ghostVars>>

\* The network comes back: the reconnect listener's syncNow().
GoesOnline ==
  /\ ~online /\ online' = TRUE
  /\ waiting' = (waiting \/ phase # "off")
  /\ UNCHANGED <<phase, store, disk, gated, writes, pass, passVars, chatVars, ghostVars, mishaps>>

\* The process ends: of the messages, those in the row are left.
Crashes ==
  /\ Mishap
  /\ CrashOutbox
  /\ rest' = {} /\ landed' = {} /\ liveBefore' = {}
  /\ errors' = [m \in Messages |-> None]
  /\ unheard' = unheard \cup {m \in disk : arrivals[m] > 0}
  /\ out' = Sent \ disk
  /\ saved' = disk
  /\ UNCHANGED <<chatVars, chatOf, arrivals, failed>>
-----------------------------------------------------------------------------
System ==
  \/ SyncHostMounts \/ RestoreReads \/ RestorePrunes \/ RestoreKeepsAll
  \/ PassFindsNothing \/ PassBegins \/ PassFlushes
  \/ \E m \in Messages, c \in Chats :
       Arrives(m, c) \/ SendReturns(m, c) \/ SendFails(m, c) \/ SendRejected(m, c)
  \/ \E ok \in BOOLEAN : WriteReturns(ok)

Environment ==
  \/ \E m \in Messages : RetryMessage(m) \/ RemoveMessage(m)
  \/ \E m \in Messages, c \in Chats : SendMessage(m, c)
  \/ \E c \in Chats : ChatGoes(c) \/ Purge(c)
  \/ AppStateChanges \/ GoesOffline \/ GoesOnline \/ Crashes

Next == System \/ Environment

\* The code and SQLite go on, a request is answered, the network comes back
\* and a process that ended is started again.  The user owes nothing.
Spec == Init /\ [][Next]_vars /\ WF_vars(System) /\ WF_vars(GoesOnline)
-----------------------------------------------------------------------------
\* A message arrives twice only if the answer of an earlier arrival did not
\* come, or the process ended before the row was rewritten without it: no order
\* of passes, retries and restores sends what was sent (chats.ts:85-89).
AtMostOnce == \A m \in Messages : arrivals[m] > 1 => m \in unheard

\* A message the user sent is queued, arrived, shown as failed, or was
\* withdrawn or lost with its chat or its process: no pass, restore or retry
\* loses one that was sent while it ran.
NothingVanishes ==
  /\ TypeOK
  /\ \A m \in Sent \ out : \/ m \in store
                           \/ arrivals[m] > 0
                           \/ errors[m] # None
                           \/ m \in disk /\ phase \in {"off", "reading"}

\* What was removed or purged does not come back into the queue: the pass that
\* still holds it, and a restore that merges the row, leave it out.
WithdrawnStaysOut == store \cap out = {}

\* What a flush has written stays in the row while the message is queued, so
\* the end of the process does not lose it.  A send or a purge before the
\* restore has read the row is excepted: its flush overwrites the row.
SavedSurvives == saved \subseteq disk

\* A message overtakes an earlier one of its chat only when that one failed.
ArrivesInOrder ==
  [][\A m \in Messages : arrivals'[m] # arrivals[m] =>
       \A earlier \in In(chatOf[m], 1..(m - 1)) \ (failed \cup out) : arrivals[earlier] > 0]_vars

\* Every queued message is sent, shown as failed, or taken out in the end,
\* with the network and the process coming and going.
SendsAnswered ==
  \A m \in Messages : (m \in store) ~> (m \notin store \/ errors[m] # None)
-----------------------------------------------------------------------------
(* What the code says elsewhere and does not keep: no run checks these two.  *)

\* sync.tsx:51-53: a chat that gained messages during the restore is not pruned.
PruneSparesLive ==
  [][phase = "reconciling" /\ phase' = "ready" =>
       \A c \in Chats : In(c, store) \ disk # {} => In(c, store) \subseteq store']_vars

\* chats.ts:282-283, chatsInflight.ts:96: no request is begun for a message that
\* was removed, or whose chat was purged.
NeverSentOnceOut ==
  [][\A m \in Messages, c \in Chats :
       IsNext(m, c)' /\ ~IsNext(m, c) => m \notin out]_vars
=============================================================================
