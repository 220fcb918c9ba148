----------------------------- MODULE ChatsProofs -----------------------------
(***************************************************************************)
(* Theorems on ChatsSync: what a chat's outbox promises of its messages    *)
(* holds for any chats, messages, bounds and mishaps.                      *)
(***************************************************************************)
EXTENDS ChatsSync, TLAPS

\* Flushes called and not yet written: they wait for the restore, then for
\* SQLite.
Pending == IF phase = "ready" THEN writes ELSE gated
Waits == 1..Len(Pending)

Calls == [queue : SUBSET Messages, then : {"sync", "none", "pass"}]

\* The request for m was performed and its answer is to come.
InFlight(m) == chatOf[m] \in landed /\ IsNext(m, chatOf[m])

\* Where flushes wait: at the gate until the restore is over.
Gates ==
  /\ IF phase = "ready" THEN gated = <<>> ELSE writes = <<>>
  /\ phase = "off" => store = {} /\ gated = <<>>

\* A pass that flushes has called one flush, and no other pass has.
OnePass ==
  \A i \in Waits : Pending[i].then = "pass" =>
    pass = "flushing" /\ \A j \in Waits : Pending[j].then = "pass" => i = j

\* Whatever is queued anywhere was sent, and messages are sent in order.
Numbered ==
  /\ store \cup disk \subseteq Sent
  /\ \A i \in Waits : Pending[i].queue \subseteq Sent
  /\ \A m \in Sent : 1..m \subseteq Sent
  /\ \A m \in Messages \ Sent : arrivals[m] = 0

\* Only a pass sends, and counts strikes; a message with the last one is out.
Sending ==
  /\ pass # "body" => rest = {}
  /\ phase # "ready" => pass = "none" /\ \A m \in Messages : errors[m] = None
  /\ \A m \in Messages : errors[m] # None => m \in failed
  /\ \A m \in store \cup rest : errors[m] # MaxRejections
  /\ \A c \in landed : \E m \in In(c, rest) : IsNext(m, c) /\ arrivals[m] > 0

\* A message that arrived, and whose answer was or will be heard, is about to
\* leave the queue or has left it; the row it may still be in is not restored.
Delivered ==
  \A m \in Sent \ unheard : arrivals[m] > 0 =>
    /\ phase \in {"off", "reading"} => m \notin disk
    /\ m \in store \cup rest \/ errors[m] # None => InFlight(m)

\* Until the row is read, it and what the new process sends are apart.
Apart ==
  phase \in {"off", "reading"} =>
    /\ disk \cap (store \cup out) = {}
    /\ \A i \in Waits : Pending[i].queue \cap disk = {}
    /\ gated # <<>> => saved = {}

\* What is saved, no write to come takes out of the row; nor does one what an
\* earlier one put there, unless it is a message that failed.
Lasting ==
  /\ phase \in {"reconciling", "ready"} => saved \subseteq store
  /\ \A i \in Waits : saved \subseteq Pending[i].queue
  /\ \A i, j \in Waits : i < j => (store \cap Pending[i].queue) \ failed \subseteq Pending[j].queue

\* Of the messages of a chat, the pass has left those that follow.
InOrder ==
  \A m \in rest, e \in store \ failed :
    e < m /\ chatOf[e] = chatOf[m] => e \in rest \/ arrivals[e] > 0

ChatsInv ==
  /\ NothingVanishes /\ AtMostOnce /\ WithdrawnStaysOut /\ SavedSurvives
  /\ Gates /\ OnePass /\ Numbered /\ Sending /\ Delivered /\ Apart /\ Lasting /\ InOrder
-----------------------------------------------------------------------------
\* What changes nothing but the triggers, the network and the chats.
Quiet ==
  UNCHANGED <<phase, store, disk, gated, writes, pass, passVars, ghostVars>>

\* A request that fails, or is rejected.
Fails(m, c) ==
  /\ IsNext(m, c)
  /\ \E rejections \in {Rejections(m), Rejections(m) + 1} : SettleFailure(m, c, rejections)

\* The steps there are.
LEMMA ChatsSteps ==
  ASSUME [Next]_vars
  PROVE  \/ Quiet \/ SyncHostMounts \/ RestoreReads \/ RestorePrunes \/ RestoreKeepsAll
         \/ PassBegins \/ PassFlushes \/ Crashes
         \/ \E ok \in BOOLEAN : WriteReturns(ok)
         \/ \E m \in Messages : RetryMessage(m) \/ RemoveMessage(m)
         \/ \E m \in Messages, c \in Chats :
              Arrives(m, c) \/ SendReturns(m, c) \/ Fails(m, c) \/ SendMessage(m, c)
         \/ \E c \in Chats : Purge(c)
<1>1. CASE System
  BY <1>1 DEF System, Quiet, PassFindsNothing, SendFails, SendRejected, Fails, ghostVars,
              passVars
<1>2. CASE Environment
  BY <1>2 DEF Environment, Quiet, ChatGoes, AppStateChanges, GoesOffline, GoesOnline, outboxVars,
              ghostVars, passVars
<1>3. CASE UNCHANGED vars
  BY <1>3 DEF vars, Quiet, outboxVars, ghostVars, passVars
<1>4. QED BY <1>1, <1>2, <1>3 DEF Next
-----------------------------------------------------------------------------
\* The flushes that wait, through the steps that move them.

LEMMA PendingType ==
  ASSUME TypeOK
  PROVE  /\ Pending \in Seq(Calls) /\ Len(Pending) \in Nat
         /\ \A i \in Waits : Pending[i] \in Calls /\ Pending[i].queue \subseteq Messages
<1>1. Pending \in Seq(Calls)
  BY DEF TypeOK, OutboxTypeOK, Pending, Calls
<1>2. \A i \in 1..Len(Pending) : Pending[i] \in Calls
  BY <1>1
<1>3. QED BY <1>1, <1>2 DEF Waits, Calls

LEMMA FlushWaits ==
  ASSUME TypeOK, Gates, NEW queue \in SUBSET Messages, NEW then \in {"sync", "none", "pass"},
         Flush(queue, then), phase' = phase
  PROVE  /\ gated' \in Seq(Calls) /\ writes' \in Seq(Calls)
         /\ IF phase = "ready" THEN gated' = <<>> ELSE writes' = <<>>
         /\ Waits' = Waits \cup {Len(Pending) + 1} /\ Len(Pending) + 1 \notin Waits
         /\ \A i \in Waits : Pending'[i] = Pending[i] /\ i < Len(Pending) + 1
         /\ Pending'[Len(Pending) + 1] = [queue |-> queue, then |-> then]
<1> DEFINE call == [queue |-> queue, then |-> then]
<1>1. call \in Calls
  BY DEF Calls
<1>2. gated \in Seq(Calls) /\ writes \in Seq(Calls)
  BY DEF TypeOK, OutboxTypeOK, Calls
<1>3. Pending' = Append(Pending, call) /\ (IF phase = "ready" THEN gated' = <<>> ELSE writes' = <<>>)
  BY DEF Flush, Gates, Pending
<1>4. /\ Len(Append(Pending, call)) = Len(Pending) + 1 /\ Len(Pending) \in Nat
      /\ \A i \in 1..Len(Pending) : Append(Pending, call)[i] = Pending[i]
      /\ Append(Pending, call)[Len(Pending) + 1] = call
      /\ Append(Pending, call) \in Seq(Calls)
  <2> Pending \in Seq(Calls)
    BY PendingType
  <2> HIDE DEF call
  <2> QED BY <1>1
<1>5. gated' \in Seq(Calls) /\ writes' \in Seq(Calls)
  BY <1>2, <1>3, <1>4 DEF Pending, Flush
<1>6. QED BY <1>3, <1>4, <1>5 DEF Waits

LEMMA FinishKeeps ==
  ASSUME TypeOK, Gates, phase # "ready", FinishRestore(TRUE) \/ FinishRestore(FALSE)
  PROVE  /\ gated' = <<>> /\ writes' \in Seq(Calls) /\ phase' = "ready"
         /\ Pending' = Pending /\ Waits' = Waits
<1>1. writes' = gated
  BY DEF FinishRestore, Gates, TypeOK, OutboxTypeOK
<1>2. QED BY <1>1 DEF FinishRestore, Pending, Waits, TypeOK, OutboxTypeOK, Calls

LEMMA WriteTakes ==
  ASSUME TypeOK, Gates, NEW ok \in BOOLEAN, WriteReturns(ok)
  PROVE  /\ phase = "ready" /\ phase' = "ready" /\ gated' = <<>> /\ writes' \in Seq(Calls)
         /\ 1 \in Waits /\ Pending = writes /\ Head(writes) = Pending[1]
         /\ disk' = IF ok THEN Pending[1].queue ELSE disk
         /\ \A i \in Waits' : i + 1 \in Waits /\ Pending'[i] = Pending[i + 1]
         /\ \A i \in Waits' : i + 1 \in 2..Len(writes)
<1>1. writes \in Seq(Calls) /\ writes # <<>> /\ writes' = Tail(writes)
  BY DEF TypeOK, OutboxTypeOK, Calls, WriteReturns, WriteOldest
<1>2. phase = "ready" /\ phase' = "ready" /\ gated' = <<>>
  BY <1>1 DEF Gates, WriteReturns, WriteOldest
<1>3. /\ Len(Tail(writes)) = Len(writes) - 1 /\ Len(writes) \in Nat \ {0}
      /\ \A i \in 1..Len(Tail(writes)) : Tail(writes)[i] = writes[i + 1]
      /\ Head(writes) = writes[1] /\ Tail(writes) \in Seq(Calls)
  BY <1>1
<1>4. QED BY <1>1, <1>2, <1>3 DEF Pending, Waits, WriteReturns, WriteOldest

\* The steps that leave the flushes as they wait.
LEMMA FlushesStay ==
  ASSUME TypeOK, Gates,
         \/ Quiet \/ SyncHostMounts \/ RestoreReads \/ RestorePrunes \/ RestoreKeepsAll \/ PassBegins
         \/ \E m \in Messages, c \in Chats : Arrives(m, c) \/ SendReturns(m, c) \/ Fails(m, c)
  PROVE  Pending' = Pending /\ Waits' = Waits /\ Gates'
<1>1. CASE Quiet
  BY <1>1 DEF Quiet, Pending, Waits, Gates
<1>2. CASE SyncHostMounts
  BY <1>2 DEF SyncHostMounts, Start, Pending, Waits, Gates
<1>3. ASSUME phase # "ready", FinishRestore(TRUE) \/ FinishRestore(FALSE)
      PROVE  Pending' = Pending /\ Waits' = Waits /\ Gates'
  <2>1. gated' = <<>> /\ phase' = "ready" /\ Pending' = Pending /\ Waits' = Waits
    BY <1>3, FinishKeeps
  <2>2. QED BY <2>1 DEF Gates
<1>4. CASE RestoreReads
  <2>1. CASE disk = EmptyQueue
    BY <1>3, <1>4, <2>1, ChatsAssumption DEF RestoreReads
  <2>2. CASE disk # EmptyQueue
    BY <1>4, <2>2, ChatsAssumption DEF RestoreReads, Pending, Waits, Gates
  <2>3. QED BY <2>1, <2>2
<1>5. CASE RestorePrunes \/ RestoreKeepsAll
  BY <1>3, <1>5 DEF RestorePrunes, RestoreKeepsAll
<1>6. CASE PassBegins
  BY <1>6 DEF PassBegins, MutexFree, Pending, Waits, Gates
<1>7. CASE \E m \in Messages, c \in Chats : Arrives(m, c)
  BY <1>7 DEF Arrives, outboxVars, Pending, Waits, Gates
<1>8. ASSUME NEW m \in Messages, NEW c \in Chats, SendReturns(m, c) \/ Fails(m, c)
      PROVE  Pending' = Pending /\ Waits' = Waits /\ Gates'
  <2>1. UNCHANGED <<phase, gated, writes>> /\ store' \subseteq store
    BY <1>8 DEF SendReturns, SettleSuccess, Fails, SettleFailure
  <2>2. QED BY <2>1 DEF Pending, Waits, Gates
<1>9. QED BY <1>1, <1>2, <1>4, <1>5, <1>6, <1>7, <1>8

\* The steps that call a flush of the queue as they leave it.
LEMMA FlushIsCalled ==
  ASSUME TypeOK, TypeOK', Gates, Sending,
         \/ PassFlushes
         \/ \E m \in Messages : RetryMessage(m) \/ RemoveMessage(m)
         \/ \E m \in Messages, c \in Chats : SendMessage(m, c)
         \/ \E c \in Chats : Purge(c)
  PROVE  /\ phase' = phase /\ Gates'
         /\ Len(Pending) \in Nat
         /\ Waits' = Waits \cup {Len(Pending) + 1} /\ Len(Pending) + 1 \notin Waits
         /\ \A i \in Waits : Pending'[i] = Pending[i] /\ i < Len(Pending) + 1
         /\ Pending'[Len(Pending) + 1].queue = store'
         /\ ~PassFlushes => Pending'[Len(Pending) + 1].then # "pass"
<1>1. /\ phase' = phase /\ phase # "off"
      /\ \E then \in {"sync", "none", "pass"} :
           Flush(store', then) /\ (then = "pass" => PassFlushes)
  BY DEF PassFlushes, RetryMessage, RemoveMessage, SendMessage, Purge, Sending
<1>2. PICK then \in {"sync", "none", "pass"} :
        Flush(store', then) /\ (then = "pass" => PassFlushes)
  BY <1>1
<1>3. store' \in SUBSET Messages
  BY DEF TypeOK, OutboxTypeOK
<1>4. /\ IF phase = "ready" THEN gated' = <<>> ELSE writes' = <<>>
      /\ Waits' = Waits \cup {Len(Pending) + 1} /\ Len(Pending) + 1 \notin Waits
      /\ \A i \in Waits : Pending'[i] = Pending[i] /\ i < Len(Pending) + 1
      /\ Pending'[Len(Pending) + 1] = [queue |-> store', then |-> then]
  BY <1>1, <1>2, <1>3, FlushWaits
<1>5. Len(Pending) \in Nat
  BY PendingType
<1>6. QED BY <1>1, <1>2, <1>4, <1>5 DEF Gates

LEMMA CrashClears ==
  ASSUME Crashes
  PROVE  Pending' = <<>> /\ Waits' = {} /\ Gates'
BY ChatsAssumption DEF Crashes, CrashOutbox, Pending, Waits, Gates
-----------------------------------------------------------------------------
\* The types.
LEMMA ChatsTypes == ChatsInv /\ [Next]_vars => TypeOK'
<1> SUFFICES ASSUME ChatsInv, [Next]_vars
             PROVE  TypeOK'
  OBVIOUS
<1>0. TypeOK /\ Gates /\ Numbered /\ Sending
  BY DEF ChatsInv, NothingVanishes
<1>a. gated \in Seq(Calls) /\ writes \in Seq(Calls) /\ store \cup disk \subseteq Sent
      /\ saved \subseteq store \cup disk /\ Sent \subseteq Messages
  BY <1>0 DEF TypeOK, OutboxTypeOK, Calls, Numbered, Sent
<1>b. mishaps' = mishaps \/ Mishap => mishaps' \in 0..MaxMishaps
  BY <1>0, ChatsAssumption DEF TypeOK, Mishap
<1>c. phase # "ready" /\ (FinishRestore(TRUE) \/ FinishRestore(FALSE))
        => gated' \in Seq(Calls) /\ writes' \in Seq(Calls) /\ phase' = "ready"
  <2> SUFFICES ASSUME phase # "ready", FinishRestore(TRUE) \/ FinishRestore(FALSE)
               PROVE  gated' \in Seq(Calls) /\ writes' \in Seq(Calls) /\ phase' = "ready"
    OBVIOUS
  <2>1. gated' = <<>> /\ writes' \in Seq(Calls) /\ phase' = "ready"
    BY <1>0, FinishKeeps
  <2>2. QED BY <2>1
<1>d. ASSUME NEW ok \in BOOLEAN, WriteReturns(ok)
      PROVE  /\ gated' \in Seq(Calls) /\ writes' \in Seq(Calls) /\ phase' = "ready" /\ 1 \in Waits
             /\ disk' = (IF ok THEN Pending[1].queue ELSE disk) /\ Head(writes) = Pending[1]
  <2>1. gated' = <<>> /\ writes' \in Seq(Calls) /\ phase' = "ready"
    BY <1>0, <1>d, WriteTakes
  <2>2. 1 \in Waits /\ disk' = (IF ok THEN Pending[1].queue ELSE disk) /\ Head(writes) = Pending[1]
    BY <1>0, <1>d, WriteTakes
  <2>3. QED BY <2>1, <2>2
<1>e. \A m \in store : chatOf[m] \in Chats
  BY <1>0, <1>a DEF TypeOK, Sent
<1>f. disk # {} /\ RestoreReads => liveBefore' \subseteq Chats
  BY <1>e, ChatsAssumption DEF RestoreReads
<1> USE <1>0, <1>a, <1>b, ChatsAssumption DEF TypeOK, OutboxTypeOK
<1>1. CASE SyncHostMounts
  BY <1>1 DEF SyncHostMounts, Start, Sent, passVars, chatVars, ghostVars
<1>2. CASE RestoreReads
  <2>1. CASE disk = {}
    <3>0. phase # "ready" /\ FinishRestore(FALSE)
      BY <1>2, <2>1 DEF RestoreReads
    <3>1. gated' \in Seq(Calls) /\ writes' \in Seq(Calls) /\ phase' = "ready"
      BY <3>0, <1>c
    <3>2. QED BY <1>2, <2>1, <3>1 DEF RestoreReads, FinishRestore, Sent, Calls, chatVars, ghostVars
  <2>2. CASE disk # {}
    <3>1. liveBefore' \subseteq Chats
      BY <1>2, <2>2, <1>f
    <3>2. QED BY <1>2, <2>2, <3>1 DEF RestoreReads, MergedByUnion, Sent, chatVars, ghostVars
  <2>3. QED BY <2>1, <2>2
<1>3. CASE RestorePrunes
  <2>0. phase # "ready" /\ FinishRestore(TRUE)
    BY <1>3 DEF RestorePrunes
  <2>1. gated' \in Seq(Calls) /\ writes' \in Seq(Calls) /\ phase' = "ready"
    BY <2>0, <1>c
  <2>2. store' \subseteq store
    BY <1>3 DEF RestorePrunes
  <2>3. QED BY <1>3, <2>1, <2>2 DEF RestorePrunes, FinishRestore, Sent, Calls, passVars, chatVars
<1>4. CASE RestoreKeepsAll
  <2>0. phase # "ready" /\ FinishRestore(TRUE)
    BY <1>4 DEF RestoreKeepsAll
  <2>1. gated' \in Seq(Calls) /\ writes' \in Seq(Calls) /\ phase' = "ready"
    BY <2>0, <1>c
  <2>2. QED BY <1>4, <2>1 DEF RestoreKeepsAll, MishapUnless, FinishRestore, Sent, Calls, passVars,
                              chatVars, ghostVars
<1>5. CASE PassFindsNothing
  BY <1>5 DEF PassFindsNothing, Sent, passVars, chatVars, ghostVars
<1>6. CASE PassBegins
  BY <1>6 DEF PassBegins, Sent, chatVars, ghostVars
<1>7. CASE PassFlushes
  <2>1. gated' \in Seq(Calls) /\ writes' \in Seq(Calls)
    BY <1>7, FlushWaits DEF PassFlushes
  <2>2. QED BY <1>7, <2>1 DEF PassFlushes, Sent, Calls, passVars, chatVars, ghostVars
<1>8. ASSUME NEW m \in Messages, NEW c \in Chats, Arrives(m, c)
      PROVE  TypeOK'
  BY <1>8 DEF Arrives, Sent, outboxVars, chatVars
<1>9. ASSUME NEW m \in Messages, NEW c \in Chats, SendReturns(m, c)
      PROVE  TypeOK'
  BY <1>9 DEF SendReturns, SettleSuccess, Sent, chatVars
<1>10. ASSUME NEW m \in Messages, NEW c \in Chats, SendFails(m, c) \/ SendRejected(m, c)
       PROVE  TypeOK'
  <2>1. PICK rejections \in {Rejections(m), Rejections(m) + 1} : SettleFailure(m, c, rejections)
    BY <1>10 DEF SendFails, SendRejected
  <2>2. m \in rest /\ m \in Sent /\ (mishaps' = mishaps \/ Mishap)
    BY <1>10 DEF SendFails, SendRejected, IsNext, In, MishapUnless
  <2>3. rejections \in 0..MaxRejections
    BY <2>2 DEF Sending, Rejections
  <2>4. QED BY <2>1, <2>2, <2>3 DEF SettleFailure, Sent, chatVars
<1>11. ASSUME NEW ok \in BOOLEAN, WriteReturns(ok)
       PROVE  TypeOK'
  <2>1. gated' \in Seq(Calls) /\ writes' \in Seq(Calls) /\ phase' = "ready"
    BY <1>11, <1>d
  <2>2. 1 \in Waits /\ disk' = (IF ok THEN Pending[1].queue ELSE disk) /\ Head(writes) = Pending[1]
    BY <1>11, <1>d
  <2>3. Pending[1].queue \subseteq Messages
    BY <2>2, PendingType
  <2>4. waiting' \in BOOLEAN
    BY <1>11 DEF WriteReturns, GoesOn, CallSync, RunsPass
  <2>5. saved' \subseteq store' \cup disk' /\ mishaps' \in 0..MaxMishaps
    BY <1>11, <2>2 DEF WriteReturns, Persisted, MishapUnless, ChatsInv, SavedSurvives, Lasting
  <2>6. QED BY <1>11, <2>1, <2>2, <2>3, <2>4, <2>5
            DEF WriteReturns, WriteOldest, Sent, Calls, passVars, chatVars
<1>12. ASSUME NEW m \in Messages, RetryMessage(m)
       PROVE  TypeOK'
  <2>1. gated' \in Seq(Calls) /\ writes' \in Seq(Calls)
    BY <1>12, FlushWaits DEF RetryMessage
  <2>2. QED BY <1>12, <2>1 DEF RetryMessage, Sent, Calls, chatVars
<1>13. ASSUME NEW m \in Messages, RemoveMessage(m)
       PROVE  TypeOK'
  <2>1. gated' \in Seq(Calls) /\ writes' \in Seq(Calls)
    BY <1>13, FlushWaits DEF RemoveMessage
  <2>2. m \in Sent
    BY <1>13 DEF RemoveMessage, Sending
  <2>3. QED BY <1>13, <2>1, <2>2 DEF RemoveMessage, Sent, Calls, chatVars
<1>14. ASSUME NEW m \in Messages, NEW c \in Chats, SendMessage(m, c)
       PROVE  TypeOK'
  <2>1. gated' \in Seq(Calls) /\ writes' \in Seq(Calls)
    BY <1>14, FlushWaits DEF SendMessage
  <2>2. Sent \subseteq Sent'
    BY <1>14 DEF SendMessage, Sent
  <2>3. QED BY <1>14, <2>1, <2>2 DEF SendMessage, Calls, passVars, chatVars
<1>15. CASE \E c \in Chats : ChatGoes(c)
  BY <1>15 DEF ChatGoes, Sent, outboxVars, passVars, ghostVars
<1>16. ASSUME NEW c \in Chats, Purge(c)
       PROVE  TypeOK'
  <2>1. gated' \in Seq(Calls) /\ writes' \in Seq(Calls)
    BY <1>16, FlushWaits DEF Purge
  <2>2. In(c, store) \subseteq Sent /\ In(c, Sent) \subseteq Sent
    BY DEF In
  <2>3. QED BY <1>16, <2>1, <2>2 DEF Purge, Sent, Calls
<1>17. CASE AppStateChanges \/ GoesOffline \/ GoesOnline
  BY <1>17 DEF AppStateChanges, GoesOffline, GoesOnline, CallSync, RunsPass, Sent, passVars,
               chatVars, ghostVars
<1>18. CASE Crashes
  <2>1. /\ phase' = "off" /\ store' = {} /\ gated' = <<>> /\ writes' = <<>> /\ waiting' = FALSE
        /\ pass' = "none" /\ UNCHANGED <<online, disk>>
    BY <1>18 DEF Crashes, CrashOutbox
  <2>2. <<>> \in Seq([queue : SUBSET Messages, then : {"sync", "none", "pass"}])
    OBVIOUS
  <2>3. disk \subseteq Messages /\ disk \subseteq Sent
    OBVIOUS
  <2>4. UNCHANGED Sent
    BY <1>18 DEF Crashes, Sent
  <2>5. OutboxTypeOK(SUBSET Messages, {"sync", "none", "pass"})'
    BY <2>1, <2>2
  <2>6. errors' \in [Messages -> 0..MaxRejections \cup {None}] /\ rest' = {} /\ landed' = {} /\ liveBefore' = {}
    BY <1>18 DEF Crashes
  <2>7. unheard' \subseteq Sent /\ out' \subseteq Sent /\ saved' = disk
    BY <1>18, <2>3 DEF Crashes
  <2>8. QED BY <1>18, <2>1, <2>4, <2>5, <2>6, <2>7 DEF Crashes, chatVars
<1>19. CASE UNCHANGED vars
  BY <1>19 DEF vars, Sent, outboxVars, passVars, chatVars, ghostVars
<1>20. QED BY <1>1, <1>2, <1>3, <1>4, <1>5, <1>6, <1>7, <1>8, <1>9, <1>10, <1>11, <1>12,
              <1>13, <1>14, <1>15, <1>16, <1>17, <1>18, <1>19 DEF Next, System, Environment

\* The gate, and the one flush of a pass.
LEMMA ChatsGates == ChatsInv /\ [Next]_vars => Gates' /\ OnePass'
<1> SUFFICES ASSUME ChatsInv, [Next]_vars
             PROVE  Gates' /\ OnePass'
  OBVIOUS
<1>a. TypeOK /\ TypeOK'
  BY ChatsTypes DEF ChatsInv, NothingVanishes
<1>b. Gates /\ OnePass /\ Sending
  BY DEF ChatsInv
<1>s. Pending' = Pending /\ Waits' = Waits /\ pass' = pass => OnePass'
  BY <1>b DEF OnePass
<1>f. /\ Waits' = Waits \cup {Len(Pending) + 1} /\ Len(Pending) + 1 \notin Waits
      /\ \A i \in Waits : Pending'[i] = Pending[i]
      /\ Pending'[Len(Pending) + 1].then # "pass" /\ pass' = pass
      => OnePass'
  BY <1>b DEF OnePass
<1>1. CASE Quiet
  BY <1>1, <1>a, <1>b, <1>s, FlushesStay DEF Quiet, passVars, ghostVars
<1>2. CASE SyncHostMounts
  BY <1>2, <1>a, <1>b, <1>s, FlushesStay DEF SyncHostMounts, Start, passVars, ghostVars
<1>3. CASE RestoreReads
  BY <1>3, <1>a, <1>b, <1>s, FlushesStay DEF RestoreReads, FinishRestore, MergedByUnion, ghostVars
<1>4. CASE RestorePrunes
  BY <1>4, <1>a, <1>b, <1>s, FlushesStay DEF RestorePrunes, FinishRestore, passVars
<1>5. CASE RestoreKeepsAll
  BY <1>5, <1>a, <1>b, <1>s, FlushesStay DEF RestoreKeepsAll, FinishRestore, passVars, ghostVars
<1>6. CASE PassBegins
  <2>1. Pending' = Pending /\ Waits' = Waits /\ Gates'
    BY <1>6, <1>a, <1>b, FlushesStay
  <2>2. \A i \in Waits : Pending[i].then # "pass"
    BY <1>6, <1>b DEF PassBegins, MutexFree, OnePass
  <2>3. QED BY <2>1, <2>2 DEF OnePass
<1>7. CASE PassFlushes
  <2>1. /\ Gates' /\ Waits' = Waits \cup {Len(Pending) + 1}
        /\ \A i \in Waits : Pending'[i] = Pending[i]
    BY <1>7, <1>a, <1>b, FlushIsCalled
  <2>2. \A i \in Waits : Pending[i].then # "pass"
    BY <1>7, <1>b DEF PassFlushes, OnePass
  <2>3. QED BY <1>7, <2>1, <2>2 DEF OnePass, PassFlushes
<1>8. ASSUME NEW m \in Messages, NEW c \in Chats, Arrives(m, c)
      PROVE  Gates' /\ OnePass'
  BY <1>8, <1>a, <1>b, <1>s, FlushesStay DEF Arrives, outboxVars
<1>9. ASSUME NEW m \in Messages, NEW c \in Chats, SendReturns(m, c)
      PROVE  Gates' /\ OnePass'
  BY <1>9, <1>a, <1>b, <1>s, FlushesStay DEF SendReturns, SettleSuccess
<1>10. ASSUME NEW m \in Messages, NEW c \in Chats, Fails(m, c)
       PROVE  Gates' /\ OnePass'
  BY <1>10, <1>a, <1>b, <1>s, FlushesStay DEF Fails, SettleFailure
<1>11. ASSUME NEW ok \in BOOLEAN, WriteReturns(ok)
       PROVE  Gates' /\ OnePass'
  <2>1. /\ phase' = "ready" /\ gated' = <<>> /\ 1 \in Waits /\ Head(writes) = Pending[1]
        /\ \A i \in Waits' : i + 1 \in Waits /\ Pending'[i] = Pending[i + 1]
        /\ Waits' \subseteq 1..Len(Pending')
    BY <1>11, <1>a, <1>b, WriteTakes DEF Waits
  <2>2. pass' = IF Pending[1].then = "pass" THEN "none" ELSE pass
    BY <1>11, <2>1 DEF WriteReturns
  <2>3. Gates'
    BY <2>1 DEF Gates
  <2>4. ASSUME NEW i \in Waits', Pending'[i].then = "pass"
        PROVE  pass' = "flushing" /\ \A j \in Waits' : Pending'[j].then = "pass" => i = j
    <3>1. i \in Nat \ {0} /\ i + 1 # 1
      BY DEF Waits
    <3>2. i + 1 \in Waits /\ Pending[i + 1].then = "pass"
      BY <2>1, <2>4
    <3>3. pass = "flushing" /\ \A j \in Waits : Pending[j].then = "pass" => i + 1 = j
      BY <1>b, <3>2 DEF OnePass
    <3>4. pass' = "flushing"
      BY <2>1, <2>2, <3>1, <3>3
    <3>5. ASSUME NEW j \in Waits', Pending'[j].then = "pass"
          PROVE  i = j
      <4>1. i + 1 = j + 1 /\ j \in Nat
        BY <2>1, <3>3, <3>5 DEF Waits
      <4>2. QED BY <3>1, <4>1
    <3>6. QED BY <3>4, <3>5
  <2>5. QED BY <2>3, <2>4 DEF OnePass
<1>12. ASSUME NEW m \in Messages, RetryMessage(m)
       PROVE  Gates' /\ OnePass'
  BY <1>12, <1>a, <1>b, <1>f, FlushIsCalled DEF RetryMessage, PassFlushes
<1>13. ASSUME NEW m \in Messages, RemoveMessage(m)
       PROVE  Gates' /\ OnePass'
  BY <1>13, <1>a, <1>b, <1>f, FlushIsCalled DEF RemoveMessage, PassFlushes
<1>14. ASSUME NEW m \in Messages, NEW c \in Chats, SendMessage(m, c)
       PROVE  Gates' /\ OnePass'
  BY <1>14, <1>a, <1>b, <1>f, FlushIsCalled DEF SendMessage, passVars, PassFlushes
<1>15. ASSUME NEW c \in Chats, Purge(c)
       PROVE  Gates' /\ OnePass'
  BY <1>15, <1>a, <1>b, <1>f, FlushIsCalled DEF Purge, PassFlushes
<1>16. CASE Crashes
  BY <1>16, CrashClears DEF Crashes, CrashOutbox, OnePass
<1>17. QED BY <1>1, <1>2, <1>3, <1>4, <1>5, <1>6, <1>7, <1>8, <1>9, <1>10, <1>11, <1>12, <1>13,
           <1>14, <1>15, <1>16, ChatsSteps

\* What is queued was sent, and in order.
LEMMA ChatsNumbered == ChatsInv /\ [Next]_vars => Numbered'
<1> SUFFICES ASSUME ChatsInv, [Next]_vars
             PROVE  Numbered'
  OBVIOUS
<1>a. TypeOK /\ TypeOK'
  BY ChatsTypes DEF ChatsInv, NothingVanishes
<1>b. Gates /\ Sending /\ Numbered
  BY DEF ChatsInv
<1>f. /\ \A i \in Waits : Pending'[i] = Pending[i]
      /\ Waits' = Waits \cup {Len(Pending) + 1} /\ Pending'[Len(Pending) + 1].queue = store'
      /\ Sent \subseteq Sent' /\ store' \subseteq Sent'
      => \A i \in Waits' : Pending'[i].queue \subseteq Sent'
  BY <1>b DEF Numbered
<1>1. CASE Quiet
  BY <1>1, <1>a, <1>b, FlushesStay DEF Quiet, passVars, ghostVars, Numbered, Sent
<1>2. CASE SyncHostMounts
  BY <1>2, <1>a, <1>b, FlushesStay DEF SyncHostMounts, Start, passVars, ghostVars, Numbered, Sent
<1>3. CASE RestoreReads
  BY <1>3, <1>a, <1>b, FlushesStay
     DEF RestoreReads, FinishRestore, MergedByUnion, ghostVars, Numbered, Sent
<1>4. CASE RestorePrunes
  BY <1>4, <1>a, <1>b, FlushesStay DEF RestorePrunes, FinishRestore, passVars, Numbered, Sent
<1>5. CASE RestoreKeepsAll
  BY <1>5, <1>a, <1>b, FlushesStay
     DEF RestoreKeepsAll, FinishRestore, passVars, ghostVars, Numbered, Sent
<1>6. CASE PassBegins
  BY <1>6, <1>a, <1>b, FlushesStay DEF PassBegins, MutexFree, ghostVars, Numbered, Sent
<1>7. CASE PassFlushes
  <2>1. /\ \A i \in Waits : Pending'[i] = Pending[i]
        /\ Waits' = Waits \cup {Len(Pending) + 1} /\ Pending'[Len(Pending) + 1].queue = store'
    BY <1>7, <1>a, <1>b, FlushIsCalled
  <2>2. store' \subseteq Sent' /\ Sent' = Sent /\ disk' = disk /\ arrivals' = arrivals
    BY <1>7, <1>a, <1>b DEF PassFlushes, passVars, ghostVars, Numbered, Sending, TypeOK, Sent
  <2>3. QED BY <1>b, <1>f, <2>1, <2>2 DEF Numbered
<1>8. ASSUME NEW m \in Messages, NEW c \in Chats, Arrives(m, c)
      PROVE  Numbered'
  <2>1. Pending' = Pending /\ Waits' = Waits
    BY <1>8, <1>a, <1>b, FlushesStay
  <2>2. m \in Sent /\ Sent' = Sent
    BY <1>8, <1>a DEF Arrives, IsNext, In, TypeOK, Sent
  <2>3. QED BY <1>8, <1>a, <1>b, <2>1, <2>2 DEF Arrives, outboxVars, Numbered, TypeOK
<1>9. ASSUME NEW m \in Messages, NEW c \in Chats, SendReturns(m, c)
      PROVE  Numbered'
  BY <1>9, <1>a, <1>b, FlushesStay DEF SendReturns, SettleSuccess, Numbered, Sent
<1>10. ASSUME NEW m \in Messages, NEW c \in Chats, Fails(m, c)
       PROVE  Numbered'
  BY <1>10, <1>a, <1>b, FlushesStay DEF Fails, SettleFailure, Numbered, Sent
<1>11. ASSUME NEW ok \in BOOLEAN, WriteReturns(ok)
       PROVE  Numbered'
  <2>1. /\ 1 \in Waits /\ disk' = (IF ok THEN Pending[1].queue ELSE disk)
        /\ \A i \in Waits' : i + 1 \in Waits /\ Pending'[i] = Pending[i + 1]
    BY <1>11, <1>a, <1>b, WriteTakes
  <2>2. Sent' = Sent /\ UNCHANGED <<store, arrivals>>
    BY <1>11 DEF WriteReturns, Sent
  <2>3. QED BY <1>b, <2>1, <2>2 DEF Numbered
<1>12. ASSUME NEW m \in Messages, RetryMessage(m)
       PROVE  Numbered'
  <2>1. /\ \A i \in Waits : Pending'[i] = Pending[i]
        /\ Waits' = Waits \cup {Len(Pending) + 1} /\ Pending'[Len(Pending) + 1].queue = store'
    BY <1>12, <1>a, <1>b, FlushIsCalled
  <2>2. store' \subseteq Sent' /\ Sent' = Sent /\ disk' = disk /\ arrivals' = arrivals
    BY <1>12, <1>a, <1>b DEF RetryMessage, Numbered, Sending, TypeOK, Sent
  <2>3. QED BY <1>b, <1>f, <2>1, <2>2 DEF Numbered
<1>13. ASSUME NEW m \in Messages, RemoveMessage(m)
       PROVE  Numbered'
  <2>1. /\ \A i \in Waits : Pending'[i] = Pending[i]
        /\ Waits' = Waits \cup {Len(Pending) + 1} /\ Pending'[Len(Pending) + 1].queue = store'
    BY <1>13, <1>a, <1>b, FlushIsCalled
  <2>2. store' \subseteq Sent' /\ Sent' = Sent /\ disk' = disk /\ arrivals' = arrivals
    BY <1>13, <1>a, <1>b DEF RemoveMessage, Numbered, Sending, TypeOK, Sent
  <2>3. QED BY <1>b, <1>f, <2>1, <2>2 DEF Numbered
<1>14. ASSUME NEW m \in Messages, NEW c \in Chats, SendMessage(m, c)
       PROVE  Numbered'
  <2>1. /\ \A i \in Waits : Pending'[i] = Pending[i]
        /\ Waits' = Waits \cup {Len(Pending) + 1} /\ Pending'[Len(Pending) + 1].queue = store'
    BY <1>14, <1>a, <1>b, FlushIsCalled
  <2>2. Sent' = Sent \cup {m} /\ m \notin Sent
    BY <1>14, <1>a, ChatsAssumption DEF SendMessage, TypeOK, Sent
  <2>3. store' = store \cup {m} /\ disk' = disk /\ arrivals' = arrivals
    BY <1>14 DEF SendMessage
  <2>4. 1..m \subseteq Sent'
    <3>1. \A other \in 1..m : other \in Messages /\ (other < m \/ other = m)
      BY ChatsAssumption DEF Messages
    <3>2. QED BY <1>14, <2>2, <3>1 DEF SendMessage
  <2>5. QED BY <1>b, <1>f, <2>1, <2>2, <2>3, <2>4 DEF Numbered
<1>15. ASSUME NEW c \in Chats, Purge(c)
       PROVE  Numbered'
  <2>1. /\ \A i \in Waits : Pending'[i] = Pending[i]
        /\ Waits' = Waits \cup {Len(Pending) + 1} /\ Pending'[Len(Pending) + 1].queue = store'
    BY <1>15, <1>a, <1>b, FlushIsCalled
  <2>2. store' \subseteq Sent' /\ Sent' = Sent /\ disk' = disk /\ arrivals' = arrivals
    BY <1>15, <1>a, <1>b DEF Purge, Numbered, Sending, TypeOK, Sent
  <2>3. QED BY <1>b, <1>f, <2>1, <2>2 DEF Numbered
<1>16. CASE Crashes
  <2>1. Waits' = {} /\ store' = {} /\ disk' = disk /\ Sent' = Sent /\ arrivals' = arrivals
    BY <1>16, CrashClears, ChatsAssumption DEF Crashes, CrashOutbox, Sent
  <2>2. QED BY <1>b, <2>1 DEF Numbered
<1>17. QED BY <1>1, <1>2, <1>3, <1>4, <1>5, <1>6, <1>7, <1>8, <1>9, <1>10, <1>11, <1>12, <1>13,
           <1>14, <1>15, <1>16, ChatsSteps

\* The first message a chat has left is one.
LEMMA NextIsOne ==
  ASSUME TypeOK, NEW m, NEW n, NEW c, IsNext(m, c), IsNext(n, c)
  PROVE  m = n
<1>1. m \in Nat /\ n \in Nat /\ m <= n /\ n <= m
  BY DEF IsNext, In, TypeOK, Sent, Messages
<1>2. QED BY <1>1

\* With one message settled, the first ones of the other chats stay first.
LEMMA NextStays ==
  ASSUME NEW m, NEW c, NEW n, NEW d, IsNext(m, c), IsNext(n, d), c # d,
         rest' = rest \ {m}, chatOf' = chatOf
  PROVE  IsNext(n, d)' /\ n # m
BY DEF IsNext, In

\* The pass, its requests and the strikes.
LEMMA ChatsSending == ChatsInv /\ [Next]_vars => Sending'
<1> SUFFICES ASSUME ChatsInv, [Next]_vars
             PROVE  Sending'
  OBVIOUS
<1>a. TypeOK /\ TypeOK'
  BY ChatsTypes DEF ChatsInv, NothingVanishes
<1>b. Gates /\ Numbered /\ Sending
  BY DEF ChatsInv
<1>1. CASE Quiet
  BY <1>1, <1>a, <1>b, ChatsAssumption DEF Quiet, passVars, ghostVars, Sending, IsNext, In
<1>2. CASE SyncHostMounts
  BY <1>2, <1>a, <1>b, ChatsAssumption
     DEF SyncHostMounts, Start, passVars, ghostVars, Sending, IsNext, In
<1>3. CASE RestoreReads
  <2>1. pass = "none" /\ rest = {} /\ landed = {} /\ \A m \in Messages : errors[m] = None
    BY <1>3, <1>b DEF RestoreReads, Sending, In
  <2>2. UNCHANGED <<pass, rest, landed, errors>> /\ store' \subseteq Messages
    BY <1>3, <1>a DEF RestoreReads, TypeOK, OutboxTypeOK
  <2>3. UNCHANGED <<failed, arrivals, chatOf>>
    BY <1>3 DEF RestoreReads, ghostVars
  <2>4. QED BY <1>b, <2>1, <2>2, <2>3, ChatsAssumption DEF Sending
<1>4. CASE RestorePrunes
  <2>1. UNCHANGED <<pass, rest, landed, errors, failed, arrivals, chatOf>> /\ store' \subseteq store
    BY <1>4 DEF RestorePrunes, passVars
  <2>2. phase # "ready"
    BY <1>4 DEF RestorePrunes
  <2>3. QED BY <1>b, <2>1, <2>2 DEF Sending, IsNext, In
<1>5. CASE RestoreKeepsAll
  <2>1. UNCHANGED <<pass, rest, landed, errors, failed, arrivals, chatOf, store>>
    BY <1>5 DEF RestoreKeepsAll, passVars, ghostVars
  <2>2. phase # "ready"
    BY <1>5 DEF RestoreKeepsAll
  <2>3. QED BY <1>b, <2>1, <2>2 DEF Sending, IsNext, In
<1>6. CASE PassBegins
  <2>1. rest = {} /\ landed = {}
    BY <1>6, <1>b DEF PassBegins, MutexFree, Sending, In
  <2>2. QED BY <1>6, <1>b, <2>1 DEF PassBegins, MutexFree, ghostVars, Sending
<1>7. CASE PassFlushes
  BY <1>7, <1>a, <1>b, ChatsAssumption DEF PassFlushes, passVars, ghostVars, Sending, IsNext, In
<1>8. ASSUME NEW m \in Messages, NEW c \in Chats, Arrives(m, c)
      PROVE  Sending'
  <2>1. m \in In(c, rest) /\ m \in Messages /\ arrivals'[m] > 0
    BY <1>8, <1>a DEF Arrives, IsNext, TypeOK
  <2>2. \A n \in Messages : arrivals[n] > 0 => arrivals'[n] > 0
    BY <1>8, <1>a, <2>1 DEF Arrives, TypeOK
  <2>3. rest \subseteq Messages
    BY <1>a DEF TypeOK, Sent
  <2>4. UNCHANGED <<phase, pass, store, rest, errors, failed, chatOf>> /\ landed' = landed \cup {c}
    BY <1>8 DEF Arrives, outboxVars
  <2>5. IsNext(m, c)
    BY <1>8 DEF Arrives
  <2>6. QED BY <1>b, <2>1, <2>2, <2>3, <2>4, <2>5 DEF Sending, IsNext, In
<1>9. ASSUME NEW m \in Messages, NEW c \in Chats, SendReturns(m, c)
      PROVE  Sending'
  <2>1. \A d \in landed' : \E n \in In(d, rest') : IsNext(n, d)' /\ arrivals'[n] > 0
    <3> SUFFICES ASSUME NEW d \in landed'
                 PROVE  \E n \in In(d, rest)' : IsNext(n, d)' /\ arrivals'[n] > 0
      BY <1>9 DEF SendReturns, SettleSuccess, In
    <3>1. PICK n \in In(d, rest) : IsNext(n, d) /\ arrivals[n] > 0
      BY <1>9, <1>b DEF SendReturns, SettleSuccess, Sending
    <3>2. IsNext(n, d)'
      BY <1>9, <3>1, NextStays DEF SendReturns, SettleSuccess
    <3>3. QED BY <1>9, <3>1, <3>2 DEF SendReturns, SettleSuccess, IsNext
  <2>2. QED BY <1>9, <1>a, <1>b, <2>1, ChatsAssumption
               DEF SendReturns, SettleSuccess, Sending, TypeOK, In
<1>10. ASSUME NEW m \in Messages, NEW c \in Chats, Fails(m, c)
       PROVE  Sending'
  <2>1. \A d \in landed' : \E n \in In(d, rest)' : IsNext(n, d)' /\ arrivals'[n] > 0
    <3> SUFFICES ASSUME NEW d \in landed'
                 PROVE  \E n \in In(d, rest)' : IsNext(n, d)' /\ arrivals'[n] > 0
      OBVIOUS
    <3>1. PICK n \in In(d, rest) : IsNext(n, d) /\ arrivals[n] > 0
      BY <1>10, <1>b DEF Fails, SettleFailure, Sending
    <3>2. IsNext(n, d)'
      BY <1>10, <3>1, NextStays DEF Fails, SettleFailure
    <3>3. QED BY <1>10, <3>1, <3>2 DEF Fails, SettleFailure, IsNext
  <2>2. phase = "ready" /\ m \in rest
    BY <1>10, <1>b DEF Fails, IsNext, In, Sending
  <2>3. PICK rejections \in {Rejections(m), Rejections(m) + 1} : SettleFailure(m, c, rejections)
    BY <1>10 DEF Fails
  <2>4. \A n \in Messages : errors'[n] = IF n = m THEN rejections ELSE errors[n]
    BY <1>a, <2>3 DEF SettleFailure, TypeOK
  <2>5. rejections \in Nat /\ rejections <= MaxRejections
    BY <1>a, <1>b, <2>2, <2>3, ChatsAssumption DEF Rejections, TypeOK, Sending
  <2>6. \A n \in store' \cup rest' : errors'[n] # MaxRejections
    <3>1. \A n \in (store' \cup rest') \ {m} : errors'[n] # MaxRejections
      BY <1>a, <1>b, <2>3, <2>4 DEF SettleFailure, Sending, TypeOK, OutboxTypeOK, Sent
    <3>2. m \in store' \cup rest' => rejections < MaxRejections
      BY <2>3, <2>5, ChatsAssumption DEF SettleFailure, GivesUp
    <3>3. QED BY <2>4, <2>5, <3>1, <3>2, ChatsAssumption
  <2>7. QED BY <1>b, <2>1, <2>2, <2>3, <2>4, <2>6 DEF SettleFailure, Sending
<1>11. ASSUME NEW ok \in BOOLEAN, WriteReturns(ok)
       PROVE  Sending'
  <2>1. Gates /\ OnePass
    BY DEF ChatsInv
  <2>2. 1 \in Waits /\ Head(writes) = Pending[1] /\ phase = "ready"
    BY <1>11, <1>a, <2>1, WriteTakes
  <2>3. pass' # "body" => pass # "body"
    BY <1>11, <2>1, <2>2 DEF WriteReturns, OnePass
  <2>4. UNCHANGED <<phase, rest, landed, errors, failed, arrivals, chatOf, store>>
    BY <1>11 DEF WriteReturns, WriteOldest, passVars
  <2>5. QED BY <1>b, <2>2, <2>3, <2>4 DEF Sending, IsNext, In
<1>12. ASSUME NEW m \in Messages, RetryMessage(m)
       PROVE  Sending'
  <2>1. phase = "ready"
    BY <1>12, <1>b DEF RetryMessage, Sending
  <2>2. \A n \in Messages : errors'[n] = IF n = m THEN None ELSE errors[n]
    BY <1>12, <1>a DEF RetryMessage, TypeOK
  <2>3. store' \cup rest \subseteq Messages
    BY <1>a DEF TypeOK, OutboxTypeOK, Sent
  <2>4. UNCHANGED <<phase, pass, rest, landed, failed, arrivals, chatOf>> /\ store' = store \cup {m}
    BY <1>12 DEF RetryMessage
  <2>5. QED BY <1>b, <2>1, <2>2, <2>3, <2>4, ChatsAssumption DEF Sending, IsNext, In
<1>13. ASSUME NEW m \in Messages, RemoveMessage(m)
       PROVE  Sending'
  <2>1. phase = "ready"
    BY <1>13, <1>b DEF RemoveMessage, Sending
  <2>2. \A n \in Messages : errors'[n] = IF n = m THEN None ELSE errors[n]
    BY <1>13, <1>a DEF RemoveMessage, TypeOK
  <2>3. store \cup rest \subseteq Messages
    BY <1>a DEF TypeOK, OutboxTypeOK, Sent
  <2>4. UNCHANGED <<phase, pass, rest, landed, failed, arrivals, chatOf>> /\ store' = store \ {m}
    BY <1>13 DEF RemoveMessage
  <2>5. QED BY <1>b, <2>1, <2>2, <2>3, <2>4, ChatsAssumption DEF Sending, IsNext, In
<1>14. ASSUME NEW m \in Messages, NEW c \in Chats, SendMessage(m, c)
       PROVE  Sending'
  <2>1. UNCHANGED <<phase, pass, rest, landed, errors, failed, arrivals>> /\ store' = store \cup {m}
    BY <1>14 DEF SendMessage, passVars
  <2>2. m \notin rest /\ errors[m] = None
    BY <1>14, <1>a, <1>b DEF SendMessage, TypeOK, Sending
  <2>3. \A n \in rest : chatOf'[n] = chatOf[n]
    BY <1>14, <1>a, <2>2 DEF SendMessage, TypeOK, Sent
  <2>4. \A d \in Chats : In(d, rest)' = In(d, rest)
    BY <2>1, <2>3 DEF In
  <2>5. \A d \in landed : \E n \in In(d, rest)' : IsNext(n, d)' /\ arrivals[n] > 0
    BY <1>a, <1>b, <2>4 DEF Sending, IsNext, TypeOK
  <2>6. QED BY <1>b, <2>1, <2>2, <2>5, ChatsAssumption DEF Sending
<1>15. ASSUME NEW c \in Chats, Purge(c)
       PROVE  Sending'
  <2>1. \A n \in Messages : errors'[n] = None \/ errors'[n] = errors[n]
    BY <1>15, <1>a DEF Purge, TypeOK
  <2>2. store \cup rest \subseteq Messages
    BY <1>a DEF TypeOK, OutboxTypeOK, Sent
  <2>3. UNCHANGED <<phase, pass, rest, landed, failed, arrivals, chatOf>> /\ store' \subseteq store
    BY <1>15 DEF Purge
  <2>4. QED BY <1>b, <2>1, <2>2, <2>3, ChatsAssumption DEF Sending, IsNext, In
<1>16. CASE Crashes
  BY <1>16, <1>a, <1>b, ChatsAssumption DEF Crashes, CrashOutbox, Sending, TypeOK
<1>17. QED BY <1>1, <1>2, <1>3, <1>4, <1>5, <1>6, <1>7, <1>8, <1>9, <1>10, <1>11, <1>12, <1>13,
           <1>14, <1>15, <1>16, ChatsSteps

\* A message that may be begun has not arrived, or its answer was not heard.
LEMMA ChatsAtMostOnceKept == ChatsInv /\ [Next]_vars => AtMostOnce'
<1> SUFFICES ASSUME ChatsInv, [Next]_vars
             PROVE  AtMostOnce'
  OBVIOUS
<1>a. TypeOK /\ TypeOK'
  BY ChatsTypes DEF ChatsInv, NothingVanishes
<1>b. AtMostOnce /\ Delivered
  BY DEF ChatsInv
<1>1. CASE Quiet
  BY <1>1, <1>b DEF Quiet, passVars, ghostVars, AtMostOnce
<1>2. CASE SyncHostMounts
  BY <1>2, <1>b DEF SyncHostMounts, Start, passVars, ghostVars, AtMostOnce
<1>3. CASE RestoreReads
  BY <1>3, <1>b DEF RestoreReads, FinishRestore, MergedByUnion, ghostVars, AtMostOnce
<1>4. CASE RestorePrunes
  BY <1>4, <1>b DEF RestorePrunes, FinishRestore, passVars, AtMostOnce
<1>5. CASE RestoreKeepsAll
  BY <1>5, <1>b DEF RestoreKeepsAll, FinishRestore, passVars, ghostVars, AtMostOnce
<1>6. CASE PassBegins
  BY <1>6, <1>b DEF PassBegins, MutexFree, ghostVars, AtMostOnce
<1>7. CASE PassFlushes
  BY <1>7, <1>b DEF PassFlushes, passVars, ghostVars, AtMostOnce
<1>8. ASSUME NEW m \in Messages, NEW c \in Chats, Arrives(m, c)
      PROVE  AtMostOnce'
  <2>1. m \in In(c, rest) /\ c \notin landed /\ chatOf[m] = c /\ m \in Sent
    BY <1>8, <1>a DEF Arrives, IsNext, In, TypeOK
  <2>2. m \notin unheard => arrivals[m] = 0
    BY <1>a, <1>b, <2>1 DEF Delivered, InFlight, In, TypeOK
  <2>3. \A n \in Messages : n # m => arrivals'[n] = arrivals[n]
    BY <1>8, <1>a DEF Arrives, TypeOK
  <2>4. m \notin unheard => arrivals'[m] = 1
    BY <1>8, <1>a, <2>2 DEF Arrives, TypeOK
  <2>5. unheard' = unheard
    BY <1>8 DEF Arrives
  <2>6. QED BY <1>b, <2>3, <2>4, <2>5 DEF AtMostOnce
<1>9. ASSUME NEW m \in Messages, NEW c \in Chats, SendReturns(m, c)
      PROVE  AtMostOnce'
  BY <1>9, <1>b DEF SendReturns, SettleSuccess, AtMostOnce
<1>10. ASSUME NEW m \in Messages, NEW c \in Chats, Fails(m, c)
       PROVE  AtMostOnce'
  BY <1>10, <1>b DEF Fails, SettleFailure, AtMostOnce
<1>11. ASSUME NEW ok \in BOOLEAN, WriteReturns(ok)
       PROVE  AtMostOnce'
  BY <1>11, <1>b DEF WriteReturns, WriteOldest, passVars, AtMostOnce
<1>12. ASSUME NEW m \in Messages, RetryMessage(m)
       PROVE  AtMostOnce'
  BY <1>12, <1>b DEF RetryMessage, AtMostOnce
<1>13. ASSUME NEW m \in Messages, RemoveMessage(m)
       PROVE  AtMostOnce'
  BY <1>13, <1>b DEF RemoveMessage, AtMostOnce
<1>14. ASSUME NEW m \in Messages, NEW c \in Chats, SendMessage(m, c)
       PROVE  AtMostOnce'
  BY <1>14, <1>b DEF SendMessage, passVars, AtMostOnce
<1>15. ASSUME NEW c \in Chats, Purge(c)
       PROVE  AtMostOnce'
  BY <1>15, <1>b DEF Purge, AtMostOnce
<1>16. CASE Crashes
  BY <1>16, <1>b DEF Crashes, CrashOutbox, AtMostOnce
<1>17. QED BY <1>1, <1>2, <1>3, <1>4, <1>5, <1>6, <1>7, <1>8, <1>9, <1>10, <1>11, <1>12, <1>13,
           <1>14, <1>15, <1>16, ChatsSteps

\* What was performed is about to leave the queue, or has left it.
LEMMA ChatsDelivered == ChatsInv /\ [Next]_vars => Delivered'
<1> SUFFICES ASSUME ChatsInv, [Next]_vars
             PROVE  Delivered'
  OBVIOUS
<1>a. TypeOK /\ TypeOK'
  BY ChatsTypes DEF ChatsInv, NothingVanishes
<1>b. Gates /\ Numbered /\ Sending /\ Delivered
  BY DEF ChatsInv
<1>c. UNCHANGED <<rest, landed, chatOf>>
        => (\A n \in Messages : InFlight(n)' = InFlight(n)) /\ Sent' = Sent /\ Sent \subseteq Messages
  BY DEF InFlight, IsNext, In, Sent
<1>1. CASE Quiet
  <2>1. UNCHANGED <<rest, landed, chatOf, arrivals>> /\ unheard \subseteq unheard'
    BY <1>1 DEF Quiet, passVars, ghostVars
  <2>2. QED BY <1>1, <1>a, <1>b, <1>c, <2>1, ChatsAssumption
               DEF Quiet, passVars, ghostVars, Delivered
<1>2. CASE SyncHostMounts
  <2>1. UNCHANGED <<rest, landed, chatOf, arrivals>> /\ unheard \subseteq unheard'
    BY <1>2 DEF SyncHostMounts, Start, passVars, ghostVars
  <2>2. QED BY <1>2, <1>a, <1>b, <1>c, <2>1, ChatsAssumption
               DEF SyncHostMounts, Start, passVars, ghostVars, Delivered
<1>3. CASE RestoreReads
  <2>1. UNCHANGED <<rest, landed, chatOf, arrivals>> /\ unheard \subseteq unheard'
    BY <1>3 DEF RestoreReads, FinishRestore, MergedByUnion, ghostVars
  <2>2. QED BY <1>3, <1>a, <1>b, <1>c, <2>1, ChatsAssumption
               DEF RestoreReads, FinishRestore, MergedByUnion, ghostVars, Delivered
<1>4. CASE RestorePrunes
  <2>1. UNCHANGED <<rest, landed, chatOf, arrivals>> /\ unheard \subseteq unheard'
    BY <1>4 DEF RestorePrunes, FinishRestore, passVars
  <2>2. QED BY <1>4, <1>a, <1>b, <1>c, <2>1, ChatsAssumption
               DEF RestorePrunes, FinishRestore, passVars, Delivered
<1>5. CASE RestoreKeepsAll
  <2>1. UNCHANGED <<rest, landed, chatOf, arrivals>> /\ unheard \subseteq unheard'
    BY <1>5 DEF RestoreKeepsAll, FinishRestore, passVars, ghostVars
  <2>2. QED BY <1>5, <1>a, <1>b, <1>c, <2>1, ChatsAssumption
               DEF RestoreKeepsAll, FinishRestore, passVars, ghostVars, Delivered
<1>6. CASE PassBegins
  <2>1. rest = {} /\ \A n \in Messages : ~InFlight(n)
    BY <1>6, <1>b DEF PassBegins, MutexFree, Sending, InFlight, IsNext, In
  <2>2. Sent' = Sent /\ Sent \subseteq Messages
    BY <1>6 DEF PassBegins, ghostVars, Sent
  <2>3. QED BY <1>6, <1>b, <2>1, <2>2 DEF PassBegins, MutexFree, ghostVars, Delivered
<1>7. CASE PassFlushes
  <2>1. UNCHANGED <<rest, landed, chatOf, arrivals>> /\ unheard \subseteq unheard'
    BY <1>7 DEF PassFlushes, passVars, ghostVars
  <2>2. QED BY <1>7, <1>a, <1>b, <1>c, <2>1, ChatsAssumption
               DEF PassFlushes, passVars, ghostVars, Delivered
<1>8. ASSUME NEW m \in Messages, NEW c \in Chats, Arrives(m, c)
      PROVE  Delivered'
  <2>1. m \in In(c, rest) /\ IsNext(m, c) /\ phase = "ready" /\ Sent' = Sent
    BY <1>8, <1>b DEF Arrives, IsNext, In, Sending, Sent
  <2>2. UNCHANGED <<phase, store, disk, rest, errors, chatOf, unheard>> /\ landed' = landed \cup {c}
    BY <1>8 DEF Arrives, outboxVars
  <2>3. \A n \in Messages : InFlight(n) => InFlight(n)'
    BY <2>2 DEF InFlight, IsNext, In
  <2>4. InFlight(m)'
    BY <2>1, <2>2 DEF InFlight, IsNext, In
  <2>5. \A n \in Sent : n # m => arrivals'[n] = arrivals[n]
    BY <1>8, <1>a DEF Arrives, TypeOK, Sent
  <2>6. Sent \subseteq Messages
    BY DEF Sent
  <2>7. QED BY <1>b, <2>1, <2>2, <2>3, <2>4, <2>5, <2>6 DEF Delivered
<1>9. ASSUME NEW m \in Messages, NEW c \in Chats, SendReturns(m, c)
      PROVE  Delivered'
  <2>1. /\ rest' = rest \ {m} /\ landed' = landed \ {c} /\ store' \subseteq store
        /\ UNCHANGED <<phase, disk, chatOf, arrivals>>
    BY <1>9 DEF SendReturns, SettleSuccess
  <2>2. IsNext(m, c) /\ m \in Sent /\ m \in rest /\ Sent' = Sent /\ chatOf[m] = c
    BY <1>9, <1>a DEF SendReturns, SettleSuccess, IsNext, In, TypeOK, Sent
  <2>3. ASSUME NEW n \in Sent, n # m, InFlight(n)
        PROVE  InFlight(n)'
    <3>1. chatOf[n] # c
      BY <1>a, <2>2, <2>3, NextIsOne DEF InFlight
    <3>2. QED BY <2>1, <2>2, <2>3, <3>1, NextStays DEF InFlight
  <2>4. ASSUME NEW n \in Sent, n # m
        PROVE  errors'[n] = errors[n] /\ (n \notin unheard' => n \notin unheard)
    BY <1>9, <1>a, <2>4 DEF SendReturns, SettleSuccess, TypeOK, Sent
  <2>5. m \in unheard' \/ arrivals[m] = 0 \/ (m \notin store' \cup rest' /\ errors'[m] = None /\ phase \notin {"off", "reading"})
    <3>1. phase = "ready"
      BY <1>9, <1>b, <2>2 DEF Sending
    <3>2. errors'[m] = None /\ m \notin store' \cup rest'
      BY <1>9, <1>a DEF SendReturns, SettleSuccess, TypeOK
    <3>3. QED BY <3>1, <3>2
  <2>6. QED BY <1>b, <2>1, <2>2, <2>3, <2>4, <2>5 DEF Delivered
<1>10. ASSUME NEW m \in Messages, NEW c \in Chats, Fails(m, c)
       PROVE  Delivered'
  <2>1. /\ rest' = rest \ {m} /\ landed' = landed \ {c} /\ store' \subseteq store
        /\ UNCHANGED <<phase, disk, chatOf, arrivals>>
    BY <1>10 DEF Fails, SettleFailure
  <2>2. IsNext(m, c) /\ m \in Sent /\ m \in rest /\ Sent' = Sent /\ chatOf[m] = c
    BY <1>10, <1>a DEF Fails, SettleFailure, IsNext, In, TypeOK, Sent
  <2>3. ASSUME NEW n \in Sent, n # m, InFlight(n)
        PROVE  InFlight(n)'
    <3>1. chatOf[n] # c
      BY <1>a, <2>2, <2>3, NextIsOne DEF InFlight
    <3>2. QED BY <2>1, <2>2, <2>3, <3>1, NextStays DEF InFlight
  <2>4. ASSUME NEW n \in Sent, n # m
        PROVE  errors'[n] = errors[n] /\ (n \notin unheard' => n \notin unheard)
    BY <1>10, <1>a, <2>4 DEF Fails, SettleFailure, TypeOK, Sent
  <2>5. m \in unheard' \/ arrivals[m] = 0 \/ (m \notin store' \cup rest' /\ errors'[m] = None /\ phase \notin {"off", "reading"})
    <3>1. CASE c \in landed
      BY <1>10, <3>1 DEF Fails, SettleFailure
    <3>2. CASE c \notin landed
      <4>1. m \in unheard \/ arrivals[m] = 0
        BY <1>a, <1>b, <2>2, <3>2 DEF Delivered, InFlight, TypeOK, Sent
      <4>2. unheard \subseteq unheard'
        BY <1>10 DEF Fails, SettleFailure
      <4>3. QED BY <4>1, <4>2
    <3>3. QED BY <3>1, <3>2
  <2>6. QED BY <1>b, <2>1, <2>2, <2>3, <2>4, <2>5 DEF Delivered
<1>11. ASSUME NEW ok \in BOOLEAN, WriteReturns(ok)
       PROVE  Delivered'
  <2>0. phase = "ready" /\ phase' = "ready"
    BY <1>11, <1>a, <1>b, WriteTakes
  <2>1. UNCHANGED <<rest, landed, chatOf, arrivals, store, errors, unheard>>
    BY <1>11 DEF WriteReturns, WriteOldest, passVars
  <2>2. QED BY <1>b, <1>c, <2>0, <2>1 DEF Delivered
<1>12. ASSUME NEW m \in Messages, RetryMessage(m)
       PROVE  Delivered'
  <2>1. UNCHANGED <<rest, landed, chatOf, arrivals>> /\ unheard \subseteq unheard'
    BY <1>12 DEF RetryMessage
  <2>2. \A n \in Messages : errors'[n] # None => errors[n] # None
    BY <1>12, <1>a DEF RetryMessage, TypeOK
  <2>3. QED BY <1>12, <1>b, <1>c, <2>1, <2>2 DEF RetryMessage, Delivered
<1>13. ASSUME NEW m \in Messages, RemoveMessage(m)
       PROVE  Delivered'
  <2>1. UNCHANGED <<rest, landed, chatOf, arrivals>> /\ unheard \subseteq unheard'
    BY <1>13 DEF RemoveMessage
  <2>2. \A n \in Messages : errors'[n] # None => errors[n] # None
    BY <1>13, <1>a DEF RemoveMessage, TypeOK
  <2>3. QED BY <1>13, <1>b, <1>c, <2>1, <2>2 DEF RemoveMessage, Delivered
<1>14. ASSUME NEW m \in Messages, NEW c \in Chats, SendMessage(m, c)
       PROVE  Delivered'
  <2>1. UNCHANGED <<phase, disk, rest, landed, errors, arrivals, unheard>> /\ store' = store \cup {m}
    BY <1>14 DEF SendMessage, passVars
  <2>2. m \notin Sent /\ m \notin rest /\ arrivals[m] = 0 /\ Sent' = Sent \cup {m}
    BY <1>14, <1>a, <1>b, ChatsAssumption DEF SendMessage, TypeOK, Numbered, Sent
  <2>3. \A n \in Messages \ {m} : chatOf'[n] = chatOf[n]
    BY <1>14, <1>a DEF SendMessage, TypeOK
  <2>4. ASSUME NEW n \in Sent, InFlight(n)
        PROVE  InFlight(n)'
    <3>1. In(chatOf[n], rest)' = In(chatOf[n], rest) /\ chatOf'[n] = chatOf[n]
      BY <1>a, <2>1, <2>2, <2>3 DEF In, TypeOK, Sent
    <3>2. QED BY <2>1, <2>4, <3>1 DEF InFlight, IsNext
  <2>5. QED BY <1>b, <2>1, <2>2, <2>4 DEF Delivered
<1>15. ASSUME NEW c \in Chats, Purge(c)
       PROVE  Delivered'
  <2>1. UNCHANGED <<rest, landed, chatOf, arrivals>> /\ unheard \subseteq unheard'
    BY <1>15 DEF Purge
  <2>2. \A n \in Messages : errors'[n] # None => errors[n] # None
    BY <1>15, <1>a DEF Purge, TypeOK
  <2>3. QED BY <1>15, <1>b, <1>c, <2>1, <2>2 DEF Purge, Delivered
<1>16. CASE Crashes
  <2>1. rest' = {} /\ store' = {} /\ disk' = disk /\ Sent' = Sent /\ arrivals' = arrivals
    BY <1>16, ChatsAssumption DEF Crashes, CrashOutbox, Sent
  <2>2. unheard' = unheard \cup {n \in disk : arrivals[n] > 0} /\ \A n \in Messages : errors'[n] = None
    BY <1>16 DEF Crashes
  <2>3. Sent \subseteq Messages
    BY DEF Sent
  <2>4. QED BY <2>1, <2>2, <2>3 DEF Delivered
<1>17. QED BY <1>1, <1>2, <1>3, <1>4, <1>5, <1>6, <1>7, <1>8, <1>9, <1>10, <1>11, <1>12, <1>13,
           <1>14, <1>15, <1>16, ChatsSteps

\* What was sent stays somewhere.
LEMMA ChatsNothingLost == ChatsInv /\ [Next]_vars => NothingVanishes'
<1> SUFFICES ASSUME ChatsInv, [Next]_vars
             PROVE  NothingVanishes'
  OBVIOUS
<1>a. TypeOK /\ TypeOK'
  BY ChatsTypes DEF ChatsInv, NothingVanishes
<1>b. NothingVanishes /\ Gates /\ Numbered /\ Sending
  BY DEF ChatsInv
<1>c. Sent \subseteq Messages /\ (chatOf' = chatOf => Sent' = Sent)
  BY DEF Sent
<1> DEFINE Kept(n) == \/ n \in store
                      \/ arrivals[n] > 0
                      \/ errors[n] # None
                      \/ n \in disk /\ phase \in {"off", "reading"}
<1>d. \A n \in Sent \ out : Kept(n)
  BY <1>b DEF NothingVanishes
<1>e. (\A n \in Sent' \ out' : Kept(n)') => NothingVanishes'
  BY <1>a DEF NothingVanishes
<1> HIDE DEF Kept
<1>1. CASE Quiet
  BY <1>1, <1>a, <1>b, <1>c, <1>d, <1>e, ChatsAssumption DEF Quiet, passVars, ghostVars, Kept
<1>2. CASE SyncHostMounts
  BY <1>2, <1>a, <1>b, <1>c, <1>d, <1>e, ChatsAssumption
     DEF SyncHostMounts, Start, passVars, ghostVars, Kept
<1>3. CASE RestoreReads
  BY <1>3, <1>a, <1>b, <1>c, <1>d, <1>e, ChatsAssumption
     DEF RestoreReads, FinishRestore, MergedByUnion, ghostVars, Kept
<1>4. CASE RestorePrunes
  BY <1>4, <1>a, <1>b, <1>c, <1>d, <1>e, ChatsAssumption
     DEF RestorePrunes, FinishRestore, passVars, Kept
<1>5. CASE RestoreKeepsAll
  BY <1>5, <1>a, <1>b, <1>c, <1>d, <1>e, ChatsAssumption
     DEF RestoreKeepsAll, FinishRestore, passVars, ghostVars, Kept
<1>6. CASE PassBegins
  BY <1>6, <1>a, <1>b, <1>c, <1>d, <1>e, ChatsAssumption DEF PassBegins, MutexFree, ghostVars, Kept
<1>7. CASE PassFlushes
  BY <1>7, <1>a, <1>b, <1>c, <1>d, <1>e, ChatsAssumption DEF PassFlushes, passVars, ghostVars, Kept
<1>8. ASSUME NEW m \in Messages, NEW c \in Chats, Arrives(m, c)
      PROVE  NothingVanishes'
  <2>1. \A n \in Messages : arrivals[n] > 0 => arrivals'[n] > 0
    BY <1>8, <1>a DEF Arrives, TypeOK
  <2>2. UNCHANGED <<phase, store, disk, errors, chatOf, out>>
    BY <1>8 DEF Arrives, outboxVars
  <2>3. QED BY <1>c, <1>d, <1>e, <2>1, <2>2 DEF Kept
<1>9. ASSUME NEW m \in Messages, NEW c \in Chats, SendReturns(m, c)
      PROVE  NothingVanishes'
  <2>1. arrivals[m] > 0
    BY <1>9, <1>a, <1>b, NextIsOne DEF SendReturns, SettleSuccess, Sending
  <2>2. UNCHANGED <<phase, disk, arrivals, chatOf, out>> /\ store' = store \ {m}
    BY <1>9 DEF SendReturns, SettleSuccess
  <2>3. \A n \in Messages \ {m} : errors'[n] = errors[n]
    BY <1>9, <1>a DEF SendReturns, SettleSuccess, TypeOK
  <2>4. QED BY <1>c, <1>d, <1>e, <2>1, <2>2, <2>3 DEF Kept
<1>10. ASSUME NEW m \in Messages, NEW c \in Chats, Fails(m, c)
       PROVE  NothingVanishes'
  <2>1. PICK rejections \in {Rejections(m), Rejections(m) + 1} : SettleFailure(m, c, rejections)
    BY <1>10 DEF Fails
  <2>2. rejections # None
    BY <1>a, ChatsAssumption DEF Rejections, TypeOK
  <2>3. \A n \in Messages : errors'[n] = IF n = m THEN rejections ELSE errors[n]
    BY <1>a, <2>1 DEF SettleFailure, TypeOK
  <2>4. UNCHANGED <<phase, disk, arrivals, chatOf, out>> /\ store \ {m} \subseteq store'
    BY <2>1 DEF SettleFailure
  <2>5. QED BY <1>c, <1>d, <1>e, <2>2, <2>3, <2>4 DEF Kept
<1>11. ASSUME NEW ok \in BOOLEAN, WriteReturns(ok)
       PROVE  NothingVanishes'
  <2>1. phase = "ready"
    BY <1>11, <1>a, <1>b, WriteTakes
  <2>2. UNCHANGED <<store, arrivals, errors, chatOf, out>>
    BY <1>11 DEF WriteReturns, passVars
  <2>3. QED BY <1>c, <1>d, <1>e, <2>1, <2>2 DEF Kept
<1>12. ASSUME NEW m \in Messages, RetryMessage(m)
       PROVE  NothingVanishes'
  <2>1. \A n \in Messages \ {m} : errors'[n] = errors[n]
    BY <1>12, <1>a DEF RetryMessage, TypeOK
  <2>2. QED BY <1>12, <1>c, <1>d, <1>e, <2>1 DEF RetryMessage, Kept
<1>13. ASSUME NEW m \in Messages, RemoveMessage(m)
       PROVE  NothingVanishes'
  <2>1. \A n \in Messages \ {m} : errors'[n] = errors[n]
    BY <1>13, <1>a DEF RemoveMessage, TypeOK
  <2>2. QED BY <1>13, <1>c, <1>d, <1>e, <2>1 DEF RemoveMessage, Kept
<1>14. ASSUME NEW m \in Messages, NEW c \in Chats, SendMessage(m, c)
       PROVE  NothingVanishes'
  <2>1. UNCHANGED <<phase, disk, errors, arrivals, out>> /\ store' = store \cup {m}
    BY <1>14 DEF SendMessage, passVars
  <2>2. Sent' = Sent \cup {m}
    BY <1>14, <1>a, ChatsAssumption DEF SendMessage, TypeOK, Sent
  <2>3. QED BY <1>d, <1>e, <2>1, <2>2 DEF Kept
<1>15. ASSUME NEW c \in Chats, Purge(c)
       PROVE  NothingVanishes'
  <2>1. \A n \in Messages : errors'[n] = (IF chatOf[n] = c THEN None ELSE errors[n])
    BY <1>15 DEF Purge
  <2>2. UNCHANGED <<phase, disk, arrivals, chatOf>> /\ store' = store \ In(c, store)
    BY <1>15 DEF Purge
  <2>3. out' = out \cup In(c, store) \cup {n \in In(c, Sent) : errors[n] # None}
    BY <1>15 DEF Purge
  <2>4. QED BY <1>c, <1>d, <1>e, <2>1, <2>2, <2>3 DEF Kept, In
<1>16. CASE Crashes
  BY <1>16, <1>a, <1>b, <1>c, <1>d, <1>e, ChatsAssumption DEF Crashes, CrashOutbox, Kept
<1>17. QED BY <1>1, <1>2, <1>3, <1>4, <1>5, <1>6, <1>7, <1>8, <1>9, <1>10, <1>11, <1>12, <1>13,
           <1>14, <1>15, <1>16, ChatsSteps

\* What is out is not queued, and no row to be restored has it.
LEMMA ChatsWithdrawnKept == ChatsInv /\ [Next]_vars => WithdrawnStaysOut' /\ Apart'
<1> SUFFICES ASSUME ChatsInv, [Next]_vars
             PROVE  WithdrawnStaysOut' /\ Apart'
  OBVIOUS
<1>a. TypeOK /\ TypeOK'
  BY ChatsTypes DEF ChatsInv, NothingVanishes
<1>b. WithdrawnStaysOut /\ Apart /\ Gates /\ Numbered /\ Sending /\ SavedSurvives
  BY DEF ChatsInv
<1>c. out \subseteq Sent /\ Sent \subseteq Messages
  BY <1>a DEF TypeOK, Sent
<1>f. /\ phase' = phase /\ disk' = disk
      /\ \A i \in Waits : Pending'[i] = Pending[i]
      /\ Waits' = Waits \cup {Len(Pending) + 1} /\ Pending'[Len(Pending) + 1].queue = store'
      /\ phase = "reading" => disk \cap (store' \cup out') = {} /\ saved' = {}
      /\ phase # "off"
      => Apart'
  BY <1>b DEF Apart
<1>1. CASE Quiet
  BY <1>1, <1>a, <1>b, <1>c, FlushesStay DEF Quiet, passVars, ghostVars, WithdrawnStaysOut, Apart
<1>2. CASE SyncHostMounts
  <2>1. Pending' = Pending /\ Waits' = Waits /\ gated' = <<>>
    BY <1>2, <1>a, <1>b, FlushesStay DEF SyncHostMounts, Start, Gates
  <2>2. QED BY <1>2, <1>b, <2>1 DEF SyncHostMounts, Start, ghostVars, WithdrawnStaysOut, Apart
<1>3. CASE RestoreReads
  BY <1>3, <1>a, <1>b, <1>c, FlushesStay
     DEF RestoreReads, FinishRestore, MergedByUnion, ghostVars, WithdrawnStaysOut, Apart
<1>4. CASE RestorePrunes
  BY <1>4, <1>a, <1>b, <1>c, FlushesStay
     DEF RestorePrunes, FinishRestore, passVars, WithdrawnStaysOut, Apart
<1>5. CASE RestoreKeepsAll
  BY <1>5, <1>a, <1>b, <1>c, FlushesStay
     DEF RestoreKeepsAll, FinishRestore, passVars, ghostVars, WithdrawnStaysOut, Apart
<1>6. CASE PassBegins
  BY <1>6, <1>a, <1>b, <1>c, FlushesStay
     DEF PassBegins, MutexFree, ghostVars, WithdrawnStaysOut, Apart
<1>7. CASE PassFlushes
  <2>1. /\ phase' = phase /\ \A i \in Waits : Pending'[i] = Pending[i]
        /\ Waits' = Waits \cup {Len(Pending) + 1} /\ Pending'[Len(Pending) + 1].queue = store'
    BY <1>7, <1>a, <1>b, FlushIsCalled
  <2>2. WithdrawnStaysOut'
    BY <1>7, <1>b, <1>c DEF PassFlushes, passVars, ghostVars, WithdrawnStaysOut, In
  <2>3. /\ disk' = disk /\ phase # "off"
        /\ phase = "reading" => disk \cap (store' \cup out') = {} /\ saved' = {}
    BY <1>7, <1>a, <1>b, <1>c
       DEF PassFlushes, passVars, ghostVars, Sending, Apart, Numbered, TypeOK, In
  <2>4. QED BY <1>f, <2>1, <2>2, <2>3
<1>8. ASSUME NEW m \in Messages, NEW c \in Chats, Arrives(m, c)
      PROVE  WithdrawnStaysOut' /\ Apart'
  BY <1>8, <1>a, <1>b, <1>c, FlushesStay DEF Arrives, outboxVars, WithdrawnStaysOut, Apart
<1>9. ASSUME NEW m \in Messages, NEW c \in Chats, SendReturns(m, c)
      PROVE  WithdrawnStaysOut' /\ Apart'
  BY <1>9, <1>a, <1>b, <1>c, FlushesStay DEF SendReturns, SettleSuccess, WithdrawnStaysOut, Apart
<1>10. ASSUME NEW m \in Messages, NEW c \in Chats, Fails(m, c)
       PROVE  WithdrawnStaysOut' /\ Apart'
  BY <1>10, <1>a, <1>b, <1>c, FlushesStay DEF Fails, SettleFailure, WithdrawnStaysOut, Apart
<1>11. ASSUME NEW ok \in BOOLEAN, WriteReturns(ok)
       PROVE  WithdrawnStaysOut' /\ Apart'
  <2>1. phase' = "ready"
    BY <1>11, <1>a, <1>b, WriteTakes
  <2>2. QED BY <1>11, <1>b, <2>1 DEF WriteReturns, WithdrawnStaysOut, Apart
<1>12. ASSUME NEW m \in Messages, RetryMessage(m)
       PROVE  WithdrawnStaysOut' /\ Apart'
  <2>1. /\ phase' = phase /\ \A i \in Waits : Pending'[i] = Pending[i]
        /\ Waits' = Waits \cup {Len(Pending) + 1} /\ Pending'[Len(Pending) + 1].queue = store'
    BY <1>12, <1>a, <1>b, FlushIsCalled
  <2>2. WithdrawnStaysOut'
    BY <1>12, <1>b, <1>c DEF RetryMessage, WithdrawnStaysOut, In
  <2>3. /\ disk' = disk /\ phase # "off"
        /\ phase = "reading" => disk \cap (store' \cup out') = {} /\ saved' = {}
    BY <1>12, <1>a, <1>b, <1>c DEF RetryMessage, Sending, Apart, Numbered, TypeOK, In
  <2>4. QED BY <1>f, <2>1, <2>2, <2>3
<1>13. ASSUME NEW m \in Messages, RemoveMessage(m)
       PROVE  WithdrawnStaysOut' /\ Apart'
  <2>1. /\ phase' = phase /\ \A i \in Waits : Pending'[i] = Pending[i]
        /\ Waits' = Waits \cup {Len(Pending) + 1} /\ Pending'[Len(Pending) + 1].queue = store'
    BY <1>13, <1>a, <1>b, FlushIsCalled
  <2>2. WithdrawnStaysOut'
    BY <1>13, <1>b, <1>c DEF RemoveMessage, WithdrawnStaysOut, In
  <2>3. /\ disk' = disk /\ phase # "off"
        /\ phase = "reading" => disk \cap (store' \cup out') = {} /\ saved' = {}
    BY <1>13, <1>a, <1>b, <1>c DEF RemoveMessage, Sending, Apart, Numbered, TypeOK, In
  <2>4. QED BY <1>f, <2>1, <2>2, <2>3
<1>14. ASSUME NEW m \in Messages, NEW c \in Chats, SendMessage(m, c)
       PROVE  WithdrawnStaysOut' /\ Apart'
  <2>1. /\ phase' = phase /\ \A i \in Waits : Pending'[i] = Pending[i]
        /\ Waits' = Waits \cup {Len(Pending) + 1} /\ Pending'[Len(Pending) + 1].queue = store'
    BY <1>14, <1>a, <1>b, FlushIsCalled
  <2>2. WithdrawnStaysOut'
    BY <1>14, <1>b, <1>c DEF SendMessage, passVars, WithdrawnStaysOut, In
  <2>3. /\ disk' = disk /\ phase # "off"
        /\ phase = "reading" => disk \cap (store' \cup out') = {} /\ saved' = {}
    BY <1>14, <1>a, <1>b, <1>c DEF SendMessage, passVars, Sending, Apart, Numbered, TypeOK, In
  <2>4. QED BY <1>f, <2>1, <2>2, <2>3
<1>15. ASSUME NEW c \in Chats, Purge(c)
       PROVE  WithdrawnStaysOut' /\ Apart'
  <2>1. /\ phase' = phase /\ \A i \in Waits : Pending'[i] = Pending[i]
        /\ Waits' = Waits \cup {Len(Pending) + 1} /\ Pending'[Len(Pending) + 1].queue = store'
    BY <1>15, <1>a, <1>b, FlushIsCalled
  <2>2. WithdrawnStaysOut'
    BY <1>15, <1>b, <1>c DEF Purge, WithdrawnStaysOut, In
  <2>3. /\ disk' = disk /\ phase # "off"
        /\ phase = "reading" => disk \cap (store' \cup out') = {} /\ saved' = {}
    BY <1>15, <1>a, <1>b, <1>c DEF Purge, Sending, Apart, Numbered, TypeOK, In
  <2>4. QED BY <1>f, <2>1, <2>2, <2>3
<1>16. CASE Crashes
  <2>1. Waits' = {} /\ gated' = <<>> /\ store' = {} /\ out' = Sent \ disk /\ disk' = disk
    BY <1>16, CrashClears, ChatsAssumption DEF Crashes, CrashOutbox
  <2>2. QED BY <2>1 DEF WithdrawnStaysOut, Apart
<1>17. QED BY <1>1, <1>2, <1>3, <1>4, <1>5, <1>6, <1>7, <1>8, <1>9, <1>10, <1>11, <1>12, <1>13,
           <1>14, <1>15, <1>16, ChatsSteps

\* What a write brought to the row, the later ones leave there.
LEMMA ChatsLasting == ChatsInv /\ [Next]_vars => Lasting'
<1> SUFFICES ASSUME ChatsInv, [Next]_vars
             PROVE  Lasting'
  OBVIOUS
<1>a. TypeOK /\ TypeOK'
  BY ChatsTypes DEF ChatsInv, NothingVanishes
<1>b. SavedSurvives /\ Lasting /\ Apart /\ Gates /\ Numbered /\ Sending
  BY DEF ChatsInv
<1>c. \A i \in Waits : saved \subseteq Pending[i].queue
  BY <1>b DEF Lasting
<1>d. \A i, j \in Waits : i < j => (store \cap Pending[i].queue) \ failed \subseteq Pending[j].queue
  BY <1>b DEF Lasting
<1>e. phase \in {"reconciling", "ready"} => saved \subseteq store
  BY <1>b DEF Lasting
<1>s. /\ Pending' = Pending /\ Waits' = Waits /\ saved' \subseteq saved /\ failed \subseteq failed'
      /\ \A i \in Waits : store' \cap Pending[i].queue \subseteq store
      /\ phase' \in {"reconciling", "ready"} => saved' \subseteq store'
      => Lasting'
  BY <1>c, <1>d DEF Lasting
<1>f. /\ \A i \in Waits : Pending'[i] = Pending[i] /\ i < Len(Pending) + 1
      /\ Waits' = Waits \cup {Len(Pending) + 1} /\ Pending'[Len(Pending) + 1].queue = store'
      /\ saved' \subseteq saved /\ saved' \subseteq store' /\ failed' = failed
      /\ \A i \in Waits : (store' \cap Pending[i].queue) \ failed \subseteq store
      => Lasting'
  <2> SUFFICES ASSUME /\ \A i \in Waits : Pending'[i] = Pending[i] /\ i < Len(Pending) + 1
                      /\ Waits' = Waits \cup {Len(Pending) + 1}
                      /\ Pending'[Len(Pending) + 1].queue = store'
                      /\ saved' \subseteq saved /\ saved' \subseteq store' /\ failed' = failed
                      /\ \A i \in Waits : (store' \cap Pending[i].queue) \ failed \subseteq store
               PROVE  Lasting'
    OBVIOUS
  <2>1. \A i \in Waits' : saved' \subseteq Pending'[i].queue
    BY <1>c
  <2>2. ASSUME NEW i \in Waits', NEW j \in Waits', i < j
        PROVE  (store' \cap Pending'[i].queue) \ failed' \subseteq Pending'[j].queue
    <3>1. CASE j = Len(Pending) + 1
      BY <3>1
    <3>2. CASE j \in Waits
      <4>1. i \in Waits
        BY <2>2, <3>2, PendingType, <1>a DEF Waits
      <4>2. QED BY <1>d, <2>2, <3>2, <4>1
    <3>3. QED BY <3>1, <3>2
  <2>3. QED BY <2>1, <2>2 DEF Lasting
<1>1. CASE Quiet
  <2>1. Pending' = Pending /\ Waits' = Waits
    BY <1>1, <1>a, <1>b, FlushesStay
  <2>2. /\ saved' \subseteq saved /\ failed \subseteq failed' /\ store' \subseteq store
        /\ phase' \in {"reconciling", "ready"} => saved' \subseteq store'
    BY <1>1, <1>e DEF Quiet, passVars, ghostVars
  <2>3. QED BY <1>s, <2>1, <2>2
<1>2. CASE SyncHostMounts
  <2>1. Pending' = Pending /\ Waits' = Waits
    BY <1>2, <1>a, <1>b, FlushesStay
  <2>2. /\ saved' \subseteq saved /\ failed \subseteq failed' /\ store' \subseteq store
        /\ phase' \in {"reconciling", "ready"} => saved' \subseteq store'
    BY <1>2, <1>e DEF SyncHostMounts, Start, passVars, ghostVars
  <2>3. QED BY <1>s, <2>1, <2>2
<1>3. CASE RestoreReads
  <2>1. Pending' = Pending /\ Waits' = Waits
    BY <1>3, <1>a, <1>b, FlushesStay
  <2>2. saved' = saved /\ failed' = failed /\ store' = store \cup disk
    BY <1>3, ChatsAssumption DEF RestoreReads, MergedByUnion, ghostVars
  <2>3. \A i \in Waits : store' \cap Pending[i].queue \subseteq store
    BY <1>3, <1>b, <2>2 DEF RestoreReads, Apart
  <2>4. saved' \subseteq store'
    BY <1>b, <2>2 DEF SavedSurvives
  <2>5. QED BY <1>s, <2>1, <2>2, <2>3, <2>4
<1>4. CASE RestorePrunes
  <2>1. Pending' = Pending /\ Waits' = Waits
    BY <1>4, <1>a, <1>b, FlushesStay
  <2>2. /\ saved' \subseteq saved /\ failed \subseteq failed' /\ store' \subseteq store
        /\ phase' \in {"reconciling", "ready"} => saved' \subseteq store'
    BY <1>4, <1>e DEF RestorePrunes, FinishRestore, passVars
  <2>3. QED BY <1>s, <2>1, <2>2
<1>5. CASE RestoreKeepsAll
  <2>1. Pending' = Pending /\ Waits' = Waits
    BY <1>5, <1>a, <1>b, FlushesStay
  <2>2. /\ saved' \subseteq saved /\ failed \subseteq failed' /\ store' \subseteq store
        /\ phase' \in {"reconciling", "ready"} => saved' \subseteq store'
    BY <1>5, <1>e DEF RestoreKeepsAll, FinishRestore, passVars, ghostVars
  <2>3. QED BY <1>s, <2>1, <2>2
<1>6. CASE PassBegins
  <2>1. Pending' = Pending /\ Waits' = Waits
    BY <1>6, <1>a, <1>b, FlushesStay
  <2>2. /\ saved' \subseteq saved /\ failed \subseteq failed' /\ store' \subseteq store
        /\ phase' \in {"reconciling", "ready"} => saved' \subseteq store'
    BY <1>6, <1>e DEF PassBegins, MutexFree, ghostVars
  <2>3. QED BY <1>s, <2>1, <2>2
<1>7. CASE PassFlushes
  <2>1. /\ \A i \in Waits : Pending'[i] = Pending[i] /\ i < Len(Pending) + 1
        /\ Waits' = Waits \cup {Len(Pending) + 1} /\ Pending'[Len(Pending) + 1].queue = store'
    BY <1>7, <1>a, <1>b, FlushIsCalled
  <2>2. saved' \subseteq saved /\ saved' \subseteq store' /\ failed' = failed
    BY <1>7, <1>a, <1>b, <1>e DEF PassFlushes, passVars, ghostVars, Sending, TypeOK, OutboxTypeOK
  <2>3. \A i \in Waits : (store' \cap Pending[i].queue) \ failed \subseteq store
    BY <1>7, <1>a, <1>b DEF PassFlushes, passVars, ghostVars, Sending, Numbered
  <2>4. QED BY <1>f, <2>1, <2>2, <2>3
<1>8. ASSUME NEW m \in Messages, NEW c \in Chats, Arrives(m, c)
      PROVE  Lasting'
  <2>1. Pending' = Pending /\ Waits' = Waits
    BY <1>8, <1>a, <1>b, FlushesStay
  <2>2. /\ saved' \subseteq saved /\ failed \subseteq failed' /\ store' \subseteq store
        /\ phase' \in {"reconciling", "ready"} => saved' \subseteq store'
    BY <1>8, <1>e DEF Arrives, outboxVars
  <2>3. QED BY <1>s, <2>1, <2>2
<1>9. ASSUME NEW m \in Messages, NEW c \in Chats, SendReturns(m, c)
      PROVE  Lasting'
  <2>1. Pending' = Pending /\ Waits' = Waits
    BY <1>9, <1>a, <1>b, FlushesStay
  <2>2. /\ saved' \subseteq saved /\ failed \subseteq failed' /\ store' \subseteq store
        /\ phase' \in {"reconciling", "ready"} => saved' \subseteq store'
    BY <1>9, <1>e DEF SendReturns, SettleSuccess
  <2>3. QED BY <1>s, <2>1, <2>2
<1>10. ASSUME NEW m \in Messages, NEW c \in Chats, Fails(m, c)
       PROVE  Lasting'
  <2>1. Pending' = Pending /\ Waits' = Waits
    BY <1>10, <1>a, <1>b, FlushesStay
  <2>2. /\ saved' \subseteq saved /\ failed \subseteq failed' /\ store' \subseteq store
        /\ phase' \in {"reconciling", "ready"} => saved' \subseteq store'
    BY <1>10, <1>e DEF Fails, SettleFailure
  <2>3. QED BY <1>s, <2>1, <2>2
<1>11. ASSUME NEW ok \in BOOLEAN, WriteReturns(ok)
       PROVE  Lasting'
  <2>1. /\ phase = "ready" /\ 1 \in Waits /\ Head(writes) = Pending[1] /\ Pending = writes
        /\ \A i \in Waits' : i + 1 \in Waits /\ Pending'[i] = Pending[i + 1]
        /\ \A i \in Waits' : i + 1 \in 2..Len(writes)
    BY <1>11, <1>a, <1>b, WriteTakes
  <2>2. /\ UNCHANGED <<store, failed>>
        /\ saved' \subseteq saved \cup Persisted(Pending[1].queue)
    BY <1>11, <2>1 DEF WriteReturns
  <2>3. saved' \subseteq store'
    BY <1>e, <2>1, <2>2 DEF Persisted
  <2>4. ASSUME NEW i \in Waits'
        PROVE  saved' \subseteq Pending'[i].queue
    <3>1. i + 1 \in Waits /\ 1 < i + 1 /\ i + 1 \in 2..Len(writes) /\ Pending'[i] = writes[i + 1]
      BY <2>1 DEF Waits
    <3>2. saved \subseteq writes[i + 1].queue
      BY <1>c, <2>1, <3>1
    <3>3. (store \cap Pending[1].queue) \ failed \subseteq writes[i + 1].queue
      BY <1>d, <2>1, <3>1
    <3>4. Persisted(Pending[1].queue) \subseteq writes[i + 1].queue
      BY <3>1, <3>3 DEF Persisted
    <3>5. QED BY <2>2, <3>1, <3>2, <3>4
  <2>5. ASSUME NEW i \in Waits', NEW j \in Waits', i < j
        PROVE  (store' \cap Pending'[i].queue) \ failed' \subseteq Pending'[j].queue
    <3>1. i + 1 < j + 1
      BY <2>5 DEF Waits
    <3>2. QED BY <1>d, <2>1, <2>2, <3>1
  <2>6. QED BY <2>3, <2>4, <2>5 DEF Lasting
<1>12. ASSUME NEW m \in Messages, RetryMessage(m)
       PROVE  Lasting'
  <2>1. /\ \A i \in Waits : Pending'[i] = Pending[i] /\ i < Len(Pending) + 1
        /\ Waits' = Waits \cup {Len(Pending) + 1} /\ Pending'[Len(Pending) + 1].queue = store'
    BY <1>12, <1>a, <1>b, FlushIsCalled
  <2>2. saved' \subseteq saved /\ saved' \subseteq store' /\ failed' = failed
    BY <1>12, <1>a, <1>b, <1>e DEF RetryMessage, Sending, TypeOK, OutboxTypeOK
  <2>3. \A i \in Waits : (store' \cap Pending[i].queue) \ failed \subseteq store
    BY <1>12, <1>a, <1>b DEF RetryMessage, Sending, Numbered
  <2>4. QED BY <1>f, <2>1, <2>2, <2>3
<1>13. ASSUME NEW m \in Messages, RemoveMessage(m)
       PROVE  Lasting'
  <2>1. /\ \A i \in Waits : Pending'[i] = Pending[i] /\ i < Len(Pending) + 1
        /\ Waits' = Waits \cup {Len(Pending) + 1} /\ Pending'[Len(Pending) + 1].queue = store'
    BY <1>13, <1>a, <1>b, FlushIsCalled
  <2>2. saved' \subseteq saved /\ saved' \subseteq store' /\ failed' = failed
    BY <1>13, <1>a, <1>b, <1>e DEF RemoveMessage, Sending, TypeOK, OutboxTypeOK
  <2>3. \A i \in Waits : (store' \cap Pending[i].queue) \ failed \subseteq store
    BY <1>13, <1>a, <1>b DEF RemoveMessage, Sending, Numbered
  <2>4. QED BY <1>f, <2>1, <2>2, <2>3
<1>14. ASSUME NEW m \in Messages, NEW c \in Chats, SendMessage(m, c)
       PROVE  Lasting'
  <2>1. /\ \A i \in Waits : Pending'[i] = Pending[i] /\ i < Len(Pending) + 1
        /\ Waits' = Waits \cup {Len(Pending) + 1} /\ Pending'[Len(Pending) + 1].queue = store'
    BY <1>14, <1>a, <1>b, FlushIsCalled
  <2>2. saved' \subseteq saved /\ saved' \subseteq store' /\ failed' = failed
    BY <1>14, <1>a, <1>b, <1>e DEF SendMessage, passVars, Sending, TypeOK, OutboxTypeOK
  <2>3. \A i \in Waits : (store' \cap Pending[i].queue) \ failed \subseteq store
    BY <1>14, <1>a, <1>b DEF SendMessage, passVars, Sending, Numbered
  <2>4. QED BY <1>f, <2>1, <2>2, <2>3
<1>15. ASSUME NEW c \in Chats, Purge(c)
       PROVE  Lasting'
  <2>1. /\ \A i \in Waits : Pending'[i] = Pending[i] /\ i < Len(Pending) + 1
        /\ Waits' = Waits \cup {Len(Pending) + 1} /\ Pending'[Len(Pending) + 1].queue = store'
    BY <1>15, <1>a, <1>b, FlushIsCalled
  <2>2. saved' \subseteq saved /\ saved' \subseteq store' /\ failed' = failed
    BY <1>15, <1>a, <1>b, <1>e DEF Purge, Sending, TypeOK, OutboxTypeOK
  <2>3. \A i \in Waits : (store' \cap Pending[i].queue) \ failed \subseteq store
    BY <1>15, <1>a, <1>b DEF Purge, Sending, Numbered
  <2>4. QED BY <1>f, <2>1, <2>2, <2>3
<1>16. CASE Crashes
  <2>1. Waits' = {} /\ phase' = "off"
    BY <1>16, CrashClears DEF Crashes, CrashOutbox
  <2>2. QED BY <2>1 DEF Lasting
<1>17. QED BY <1>1, <1>2, <1>3, <1>4, <1>5, <1>6, <1>7, <1>8, <1>9, <1>10, <1>11, <1>12, <1>13,
           <1>14, <1>15, <1>16, ChatsSteps

\* What is saved is in the row.
LEMMA ChatsSavedKept == ChatsInv /\ [Next]_vars => SavedSurvives'
<1> SUFFICES ASSUME ChatsInv, [Next]_vars
             PROVE  SavedSurvives'
  OBVIOUS
<1>a. TypeOK /\ TypeOK'
  BY ChatsTypes DEF ChatsInv, NothingVanishes
<1>b. SavedSurvives /\ Lasting /\ Gates
  BY DEF ChatsInv
<1>1. CASE Quiet
  BY <1>1, <1>b DEF Quiet, passVars, ghostVars, SavedSurvives
<1>2. CASE SyncHostMounts
  BY <1>2, <1>b DEF SyncHostMounts, Start, passVars, ghostVars, SavedSurvives
<1>3. CASE RestoreReads
  BY <1>3, <1>b DEF RestoreReads, FinishRestore, MergedByUnion, ghostVars, SavedSurvives
<1>4. CASE RestorePrunes
  BY <1>4, <1>b DEF RestorePrunes, FinishRestore, passVars, SavedSurvives
<1>5. CASE RestoreKeepsAll
  BY <1>5, <1>b DEF RestoreKeepsAll, FinishRestore, passVars, ghostVars, SavedSurvives
<1>6. CASE PassBegins
  BY <1>6, <1>b DEF PassBegins, MutexFree, ghostVars, SavedSurvives
<1>7. CASE PassFlushes
  BY <1>7, <1>b DEF PassFlushes, passVars, ghostVars, SavedSurvives
<1>8. ASSUME NEW m \in Messages, NEW c \in Chats, Arrives(m, c)
      PROVE  SavedSurvives'
  BY <1>8, <1>b DEF Arrives, outboxVars, SavedSurvives
<1>9. ASSUME NEW m \in Messages, NEW c \in Chats, SendReturns(m, c)
      PROVE  SavedSurvives'
  BY <1>9, <1>b DEF SendReturns, SettleSuccess, SavedSurvives
<1>10. ASSUME NEW m \in Messages, NEW c \in Chats, Fails(m, c)
       PROVE  SavedSurvives'
  BY <1>10, <1>b DEF Fails, SettleFailure, SavedSurvives
<1>11. ASSUME NEW ok \in BOOLEAN, WriteReturns(ok)
       PROVE  SavedSurvives'
  <2>1. /\ 1 \in Waits /\ Head(writes) = Pending[1]
        /\ disk' = IF ok THEN Pending[1].queue ELSE disk
    BY <1>11, <1>a, <1>b, WriteTakes
  <2>2. saved \subseteq Pending[1].queue
    BY <1>b, <2>1 DEF Lasting
  <2>3. QED BY <1>11, <1>b, <2>1, <2>2 DEF WriteReturns, Persisted, SavedSurvives
<1>12. ASSUME NEW m \in Messages, RetryMessage(m)
       PROVE  SavedSurvives'
  BY <1>12, <1>b DEF RetryMessage, SavedSurvives
<1>13. ASSUME NEW m \in Messages, RemoveMessage(m)
       PROVE  SavedSurvives'
  BY <1>13, <1>b DEF RemoveMessage, SavedSurvives
<1>14. ASSUME NEW m \in Messages, NEW c \in Chats, SendMessage(m, c)
       PROVE  SavedSurvives'
  BY <1>14, <1>b DEF SendMessage, passVars, SavedSurvives
<1>15. ASSUME NEW c \in Chats, Purge(c)
       PROVE  SavedSurvives'
  BY <1>15, <1>b DEF Purge, SavedSurvives
<1>16. CASE Crashes
  BY <1>16, <1>b DEF Crashes, CrashOutbox, SavedSurvives
<1>17. QED BY <1>1, <1>2, <1>3, <1>4, <1>5, <1>6, <1>7, <1>8, <1>9, <1>10, <1>11, <1>12, <1>13,
           <1>14, <1>15, <1>16, ChatsSteps

\* Of a chat, the pass has left the later messages.
LEMMA ChatsInOrderKept == ChatsInv /\ [Next]_vars => InOrder'
<1> SUFFICES ASSUME ChatsInv, [Next]_vars
             PROVE  InOrder'
  OBVIOUS
<1>a. TypeOK /\ TypeOK'
  BY ChatsTypes DEF ChatsInv, NothingVanishes
<1>b. InOrder /\ Gates /\ Numbered /\ Sending
  BY DEF ChatsInv
<1>1. CASE Quiet
  BY <1>1, <1>a, <1>b DEF Quiet, passVars, ghostVars, InOrder
<1>2. CASE SyncHostMounts
  BY <1>2, <1>a, <1>b DEF SyncHostMounts, Start, passVars, ghostVars, InOrder
<1>3. CASE RestoreReads
  <2>1. rest = {} /\ rest' = rest
    BY <1>3, <1>b DEF RestoreReads, Sending
  <2>2. QED BY <2>1 DEF InOrder
<1>4. CASE RestorePrunes
  BY <1>4, <1>a, <1>b DEF RestorePrunes, FinishRestore, passVars, InOrder
<1>5. CASE RestoreKeepsAll
  BY <1>5, <1>a, <1>b DEF RestoreKeepsAll, FinishRestore, passVars, ghostVars, InOrder
<1>6. CASE PassBegins
  BY <1>6, <1>a, <1>b DEF PassBegins, MutexFree, ghostVars, InOrder
<1>7. CASE PassFlushes
  BY <1>7, <1>a, <1>b DEF PassFlushes, passVars, ghostVars, InOrder
<1>8. ASSUME NEW m \in Messages, NEW c \in Chats, Arrives(m, c)
      PROVE  InOrder'
  <2>1. \A n \in Messages : arrivals[n] > 0 => arrivals'[n] > 0
    BY <1>8, <1>a DEF Arrives, TypeOK
  <2>2. QED BY <1>8, <1>a, <1>b, <2>1 DEF Arrives, outboxVars, InOrder, TypeOK, OutboxTypeOK
<1>9. ASSUME NEW m \in Messages, NEW c \in Chats, SendReturns(m, c)
      PROVE  InOrder'
  <2>1. arrivals[m] > 0
    BY <1>9, <1>a, <1>b, NextIsOne DEF SendReturns, SettleSuccess, Sending
  <2>2. QED BY <1>9, <1>b, <2>1 DEF SendReturns, SettleSuccess, InOrder
<1>10. ASSUME NEW m \in Messages, NEW c \in Chats, Fails(m, c)
       PROVE  InOrder'
  BY <1>10, <1>a, <1>b DEF Fails, SettleFailure, InOrder
<1>11. ASSUME NEW ok \in BOOLEAN, WriteReturns(ok)
       PROVE  InOrder'
  BY <1>11, <1>b DEF WriteReturns, WriteOldest, passVars, InOrder
<1>12. ASSUME NEW m \in Messages, RetryMessage(m)
       PROVE  InOrder'
  <2>1. m \in failed
    BY <1>12, <1>b DEF RetryMessage, Sending
  <2>2. QED BY <1>12, <1>b, <2>1 DEF RetryMessage, InOrder
<1>13. ASSUME NEW m \in Messages, RemoveMessage(m)
       PROVE  InOrder'
  BY <1>13, <1>a, <1>b DEF RemoveMessage, InOrder
<1>14. ASSUME NEW m \in Messages, NEW c \in Chats, SendMessage(m, c)
       PROVE  InOrder'
  <2>1. UNCHANGED <<rest, arrivals, failed>> /\ store' = store \cup {m} /\ m \notin Sent
    BY <1>14 DEF SendMessage, passVars
  <2>2. rest \subseteq Sent /\ store \subseteq Sent /\ Sent \subseteq Messages
    BY <1>a, <1>b DEF TypeOK, Numbered, Sent
  <2>3. \A n \in Sent : chatOf'[n] = chatOf[n]
    BY <1>14, <1>a, <2>1 DEF SendMessage, TypeOK, Sent
  <2>4. \A n \in rest : ~(m < n)
    <3> SUFFICES ASSUME NEW n \in rest, m < n
                 PROVE  FALSE
      OBVIOUS
    <3>1. m \in 1..n
      BY <2>2 DEF Messages
    <3>2. QED BY <1>b, <2>1, <2>2, <3>1 DEF Numbered
  <2>5. QED BY <1>b, <2>1, <2>2, <2>3, <2>4 DEF InOrder
<1>15. ASSUME NEW c \in Chats, Purge(c)
       PROVE  InOrder'
  BY <1>15, <1>a, <1>b DEF Purge, InOrder
<1>16. CASE Crashes
  BY <1>16, <1>a, <1>b DEF Crashes, CrashOutbox, InOrder
<1>17. QED BY <1>1, <1>2, <1>3, <1>4, <1>5, <1>6, <1>7, <1>8, <1>9, <1>10, <1>11, <1>12, <1>13,
           <1>14, <1>15, <1>16, ChatsSteps

-----------------------------------------------------------------------------
LEMMA ChatsInit == Init => ChatsInv
<1> SUFFICES ASSUME Init
             PROVE  ChatsInv
  OBVIOUS
<1>1. /\ phase = "off" /\ store = {} /\ disk = {} /\ gated = <<>> /\ writes = <<>>
      /\ waiting = FALSE /\ pass = "none" /\ online \in BOOLEAN
  BY ChatsAssumption DEF Init, OutboxInit
<1>2. Sent = {} /\ \A m \in Messages : errors[m] = None /\ arrivals[m] = 0
  BY DEF Init, Sent
<1>3. Pending = <<>> /\ Waits = {}
  BY <1>1 DEF Pending, Waits
<1>4. TypeOK
  <2>1. OutboxTypeOK(SUBSET Messages, {"sync", "none", "pass"})
    <3>1. <<>> \in Seq([queue : SUBSET Messages, then : {"sync", "none", "pass"}])
      OBVIOUS
    <3>2. waiting \in BOOLEAN /\ online \in BOOLEAN
      BY <1>1
    <3>3. QED BY <1>1, <3>1, <3>2 DEF OutboxTypeOK
  <2>2. 0 \in 0..MaxMishaps /\ 0 \in 0..2
    BY ChatsAssumption
  <2>3. QED BY <1>1, <2>1, <2>2 DEF Init, TypeOK
<1>5. NothingVanishes /\ AtMostOnce
  BY <1>2, <1>4 DEF NothingVanishes, AtMostOnce
<1>6. WithdrawnStaysOut /\ SavedSurvives
  BY <1>1 DEF Init, WithdrawnStaysOut, SavedSurvives
<1>7. Gates /\ OnePass /\ Numbered /\ Sending /\ Delivered /\ Apart /\ Lasting /\ InOrder
  BY <1>1, <1>2, <1>3
     DEF Init, Gates, OnePass, Numbered, Sending, Delivered, Apart, Lasting, InOrder
<1>8. QED BY <1>5, <1>6, <1>7 DEF ChatsInv

\* The inductive invariant holds in every state.
THEOREM ChatsInvariant == Spec => []ChatsInv
<1>1. ChatsInv /\ [Next]_vars => ChatsInv'
  BY ChatsGates, ChatsNumbered, ChatsSending, ChatsAtMostOnceKept, ChatsDelivered, ChatsNothingLost,
     ChatsWithdrawnKept, ChatsLasting, ChatsSavedKept, ChatsInOrderKept DEF ChatsInv
<1>2. QED BY <1>1, ChatsInit, PTL DEF Spec

\* sendChatMessage() runs twice for one message only if the answer of an
\* earlier run was lost, or the process ended before the row was rewritten.
THEOREM ChatsAtMostOnce == Spec => []AtMostOnce
BY ChatsInvariant, PTL DEF ChatsInv

\* Passes, restores, retries and purges lose no message: each that was sent is
\* queued, arrived, shown as failed, in the row to be restored, or withdrawn.
THEOREM ChatsNothingVanishes == Spec => []NothingVanishes
BY ChatsInvariant, PTL DEF ChatsInv

\* Neither the pass that holds it nor the merge of the row brings back what
\* removeInflightMessage() or purgeChatInflightState() took out of the queue.
THEOREM ChatsWithdrawn == Spec => []WithdrawnStaysOut
BY ChatsInvariant, PTL DEF ChatsInv

\* However many flushes wait, no later one takes a queued message out of the
\* row an earlier one has put there.
THEOREM ChatsSaved == Spec => []SavedSurvives
BY ChatsInvariant, PTL DEF ChatsInv

\* A message is performed before an earlier one of its chat only if that one
\* failed or was withdrawn.
THEOREM ChatsInOrder == Spec => ArrivesInOrder
<1> DEFINE Ordered ==
      \A m \in Messages : arrivals'[m] # arrivals[m] =>
        \A earlier \in In(chatOf[m], 1..(m - 1)) \ (failed \cup out) : arrivals[earlier] > 0
<1>1. ASSUME ChatsInv, [Next]_vars
      PROVE  Ordered
  <2>a. TypeOK /\ NothingVanishes /\ Numbered /\ Sending /\ InOrder
    BY <1>1 DEF ChatsInv, NothingVanishes
  <2>1. ASSUME NEW m \in Messages, NEW c \in Chats, Arrives(m, c)
        PROVE  Ordered
    <3>1. m \in rest /\ chatOf[m] = c /\ phase = "ready"
      BY <2>1, <2>a DEF Arrives, IsNext, In, Sending
    <3>2. \A n \in Messages \ {m} : arrivals'[n] = arrivals[n]
      BY <2>1, <2>a DEF Arrives, TypeOK
    <3>3. ASSUME NEW earlier \in In(c, 1..(m - 1)) \ (failed \cup out)
          PROVE  arrivals[earlier] > 0
      <4>1. earlier \in Messages /\ earlier < m /\ chatOf[earlier] = c /\ m \in Nat
        BY ChatsAssumption DEF In, Messages
      <4>2. earlier \in Sent
        BY <4>1, ChatsAssumption DEF Sent
      <4>3. earlier \in store \/ arrivals[earlier] > 0
        BY <2>a, <3>1, <4>1, <4>2 DEF NothingVanishes, Sending
      <4>4. earlier \notin rest
        BY <2>1, <4>1 DEF Arrives, IsNext, In
      <4>5. QED BY <2>a, <3>1, <4>1, <4>3, <4>4 DEF InOrder
    <3>4. QED BY <3>1, <3>2, <3>3
  <2>2. (\A m \in Messages, c \in Chats : ~Arrives(m, c)) => arrivals' = arrivals
    <3>1. CASE Quiet \/ SyncHostMounts \/ RestoreReads \/ RestorePrunes \/ RestoreKeepsAll
      BY <3>1 DEF Quiet, SyncHostMounts, RestoreReads, RestorePrunes, RestoreKeepsAll, ghostVars
    <3>2. CASE PassBegins \/ PassFlushes \/ Crashes \/ \E ok \in BOOLEAN : WriteReturns(ok)
      BY <3>2 DEF PassBegins, PassFlushes, Crashes, WriteReturns, ghostVars
    <3>3. CASE \E m \in Messages : RetryMessage(m) \/ RemoveMessage(m)
      BY <3>3 DEF RetryMessage, RemoveMessage
    <3>4. CASE \E m \in Messages, c \in Chats : SendReturns(m, c) \/ Fails(m, c) \/ SendMessage(m, c)
      BY <3>4 DEF SendReturns, SettleSuccess, Fails, SettleFailure, SendMessage
    <3>5. CASE \E c \in Chats : Purge(c)
      BY <3>5 DEF Purge
    <3>6. QED BY <1>1, <3>1, <3>2, <3>3, <3>4, <3>5, ChatsSteps
  <2>3. QED BY <2>1, <2>2
<1>2. ChatsInv /\ [Next]_vars => [Ordered]_vars
  BY <1>1
<1>3. QED BY <1>2, ChatsInvariant, PTL DEF Spec, ArrivesInOrder
=============================================================================
