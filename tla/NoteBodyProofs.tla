--------------------------- MODULE NoteBodyProofs ---------------------------
(***************************************************************************)
(* Proofs about a note's cached body, for any bounds: any number of        *)
(* versions, pushes, gaps of the socket and echoes remembered.             *)
(*                                                                         *)
(* That a body shown on reopening without a read is the server's           *)
(* (ReopenIsCurrent) is about what is newer than a body: as long as no     *)
(* event and no connect came since the trusted read began, every version   *)
(* newer than the cached body still has its event on its way.  A push      *)
(* under way keeps its note dirty, so no read begins under it, and the     *)
(* body a late refresh expects to replace is the text of no version newer  *)
(* than the one it brings (BodyInv).                                       *)
(*                                                                         *)
(* That echoes are told from other edits (EchoesAreOurs), and that a push  *)
(* whose echo can be told stays in the cache (PushStays), rests on what is *)
(* remembered being exactly the pushes that are yet to be heard, up to     *)
(* what the limit dropped and what another device saved too (EchoInv).     *)
(***************************************************************************)
EXTENDS NoteBody, SequenceTheorems, FiniteSetTheorems, WellFoundedInduction, TLAPS

\* The parts of the types the argument needs.
BodyTypes ==
  /\ history \in Seq(Nat) /\ body \in 1 .. Newest
  /\ channel \in Seq(Nat) /\ ToSet(channel) \subseteq 1 .. Newest /\ socket \in BOOLEAN
  /\ queued \in Nat /\ sent \in Nat
  /\ push \in [stage : {"idle", "sent", "landed"}, text : Nat, version : Nat]
  /\ push.stage = "landed" => push.version \in 1 .. Newest
  /\ read \in [stage : {"idle", "asked", "answered"}, version : Nat, fresh : BOOLEAN]
  /\ read.stage = "answered" => read.version \in 1 .. Newest
  /\ current \in BOOLEAN
  /\ refresh \in [stage : {"idle", "loading", "waiting", "asked", "answered"},
                  observed : Nat, version : Nat]
  /\ refresh.stage = "answered" => refresh.version \in 1 .. Newest

\* Every version newer than v has its event on its way.
AllAnnounced(v) == \A w \in v + 1 .. Newest : w \in ToSet(channel)

\* A read that saw version v, or a body of version v trusted from one, misses
\* nothing that will not be announced.
ReadMissesNothing == read.stage = "answered" /\ read.fresh /\ socket => AllAnnounced(read.version)

BodyMissesNothing == current /\ socket /\ ~late => AllAnnounced(body)

\* A push that landed after a trusted read began is announced too.
PushIsAnnounced ==
  push.stage = "landed" /\ socket /\ (current \/ (read.stage # "idle" /\ read.fresh)) =>
    AllAnnounced(push.version)

\* A push under way keeps the note dirty.
PushIsQueued == push.stage # "idle" => queued # 0

\* What a refresh expects to replace was not saved after what it read.
RefreshIsNewest ==
  refresh.stage = "answered" =>
    \A w \in refresh.version + 1 .. Newest : history[w] # refresh.observed

BodyInv ==
  /\ BodyTypes
  /\ ReadMissesNothing
  /\ BodyMissesNothing
  /\ PushIsAnnounced
  /\ PushIsQueued
  /\ RefreshIsNewest
-----------------------------------------------------------------------------
\* The elements of a sequence one longer.
LEMMA AppendSet ==
  ASSUME NEW S, NEW s \in Seq(S), NEW e \in S
  PROVE  ToSet(Append(s, e)) = ToSet(s) \cup {e}
<1>1. /\ Append(s, e) \in Seq(S)
      /\ Len(Append(s, e)) = Len(s) + 1
      /\ \A i \in 1 .. Len(s) : Append(s, e)[i] = s[i]
      /\ Append(s, e)[Len(s) + 1] = e
  BY AppendProperties
<1>2. DOMAIN s = 1 .. Len(s) /\ DOMAIN Append(s, e) = 1 .. Len(s) + 1 /\ Len(s) \in Nat
  BY <1>1, LenProperties
<1>3. ASSUME NEW x \in ToSet(Append(s, e)) PROVE x \in ToSet(s) \cup {e}
  <2>1. PICK i \in 1 .. Len(s) + 1 : Append(s, e)[i] = x
    BY <1>2, <1>3 DEF ToSet
  <2>2. i \in 1 .. Len(s) \/ i = Len(s) + 1
    BY <1>2
  <2> QED BY <2>1, <2>2, <1>1, <1>2 DEF ToSet
<1>4. ASSUME NEW x \in ToSet(s) \cup {e} PROVE x \in ToSet(Append(s, e))
  <2>1. CASE x \in ToSet(s)
    <3>1. PICK i \in 1 .. Len(s) : s[i] = x
      BY <2>1, <1>2 DEF ToSet
    <3>2. i \in 1 .. Len(s) + 1 /\ Append(s, e)[i] = x
      BY <3>1, <1>1, <1>2
    <3> QED BY <3>2, <1>2 DEF ToSet
  <2>2. CASE x = e
    <3>1. Len(s) + 1 \in 1 .. Len(s) + 1
      BY <1>2
    <3> QED BY <2>2, <3>1, <1>1, <1>2 DEF ToSet
  <2> QED BY <1>4, <2>1, <2>2
<1> QED BY <1>3, <1>4

\* A new version: what is newer than v is the new one and what was before.
LEMMA LandsAnnounced ==
  ASSUME BodyTypes, NEW text \in Nat, Lands(text), "sameText" \notin Faults
  PROVE  /\ history' \in Seq(Nat) /\ Newest' = Newest + 1 /\ channel' \in Seq(Nat)
         /\ ToSet(channel') \subseteq 1 .. Newest + 1
         /\ \A w \in 1 .. Newest : history'[w] = history[w]
         /\ history'[Newest + 1] = text
         /\ refresh.stage # "idle" => text # refresh.observed
         /\ socket => \A v \in 1 .. Newest : AllAnnounced(v) => AllAnnounced(v)'
         /\ socket => Newest + 1 \in ToSet(channel')
<1> USE DEF Newest
<1>1. history \in Seq(Nat) /\ channel \in Seq(Nat) /\ Newest \in Nat
  BY LenProperties DEF BodyTypes
<1>2. /\ history' = Append(history, text)
      /\ channel' = IF socket THEN Append(channel, Newest + 1) ELSE channel
      /\ refresh.stage # "idle" => text # refresh.observed
  BY DEF Lands
<1>3. /\ Append(history, text) \in Seq(Nat) /\ Len(Append(history, text)) = Newest + 1
      /\ \A w \in 1 .. Newest : Append(history, text)[w] = history[w]
      /\ Append(history, text)[Newest + 1] = text
  BY <1>1, AppendProperties
<1>4. Append(channel, Newest + 1) \in Seq(Nat)
  BY <1>1, AppendProperties
<1>5. ToSet(Append(channel, Newest + 1)) = ToSet(channel) \cup {Newest + 1}
  BY <1>1, AppendSet
<1>6. ASSUME socket, NEW v \in 1 .. Newest, AllAnnounced(v)
      PROVE  AllAnnounced(v)'
  <2>1. ASSUME NEW w \in v + 1 .. Newest + 1 PROVE w \in ToSet(channel')
    <3>1. w \in v + 1 .. Newest \/ w = Newest + 1
      BY <1>1, <2>1
    <3> QED BY <3>1, <1>2, <1>5, <1>6 DEF AllAnnounced
  <2>2. Newest' = Newest + 1
    BY <1>2, <1>3
  <2> QED BY <2>1, <2>2 DEF AllAnnounced
<1>7. ToSet(channel) \subseteq 1 .. Newest /\ 1 .. Newest \subseteq 1 .. Newest + 1
  BY <1>1 DEF BodyTypes
<1>8. ToSet(channel') \subseteq 1 .. Newest + 1
  BY <1>1, <1>2, <1>5, <1>7
<1> QED BY <1>1, <1>2, <1>3, <1>4, <1>5, <1>6, <1>8

\* With the server and the wire as they were, so is what was announced.
LEMMA SameAnnounced ==
  ASSUME UNCHANGED <<history, channel>>, NEW v
  PROVE  AllAnnounced(v)' <=> AllAnnounced(v)
BY DEF AllAnnounced, Newest

\* Less is above the greater number.
LEMMA FewerAbove ==
  ASSUME NEW a \in Nat, NEW b \in Nat, NEW n \in Nat, b >= a
  PROVE  (b + 1 .. n) \subseteq (a + 1 .. n)
OBVIOUS
-----------------------------------------------------------------------------
LEMMA BodyInit == Init => BodyInv
<1> SUFFICES ASSUME Init PROVE BodyInv
  OBVIOUS
<1> USE DEF Newest
<1>1. history = <<1>> /\ channel = <<>>
  BY DEF Init
<1>2. Len(history) = 1 /\ history \in Seq(Nat) /\ channel \in Seq(Nat) /\ ToSet(channel) = {}
  BY <1>1 DEF ToSet
<1>3. BodyTypes
  <2>1. body \in 1 .. Len(history)
    BY <1>2 DEF Init
  <2>2. push = NoPush /\ read = Idle /\ refresh = NoRefresh
    BY DEF Init
  <2>3. socket = TRUE /\ queued = 0 /\ sent = 0 /\ current = FALSE
    BY DEF Init
  <2> QED BY <1>2, <2>1, <2>2, <2>3 DEF BodyTypes, NoPush, Idle, NoRefresh
<1>4. ReadMissesNothing /\ BodyMissesNothing /\ PushIsAnnounced /\ PushIsQueued /\ RefreshIsNewest
  BY DEF Init, NoPush, Idle, NoRefresh, ReadMissesNothing, BodyMissesNothing, PushIsAnnounced,
         PushIsQueued, RefreshIsNewest
<1> QED BY <1>3, <1>4 DEF BodyInv

LEMMA BodyStep ==
  ASSUME TypeOK, BodyInv, [Next]_vars, "sameText" \notin Faults
  PROVE  BodyInv'
<1> USE NoteBodyAssumption DEF BodyInv, Newest
<1> USE DEF server, wire, echoes, outbox, screen, cached, refreshing
<1>n. history \in Seq(Nat) /\ Newest \in Nat /\ Newest >= 1
  BY LenProperties DEF BodyTypes
<1>1. CASE RemoteEdit
  <2>1. PICK text \in {TheirText} \cup ToSet(history) : Lands(text)
    BY <1>1 DEF RemoteEdit
  <2>2. text \in Nat
    <3>1. ToSet(history) \subseteq Nat
      BY <1>n, LenProperties, ElementOfSeq DEF ToSet
    <3> QED BY <2>1, <3>1, <1>n DEF TheirText
  <2>3. UNCHANGED <<mine, socket, gaps, echoes, outbox, screen, cached, refresh, verdict>>
    BY <1>1 DEF RemoteEdit
  <2>l. /\ history' \in Seq(Nat) /\ Newest' = Newest + 1 /\ channel' \in Seq(Nat)
        /\ ToSet(channel') \subseteq 1 .. Newest + 1
        /\ \A w \in 1 .. Newest : history'[w] = history[w]
        /\ history'[Newest + 1] = text
        /\ refresh.stage # "idle" => text # refresh.observed
        /\ socket => \A v \in 1 .. Newest : AllAnnounced(v) => AllAnnounced(v)'
        /\ socket => Newest + 1 \in ToSet(channel')
    BY <2>1, <2>2, LandsAnnounced
  <2>4. BodyTypes'
    <3>1. UNCHANGED <<socket, queued, sent, push, body, read, current, refresh>>
      BY <2>3
    <3>2. 1 .. Newest \subseteq 1 .. Newest + 1
      BY <1>n
    <3> QED BY <2>l, <3>1, <3>2 DEF BodyTypes
  <2>5. ReadMissesNothing' /\ BodyMissesNothing' /\ PushIsAnnounced'
    <3>1. UNCHANGED <<socket, body, current, late, read, push>>
      BY <2>3
    <3> QED BY <2>l, <3>1 DEF BodyTypes, ReadMissesNothing, BodyMissesNothing, PushIsAnnounced
  <2>6. PushIsQueued'
    BY <2>3 DEF PushIsQueued
  <2>7. RefreshIsNewest'
    <3>1. ASSUME refresh.stage = "answered", NEW w \in refresh.version + 1 .. Newest + 1
          PROVE  history'[w] # refresh.observed
      <4>1. refresh.version \in 1 .. Newest
        BY <3>1 DEF BodyTypes
      <4>2. CASE w = Newest + 1
        BY <4>2, <3>1, <2>l
      <4>3. CASE w # Newest + 1
        <5>1. w \in refresh.version + 1 .. Newest /\ w \in 1 .. Newest
          BY <4>1, <4>3, <1>n
        <5> QED BY <5>1, <3>1, <2>l DEF RefreshIsNewest
      <4> QED BY <4>2, <4>3
    <3> QED BY <2>l, <2>3, <3>1 DEF RefreshIsNewest
  <2> QED BY <2>4, <2>5, <2>6, <2>7
<1>2. CASE PushLands
  <2>1. Lands(push.text) /\ push.text \in Nat /\ push.stage = "sent"
    BY <1>2 DEF PushLands, BodyTypes
  <2>2. /\ push' = [push EXCEPT !.stage = "landed", !.version = Newest + 1]
        /\ UNCHANGED <<socket, queued, sent, open, cached, refresh>>
    BY <1>2 DEF PushLands
  <2>p. /\ push'.version = Newest + 1 /\ push'.stage = "landed"
        /\ push' \in [stage : {"idle", "sent", "landed"}, text : Nat, version : Nat]
    <3>1. push \in [stage : {"idle", "sent", "landed"}, text : Nat, version : Nat]
      BY DEF BodyTypes
    <3>2. Newest + 1 \in Nat
      BY <1>n
    <3> HIDE DEF Newest
    <3> QED BY <2>2, <3>1, <3>2
  <2>l. /\ history' \in Seq(Nat) /\ Newest' = Newest + 1 /\ channel' \in Seq(Nat)
        /\ ToSet(channel') \subseteq 1 .. Newest + 1
        /\ \A w \in 1 .. Newest : history'[w] = history[w]
        /\ history'[Newest + 1] = push.text
        /\ refresh.stage # "idle" => push.text # refresh.observed
        /\ socket => \A v \in 1 .. Newest : AllAnnounced(v) => AllAnnounced(v)'
        /\ socket => Newest + 1 \in ToSet(channel')
    BY <2>1, LandsAnnounced
  <2>4. BodyTypes'
    <3>1. UNCHANGED <<socket, queued, sent, body, read, current, refresh>>
      BY <2>2
    <3>2. 1 .. Newest \subseteq 1 .. Newest + 1 /\ Newest + 1 \in 1 .. Newest + 1
      BY <1>n
    <3> QED BY <2>l, <2>p, <3>1, <3>2 DEF BodyTypes
  <2>5. ReadMissesNothing' /\ BodyMissesNothing'
    <3>1. UNCHANGED <<socket, body, current, late, read>>
      BY <2>2
    <3> QED BY <2>l, <3>1 DEF BodyTypes, ReadMissesNothing, BodyMissesNothing
  <2>8. PushIsAnnounced'
    <3>1. Newest' = Newest + 1
      BY <2>l
    <3> QED BY <3>1, <2>p, <1>n DEF PushIsAnnounced, AllAnnounced
  <2>6. PushIsQueued'
    BY <2>1, <2>2 DEF PushIsQueued
  <2>7. RefreshIsNewest'
    <3>1. ASSUME refresh.stage = "answered", NEW w \in refresh.version + 1 .. Newest + 1
          PROVE  history'[w] # refresh.observed
      <4>1. refresh.version \in 1 .. Newest
        BY <3>1 DEF BodyTypes
      <4>2. CASE w = Newest + 1
        BY <4>2, <3>1, <2>l
      <4>3. CASE w # Newest + 1
        <5>1. w \in refresh.version + 1 .. Newest /\ w \in 1 .. Newest
          BY <4>1, <4>3, <1>n
        <5> QED BY <5>1, <3>1, <2>l DEF RefreshIsNewest
      <4> QED BY <4>2, <4>3
    <3> QED BY <2>l, <2>2, <3>1 DEF RefreshIsNewest
  <2> QED BY <2>4, <2>5, <2>6, <2>7, <2>8
<1>3. CASE Disconnect
  <2>1. UNCHANGED <<server, pushes, evicted, outbox, screen, cached, refresh, verdict>>
        /\ socket' = FALSE /\ channel' = <<>>
    BY <1>3 DEF Disconnect
  <2>2. channel' \in Seq(Nat) /\ ToSet(channel') = {}
    BY <2>1 DEF ToSet
  <2> QED BY <2>1, <2>2 DEF BodyTypes, ReadMissesNothing, BodyMissesNothing, PushIsAnnounced,
                    PushIsQueued, RefreshIsNewest
<1>4. CASE Connect
  <2>1. UNCHANGED <<server, channel, outbox, screen, body, refresh>> /\ socket' = TRUE
        /\ current' = FALSE /\ read' = [read EXCEPT !.fresh = FALSE]
    BY <1>4 DEF Connect
  <2>2. read'.fresh = FALSE /\ read'.stage = read.stage /\ read'.version = read.version
        /\ read' \in [stage : {"idle", "asked", "answered"}, version : Nat, fresh : BOOLEAN]
    BY <2>1 DEF BodyTypes
  <2> QED BY <2>1, <2>2 DEF BodyTypes, ReadMissesNothing, BodyMissesNothing, PushIsAnnounced,
                    PushIsQueued, RefreshIsNewest
<1>5. CASE Deliver
  <2>1. UNCHANGED <<server, socket, outbox>> /\ channel # <<>> /\ channel' = Tail(channel)
    BY <1>5 DEF Deliver
  <2>2. /\ current' = FALSE /\ read' = [read EXCEPT !.fresh = FALSE]
        /\ \E readable \in BOOLEAN, left \in {AfterMatch(history[Head(channel)]), pushes} :
             \/ Answers(Head(channel)) /\ UNCHANGED refresh
             \/ Refreshes(Head(channel), readable, left)
    BY <1>5 DEF Deliver, Seen
  <2>3. Head(channel) \in ToSet(channel) /\ channel' \in Seq(Nat)
        /\ ToSet(channel') \subseteq ToSet(channel)
    <3>1. /\ Len(channel) >= 1 /\ Head(channel) = channel[1] /\ Tail(channel) \in Seq(Nat)
          /\ Len(Tail(channel)) = Len(channel) - 1
          /\ \A i \in 1 .. Len(Tail(channel)) : Tail(channel)[i] = channel[i + 1]
      BY <2>1, HeadTailProperties, EmptySeq, LenProperties DEF BodyTypes
    <3>2. /\ DOMAIN channel = 1 .. Len(channel) /\ Len(channel) \in Nat
          /\ DOMAIN Tail(channel) = 1 .. Len(channel) - 1
      BY <3>1, LenProperties DEF BodyTypes
    <3>3. Head(channel) \in ToSet(channel)
      BY <3>1, <3>2 DEF ToSet
    <3>4. ASSUME NEW x \in ToSet(Tail(channel)) PROVE x \in ToSet(channel)
      <4>1. PICK i \in 1 .. Len(channel) - 1 : x = Tail(channel)[i]
        BY <3>2, <3>4 DEF ToSet
      <4>2. i + 1 \in 1 .. Len(channel) /\ x = channel[i + 1]
        BY <4>1, <3>1, <3>2
      <4> QED BY <4>2, <3>2 DEF ToSet
    <3> QED BY <2>1, <3>1, <3>3, <3>4
  <2>4. Head(channel) \in 1 .. Newest
    BY <2>3 DEF BodyTypes
  <2>5. body' \in 1 .. Newest
    BY <2>2, <2>4 DEF Answers, Refreshes, Commit, BodyTypes
  <2>6. \/ refresh' = refresh
        \/ \E at \in {"loading", "waiting"} : refresh' = [NoRefresh EXCEPT !.stage = at]
    BY <2>2 DEF Answers, Refreshes
  <2>7. read'.fresh = FALSE /\ read'.stage = read.stage /\ read'.version = read.version
        /\ read' \in [stage : {"idle", "asked", "answered"}, version : Nat, fresh : BOOLEAN]
    BY <2>2 DEF BodyTypes
  <2>8. BodyTypes'
    <3>1. refresh' \in [stage : {"idle", "loading", "waiting", "asked", "answered"},
                         observed : Nat, version : Nat]
          /\ (refresh'.stage = "answered" => refresh'.version \in 1 .. Newest)
      <4>1. CASE refresh' = refresh
        BY <4>1 DEF BodyTypes
      <4>2. CASE \E at \in {"loading", "waiting"} : refresh' = [NoRefresh EXCEPT !.stage = at]
        <5>1. PICK at \in {"loading", "waiting"} :
                refresh' = [stage |-> at, observed |-> 0, version |-> 0]
          BY <4>2 DEF NoRefresh
        <5> QED BY <5>1
      <4> QED BY <4>1, <4>2, <2>6
    <3> QED BY <2>1, <2>2, <2>3, <2>5, <2>7, <3>1 DEF BodyTypes
  <2>9. ReadMissesNothing' /\ BodyMissesNothing' /\ PushIsAnnounced'
    BY <2>2, <2>7 DEF ReadMissesNothing, BodyMissesNothing, PushIsAnnounced
  <2>10. PushIsQueued' /\ RefreshIsNewest'
    BY <2>1, <2>6 DEF PushIsQueued, RefreshIsNewest, NoRefresh
  <2> QED BY <2>8, <2>9, <2>10
<1>6. CASE Type \/ KeepMine
  <2>1. /\ UNCHANGED <<server, wire, push, sent, cached, refresh>>
        /\ queued' = MyText \/ queued' = queued
    BY <1>6 DEF Type, KeepMine
  <2>2. queued' \in Nat /\ (queued # 0 => queued' # 0)
    BY <2>1 DEF MyText, BodyTypes
  <2> QED BY <2>1, <2>2, SameAnnounced DEF BodyTypes, ReadMissesNothing, BodyMissesNothing,
                    PushIsAnnounced, PushIsQueued, RefreshIsNewest
<1>7. CASE PassPushes
  <2>1. /\ UNCHANGED <<server, wire, queued, cached, refresh>> /\ queued # 0
        /\ push' = [stage |-> "sent", text |-> queued, version |-> 0] /\ sent' = sent + 1
    BY <1>7 DEF PassPushes
  <2> QED BY <2>1, SameAnnounced DEF BodyTypes, ReadMissesNothing, BodyMissesNothing,
                    PushIsAnnounced, PushIsQueued, RefreshIsNewest
<1>8. CASE PushReturns
  <2>1. /\ UNCHANGED <<server, wire, sent, read, current, refresh>> /\ push.stage = "landed"
        /\ body' = push.version /\ push' = NoPush
        /\ queued' = IF queued = push.text THEN 0 ELSE queued
    BY <1>8 DEF PushReturns
  <2> QED BY <2>1, SameAnnounced DEF BodyTypes, ReadMissesNothing, BodyMissesNothing,
                    PushIsAnnounced, PushIsQueued, RefreshIsNewest, NoPush
<1>9. CASE PushFails
  <2>1. UNCHANGED <<server, wire, queued, sent, cached, refresh>> /\ push' = NoPush
    BY <1>9 DEF PushFails
  <2> QED BY <2>1, SameAnnounced DEF BodyTypes, ReadMissesNothing, BodyMissesNothing,
                    PushIsAnnounced, PushIsQueued, RefreshIsNewest, NoPush
<1>10. CASE Open \/ Refetch \/ LoadTheirs
  <2>1. /\ UNCHANGED <<server, wire, push, sent, body, current, late, refresh>>
        /\ \/ UNCHANGED <<queued, read>>
           \/ ReadBegins /\ push.stage = "idle" /\ queued' = 0
    BY <1>10 DEF Open, Refetch, LoadTheirs, PushIsQueued, BodyTypes
  <2>2. CASE UNCHANGED <<queued, read>>
    BY <2>1, <2>2, SameAnnounced DEF BodyTypes, ReadMissesNothing, BodyMissesNothing,
                    PushIsAnnounced, PushIsQueued, RefreshIsNewest
  <2>3. CASE ReadBegins /\ push.stage = "idle" /\ queued' = 0
    <3>1. read' = [stage |-> "asked", version |-> 0, fresh |-> TRUE]
      BY <2>3 DEF ReadBegins
    <3>2. read'.stage = "asked"
          /\ read' \in [stage : {"idle", "asked", "answered"}, version : Nat, fresh : BOOLEAN]
      BY <3>1
    <3>3. BodyTypes'
      BY <2>1, <2>3, <3>2 DEF BodyTypes
    <3>4. ReadMissesNothing' /\ PushIsAnnounced' /\ PushIsQueued'
      BY <2>1, <2>3, <3>2 DEF ReadMissesNothing, PushIsAnnounced, PushIsQueued
    <3>5. BodyMissesNothing' /\ RefreshIsNewest'
      BY <2>1, SameAnnounced DEF BodyMissesNothing, RefreshIsNewest
    <3> QED BY <3>3, <3>4, <3>5
  <2> QED BY <2>1, <2>2, <2>3
<1>11. CASE Close \/ ReadFails
  <2>1. UNCHANGED <<server, wire, outbox, body, current, late, refresh>> /\ read' = Idle
    BY <1>11 DEF Close, ReadFails
  <2> QED BY <2>1, SameAnnounced DEF BodyTypes, ReadMissesNothing, BodyMissesNothing,
                    PushIsAnnounced, PushIsQueued, RefreshIsNewest, Idle
<1>12. CASE ReadReads
  <2>1. /\ UNCHANGED <<server, wire, outbox, body, current, late, refresh>> /\ read.stage = "asked"
        /\ read' = [read EXCEPT !.stage = "answered", !.version = Newest]
    BY <1>12 DEF ReadReads
  <2>2. /\ read'.stage = "answered" /\ read'.version = Newest /\ read'.fresh = read.fresh
        /\ read' \in [stage : {"idle", "asked", "answered"}, version : Nat, fresh : BOOLEAN]
    BY <2>1, <1>n DEF BodyTypes
  <2>3. AllAnnounced(Newest)
    BY <1>n DEF AllAnnounced
  <2> QED BY <2>1, <2>2, <2>3, <1>n, SameAnnounced DEF BodyTypes, ReadMissesNothing,
                    BodyMissesNothing, PushIsAnnounced, PushIsQueued, RefreshIsNewest
<1>13. CASE ReadReturns
  <2>1. /\ UNCHANGED <<server, wire, outbox, refresh>> /\ read.stage = "answered"
        /\ body' = read.version /\ current' = read.fresh /\ read' = Idle
    BY <1>13 DEF ReadReturns
  <2> QED BY <2>1, SameAnnounced DEF BodyTypes, ReadMissesNothing, BodyMissesNothing,
                    PushIsAnnounced, PushIsQueued, RefreshIsNewest, Idle
<1>14. CASE RefreshAsks \/ RefreshFails
  <2>1. /\ UNCHANGED <<server, wire, outbox, cached>>
        /\ \/ refresh' = [refresh EXCEPT !.stage = "asked", !.observed = history[body]]
           \/ refresh' = NoRefresh
    BY <1>14 DEF RefreshAsks, RefreshFails
  <2>2. history[body] \in Nat
    BY <1>n, ElementOfSeq DEF BodyTypes
  <2>3. refresh'.stage # "answered"
        /\ refresh' \in [stage : {"idle", "loading", "waiting", "asked", "answered"},
                          observed : Nat, version : Nat]
    <3>1. refresh \in [stage : {"idle", "loading", "waiting", "asked", "answered"},
                        observed : Nat, version : Nat]
      BY DEF BodyTypes
    <3>2. CASE refresh' = NoRefresh
      BY <3>2 DEF NoRefresh
    <3>3. CASE refresh' = [refresh EXCEPT !.stage = "asked", !.observed = history[body]]
      BY <3>1, <3>3, <2>2
    <3> QED BY <2>1, <3>2, <3>3
  <2> QED BY <2>1, <2>3, SameAnnounced DEF BodyTypes, ReadMissesNothing, BodyMissesNothing,
                    PushIsAnnounced, PushIsQueued, RefreshIsNewest
<1>15. CASE RefreshReads
  <2>1. /\ UNCHANGED <<server, wire, outbox, cached>>
        /\ refresh' = [refresh EXCEPT !.stage = "answered", !.version = Newest]
    BY <1>15 DEF RefreshReads
  <2>2. refresh'.version = Newest
        /\ refresh' \in [stage : {"idle", "loading", "waiting", "asked", "answered"},
                          observed : Nat, version : Nat]
    <3>1. refresh \in [stage : {"idle", "loading", "waiting", "asked", "answered"},
                        observed : Nat, version : Nat]
      BY DEF BodyTypes
    <3> HIDE DEF Newest
    <3> QED BY <2>1, <3>1, <1>n
  <2>3. BodyTypes'
    BY <2>1, <2>2, <1>n DEF BodyTypes
  <2>4. RefreshIsNewest'
    BY <2>1, <2>2, <1>n DEF RefreshIsNewest
  <2>5. ReadMissesNothing' /\ BodyMissesNothing' /\ PushIsAnnounced' /\ PushIsQueued'
    BY <2>1, SameAnnounced DEF ReadMissesNothing, BodyMissesNothing, PushIsAnnounced,
                    PushIsQueued
  <2> QED BY <2>3, <2>4, <2>5
<1>16. CASE RefreshReturns
  <2>1. /\ UNCHANGED <<server, wire, outbox, read, current, late>> /\ refresh.stage = "answered"
        /\ Commit(refresh.observed, refresh.version) /\ refresh' = NoRefresh
    BY <1>16 DEF RefreshReturns
  <2>2. body' = body \/ (body' = refresh.version /\ history[body] = refresh.observed)
    BY <2>1 DEF Commit, MayCommit
  <2>3. BodyTypes' /\ ReadMissesNothing' /\ PushIsAnnounced' /\ PushIsQueued' /\ RefreshIsNewest'
    BY <2>1, <2>2, SameAnnounced DEF BodyTypes, ReadMissesNothing, PushIsAnnounced, PushIsQueued,
                    RefreshIsNewest, NoRefresh
  <2>4. BodyMissesNothing'
    <3>1. body' >= body
      BY <2>1, <2>2, <1>n DEF RefreshIsNewest, BodyTypes
    <3>2. body \in Nat /\ body' \in Nat
      BY <2>3 DEF BodyTypes
    <3>3. UNCHANGED <<history, channel, socket, current, late>> /\ Newest' = Newest
      BY <2>1
    <3>4. (body' + 1 .. Newest) \subseteq (body + 1 .. Newest)
      BY <3>1, <3>2, <1>n, FewerAbove
    <3> QED BY <3>3, <3>4 DEF BodyMissesNothing, AllAnnounced
  <2> QED BY <2>3, <2>4
<1>17. CASE LoadEnds
  BY <1>17, SameAnnounced DEF LoadEnds, BodyTypes, ReadMissesNothing, BodyMissesNothing,
                    PushIsAnnounced, PushIsQueued, RefreshIsNewest
<1>18. CASE LoadReturns
  <2>1. /\ UNCHANGED <<server, wire, outbox, read, current>>
        /\ waits # <<>> /\ late' = (late \/ body' < body)
        /\ \/ Head(waits).version = 0 /\ body' = body
              /\ refresh' = [refresh EXCEPT !.stage = "waiting"]
           \/ Head(waits).version # 0 /\ body' \in {body, Head(waits).version}
              /\ refresh' = refresh
    BY <1>18 DEF LoadReturns, Commit
  <2>2. Head(waits).version \in 0 .. Newest
    <3>1. waits \in Seq([version : 0 .. Newest, known : SUBSET (1 .. Newest)])
      BY DEF TypeOK
    <3> HIDE DEF Newest
    <3>2. Head(waits) \in [version : 0 .. Newest, known : SUBSET (1 .. Newest)]
      BY <2>1, <3>1, HeadTailProperties
    <3> QED BY <3>2
  <2>3. body \in 1 .. Newest /\ body' \in 1 .. Newest /\ Newest' = Newest
    <3>1. Newest' = Newest
      BY <2>1
    <3>2. body \in 1 .. Newest /\ Newest \in Nat
      BY <1>n DEF BodyTypes
    <3> HIDE DEF Newest
    <3> QED BY <2>1, <2>2, <3>1, <3>2
  <2>4. /\ refresh' \in [stage : {"idle", "loading", "waiting", "asked", "answered"},
                         observed : Nat, version : Nat]
        /\ refresh'.stage = "answered" =>
              refresh.stage = "answered" /\ refresh' = refresh
    <3>1. refresh \in [stage : {"idle", "loading", "waiting", "asked", "answered"},
                       observed : Nat, version : Nat]
      BY DEF BodyTypes
    <3> QED BY <2>1, <3>1
  <2>5. BodyTypes' /\ ReadMissesNothing' /\ PushIsAnnounced' /\ PushIsQueued' /\ RefreshIsNewest'
    BY <2>1, <2>3, <2>4, SameAnnounced DEF BodyTypes, ReadMissesNothing, PushIsAnnounced,
                    PushIsQueued, RefreshIsNewest
  <2>6. BodyMissesNothing'
    <3>1. ~late' => ~late /\ body' >= body
      <4>1. body' < body \/ body' >= body
        BY <2>3, <1>n
      <4> QED BY <2>1, <4>1, Zenon
    <3>2. body' >= body => (body' + 1 .. Newest) \subseteq (body + 1 .. Newest)
      BY <2>3, <1>n, FewerAbove
    <3> QED BY <2>1, <2>3, <3>1, <3>2 DEF BodyMissesNothing, AllAnnounced
  <2> QED BY <2>5, <2>6
<1>19. CASE LoadReturnsOffline
  <2>1. UNCHANGED <<server, wire, outbox, cached>> /\ refresh' \in {refresh, NoRefresh}
    BY <1>19 DEF LoadReturnsOffline
  <2> QED BY <2>1, SameAnnounced DEF BodyTypes, ReadMissesNothing, BodyMissesNothing,
                    PushIsAnnounced, PushIsQueued, RefreshIsNewest, NoRefresh
<1>20. CASE UNCHANGED vars
  BY <1>20, SameAnnounced DEF vars, BodyTypes, ReadMissesNothing, BodyMissesNothing,
                    PushIsAnnounced, PushIsQueued, RefreshIsNewest
<1> QED
  BY <1>1, <1>2, <1>3, <1>4, <1>5, <1>6, <1>7, <1>8, <1>9, <1>10, <1>11, <1>12, <1>13, <1>14,
     <1>15, <1>16, <1>17, <1>18, <1>19, <1>20 DEF Next

\* The invariant says it: with no event on its way nothing is newer than a
\* body that counts as current.
LEMMA BodyIsNewest == BodyInv => ReopenIsCurrent
<1> SUFFICES ASSUME BodyInv, IsCurrent, ~late, channel = <<>>
             PROVE  history[body] = history[Newest]
  BY DEF ReopenIsCurrent
<1>1. ToSet(channel) = {}
  BY DEF ToSet
<1>2. \A w \in body + 1 .. Newest : FALSE
  BY <1>1 DEF BodyInv, BodyMissesNothing, AllAnnounced, IsCurrent
<1>3. body \in 1 .. Newest /\ Newest \in Nat
  BY LenProperties DEF BodyInv, BodyTypes, Newest
<1>4. body = Newest
  BY <1>2, <1>3
<1> QED BY <1>4
-----------------------------------------------------------------------------
(***************************************************************************)
(* What PushEchoes remembers, for any faults and bounds.  The texts this   *)
(* device pushes grow, an older one at most sent once more, and the events *)
(* of its own versions come in their order; so the pushes remembered are   *)
(* exactly those that are yet to be heard, up to what the limit dropped,   *)
(* what another device saved too and what will never be heard.             *)
(***************************************************************************)

Coming == ToSet(channel)
Remembered == ToSet(pushes)

\* The texts of this device's pushes that the server has or may yet get.
Made == {history[v] : v \in mine} \cup (IF push.stage = "sent" THEN {push.text} ELSE {})

\* The events on their way are those of the newest versions, in their order.
Contiguous ==
  /\ channel # <<>> => socket
  /\ \A i \in 1 .. Len(channel) : channel[i] = Newest - Len(channel) + i

\* Pushes are numbered as they are made, by versions, in memory and in the queue.
Numbered ==
  /\ \A t \in Made \cup Remembered : t > MaxVersions /\ t <= MaxVersions + sent
  /\ push.stage # "idle" => push.text > MaxVersions /\ push.text <= MaxVersions + sent
  /\ push.stage = "sent" => \A t \in Made \cup Remembered : t <= push.text
  /\ queued # 0 => /\ queued > MaxVersions /\ queued <= MaxVersions + sent + 1
                   /\ \A t \in Made \cup Remembered : t <= queued
  /\ \A i, j \in 1 .. Len(pushes) : i <= j => pushes[i] <= pushes[j]
  /\ \A u, v \in mine : u <= v => history[u] <= history[v]

\* A version with a text of this device's is its own, or comes after its own.
Origins ==
  \A w \in 1 .. Newest : history[w] > MaxVersions =>
    \E u \in mine : u <= w /\ history[u] = history[w]

\* A push that landed made the newest of this device's versions, and a read or a
\* refresh that was answered brings a version.
Answered ==
  /\ push.stage = "landed" => push.version \in mine /\ \A v \in mine : v <= push.version
  /\ push.stage # "landed" => push.version = 0
  /\ read.stage = "answered" => read.version \in 1 .. Newest
  /\ refresh.stage = "answered" => refresh.version \in 1 .. Newest

\* A push that is forgotten is forgotten with all the older ones.
Floor == \A t \in Made : t \in Remembered \/ \A p \in Remembered : p > t

\* The echoes of a text to come, what remembers them, the push that will make one.
Awaited(t) == {v \in Coming \cap mine : history[v] = t}
Places(s, t) == {i \in 1 .. Len(s) : s[i] = t}
Copies(t) == Places(pushes, t)
InFlight(t) == IF push.stage = "sent" /\ push.text = t THEN 1 ELSE 0

Shared(t) == \E v \in 1 .. Newest \ mine : history[v] = t

\* Nothing to be heard is forgotten, and nothing remembered that will not be.
NotForgotten ==
  \A t \in Nat : t \notin evicted /\ ~Shared(t) =>
    Cardinality(Awaited(t)) + InFlight(t) <= Cardinality(Copies(t))
NotKept ==
  \A t \in Nat : t \notin unheard =>
    Cardinality(Copies(t)) <= Cardinality(Awaited(t)) + InFlight(t)

\* Of a text that is one version's only, it or a newer push is remembered.
Survives ==
  /\ \A v \in mine \cap Coming :
       (\A w \in 1 .. Newest \ {v} : history[w] # history[v]) =>
         \E p \in Remembered : p >= history[v]
  /\ push.stage = "sent" /\ (\A w \in 1 .. Newest : history[w] # push.text) =>
       \E p \in Remembered : p >= push.text

\* What EchoesAreOurs says beyond the types.
Told ==
  verdict.event # 0 /\ verdict.readable =>
    /\ verdict.own /\ verdict.event \notin mine => Owed(history[verdict.event])
    /\ verdict.event \in mine /\ ~verdict.own =>
         history[verdict.event] \in evicted \/ Shared(history[verdict.event])

EchoParts ==
  /\ Contiguous /\ Numbered /\ Origins /\ Floor /\ NotForgotten /\ NotKept /\ Survives /\ Told

EchoInv == TypeOK /\ Answered /\ EchoParts
-----------------------------------------------------------------------------
\* The least of a set of numbers.
LEMMA LeastIs ==
  ASSUME NEW T, T \subseteq Nat, T # {}
  PROVE  Min(T) \in T /\ \A y \in T : Min(T) <= y
<1>1. PICK x \in T : \A y \in T : ~(<<y, x>> \in OpToRel(<, Nat))
  BY WFMin, NatLessThanWellFounded
<1>2. ASSUME NEW y \in T PROVE x <= y
  <2>1. x \in Nat /\ y \in Nat
    BY <1>1
  <2>2. <<y, x>> \in OpToRel(<, Nat) <=> y < x
    BY <2>1 DEF OpToRel
  <2>3. ~(<<y, x>> \in OpToRel(<, Nat))
    BY <1>1
  <2>4. ~(y < x)
    BY <2>2, <2>3
  <2> QED BY <2>1, <2>4
<1> QED BY <1>2 DEF Min

\* What is left of a sequence after its first h elements.
LEMMA RestOf ==
  ASSUME NEW S, NEW s \in Seq(S), NEW h \in 0 .. Len(s)
  PROVE  /\ SubSeq(s, h + 1, Len(s)) \in Seq(S)
         /\ Len(SubSeq(s, h + 1, Len(s))) = Len(s) - h
         /\ \A i \in 1 .. (Len(s) - h) : SubSeq(s, h + 1, Len(s))[i] = s[h + i]
<1>1. Len(s) \in Nat /\ h \in Nat /\ h <= Len(s)
  BY LenProperties
<1>2. CASE h = Len(s)
  <2>1. SubSeq(s, h + 1, Len(s)) = << >>
    BY <1>1, <1>2, SubSeqEmpty
  <2> QED BY <2>1, <1>1, <1>2, EmptySeq
<1>3. CASE h < Len(s)
  BY <1>1, <1>3, SubSeqProperties
<1> QED BY <1>1, <1>2, <1>3

\* What isOwn() leaves of the pushes when one of them has the text.
LEMMA AfterMatchIs ==
  ASSUME NEW S, NEW text, pushes \in Seq(S), IsOwn(text)
  PROVE  \E m \in 1 .. Len(pushes) :
           /\ pushes[m] = text /\ \A i \in 1 .. (m - 1) : pushes[i] # text
           /\ AfterMatch(text) \in Seq(S) /\ Len(AfterMatch(text)) = Len(pushes) - m
           /\ \A i \in 1 .. (Len(pushes) - m) : AfterMatch(text)[i] = pushes[m + i]
<1> DEFINE I == {i \in 1 .. Len(pushes) : pushes[i] = text}
           m == Min(I)
<1>1. Len(pushes) \in Nat /\ DOMAIN pushes = 1 .. Len(pushes)
  BY LenProperties
<1>2. I # {} /\ I \subseteq Nat
  BY <1>1 DEF IsOwn, ToSet
<1>3. m \in I /\ \A y \in I : m <= y
  <2> HIDE DEF I
  <2> QED BY <1>2, LeastIs
<1>4. AfterMatch(text) = SubSeq(pushes, m + 1, Len(pushes))
  <2>1. SelectInSeq(pushes, LAMBDA hash : hash = text) = m
    BY <1>2 DEF SelectInSeq
  <2> QED BY <2>1 DEF AfterMatch
<1> HIDE DEF m
<1>5. m \in 1 .. Len(pushes) /\ pushes[m] = text /\ \A i \in 1 .. (m - 1) : pushes[i] # text
  <2>1. m \in 1 .. Len(pushes) /\ pushes[m] = text
    BY <1>3
  <2>2. ASSUME NEW i \in 1 .. (m - 1), pushes[i] = text PROVE FALSE
    BY <2>1, <2>2, <1>1, <1>3
  <2> QED BY <2>1, <2>2
<1>6. /\ SubSeq(pushes, m + 1, Len(pushes)) \in Seq(S)
      /\ Len(SubSeq(pushes, m + 1, Len(pushes))) = Len(pushes) - m
      /\ \A i \in 1 .. (Len(pushes) - m) : SubSeq(pushes, m + 1, Len(pushes))[i] = pushes[m + i]
  <2>1. m \in 0 .. Len(pushes)
    BY <1>1, <1>5
  <2> HIDE DEF I
  <2> QED BY <2>1, RestOf
<1> QED BY <1>4, <1>5, <1>6
-----------------------------------------------------------------------------
\* The places of a text are finitely many.
LEMMA PlacesAreFinite ==
  ASSUME NEW s \in Seq(Nat), NEW t
  PROVE  /\ IsFiniteSet(Places(s, t)) /\ Cardinality(Places(s, t)) \in Nat
         /\ Cardinality(Places(s, t)) = 0 <=> \A i \in 1 .. Len(s) : s[i] # t
<1>1. Len(s) \in Nat
  BY LenProperties
<1>2. IsFiniteSet(1 .. Len(s))
  BY <1>1, FS_Interval
<1>3. IsFiniteSet(Places(s, t))
  BY <1>2, FS_Subset DEF Places
<1>4. Cardinality(Places(s, t)) \in Nat
  BY <1>3, FS_CardinalityType
<1>5. Cardinality(Places(s, t)) = 0 <=> Places(s, t) = {}
  BY <1>3, FS_EmptySet
<1> QED BY <1>3, <1>4, <1>5 DEF Places

\* One element more.
LEMMA PlacesOfAppend ==
  ASSUME NEW s \in Seq(Nat), NEW e \in Nat, NEW t
  PROVE  Cardinality(Places(Append(s, e), t)) =
           Cardinality(Places(s, t)) + IF e = t THEN 1 ELSE 0
<1>1. /\ Len(Append(s, e)) = Len(s) + 1 /\ Append(s, e)[Len(s) + 1] = e
      /\ \A i \in 1 .. Len(s) : Append(s, e)[i] = s[i]
  BY AppendProperties
<1>2. Len(s) \in Nat
  BY LenProperties
<1>3. IsFiniteSet(Places(s, t)) /\ Cardinality(Places(s, t)) \in Nat
  BY PlacesAreFinite
<1>4. CASE e = t
  <2>1. Places(Append(s, e), t) = Places(s, t) \cup {Len(s) + 1}
    BY <1>1, <1>2, <1>4 DEF Places
  <2>2. Len(s) + 1 \notin Places(s, t)
    BY <1>2 DEF Places
  <2> QED BY <2>1, <2>2, <1>3, <1>4, FS_AddElement
<1>5. CASE e # t
  <2>1. Places(Append(s, e), t) = Places(s, t)
    BY <1>1, <1>2, <1>5 DEF Places
  <2> QED BY <2>1, <1>3, <1>5
<1> QED BY <1>4, <1>5

\* r is what is left of s after its first h elements.
IsRest(s, r, h) ==
  /\ h \in 0 .. Len(s) /\ Len(r) = Len(s) - h
  /\ \A i \in 1 .. Len(r) : r[i] = s[h + i]

\* It has the places of a text that are beyond those.
Beyond(s, t, h) == {j \in Places(s, t) : j > h}

LEMMA PlacesOfRest ==
  ASSUME NEW s \in Seq(Nat), NEW r \in Seq(Nat), NEW h, NEW t, IsRest(s, r, h)
  PROVE  Cardinality(Places(r, t)) = Cardinality(Beyond(s, t, h))
<1> USE DEF IsRest
<1> DEFINE A == Beyond(s, t, h)
           f == [j \in A |-> j - h]
<1>1. Len(s) \in Nat /\ h \in Nat /\ h <= Len(s) /\ Len(r) \in Nat
  BY LenProperties
<1>2. IsFiniteSet(A)
  <2>1. A \subseteq Places(s, t)
    BY DEF Beyond
  <2> HIDE DEF A
  <2> QED BY <2>1, PlacesAreFinite, FS_Subset
<1>3. \A j \in A : j \in h + 1 .. Len(s) /\ s[j] = t
  BY <1>1 DEF Places, Beyond
<1>4. ASSUME NEW j \in A PROVE f[j] \in Places(r, t)
  <2>1. j - h \in 1 .. Len(r) /\ h + (j - h) = j
    BY <1>1, <1>3
  <2> QED BY <2>1, <1>3 DEF Places
<1>5. ASSUME NEW i \in Places(r, t) PROVE \E j \in A : f[j] = i
  <2>1. i \in 1 .. Len(r) /\ r[i] = t
    BY DEF Places
  <2>2. h + i \in 1 .. Len(s) /\ s[h + i] = t /\ h + i > h /\ (h + i) - h = i
    <3>1. h + i \in 1 .. Len(s) /\ h + i > h /\ (h + i) - h = i
      BY <2>1, <1>1
    <3>2. s[h + i] = t
      BY <2>1, <1>1
    <3> QED BY <3>1, <3>2
  <2>3. h + i \in A
    BY <2>2 DEF Places, Beyond
  <2> QED BY <2>2, <2>3
<1> HIDE DEF A
<1>6. ASSUME NEW j \in A, NEW k \in A, f[j] = f[k] PROVE j = k
  BY <1>1, <1>3, <1>6
<1>7. ExistsBijection(A, Places(r, t))
  <2>1. f \in [A -> Places(r, t)]
    BY <1>4
  <2> HIDE DEF f
  <2> QED
    BY <2>1, <1>5, <1>6 DEF ExistsBijection, Bijection, Injection, Surjection, IsInjective
<1>8. Cardinality(Places(r, t)) = Cardinality(A)
  BY <1>2, <1>7, FS_Bijection
<1> QED BY <1>8 DEF A
-----------------------------------------------------------------------------
\* What the types say, in the form the steps below need.
LEMMA EchoTypes ==
  ASSUME TypeOK
  PROVE  /\ Newest \in Nat /\ Newest >= 1 /\ history \in Seq(Nat)
         /\ \A v \in 1 .. Newest : history[v] \in Texts \ {0} /\ history[v] \in Nat
         /\ ToSet(history) \subseteq Texts \ {0}
         /\ channel \in Seq(Nat) /\ Len(channel) \in Nat /\ Coming \subseteq 1 .. Newest
         /\ \A v \in Coming : \E i \in 1 .. Len(channel) : channel[i] = v
         /\ \A i \in 1 .. Len(channel) : channel[i] \in Coming
         /\ pushes \in Seq(Nat) /\ Len(pushes) \in Nat
         /\ \A i \in 1 .. Len(pushes) : pushes[i] \in Remembered
         /\ \A t \in Remembered : t \in Nat /\ \E i \in 1 .. Len(pushes) : pushes[i] = t
         /\ push.text \in Nat /\ queued \in Nat /\ sent \in Nat /\ mine \subseteq 1 .. Newest
         /\ Texts \subseteq Nat
<1> USE NoteBodyAssumption
<1>1. Texts \subseteq Nat
  BY DEF Texts
<1>2. history \in Seq(Texts \ {0}) /\ channel \in Seq(1 .. Newest) /\ pushes \in Seq(Texts \ {0})
  BY DEF TypeOK
<1>3. Newest \in Nat /\ Newest >= 1 /\ DOMAIN history = 1 .. Newest
  BY <1>2, LenProperties DEF TypeOK, Newest
<1>4. \A v \in 1 .. Newest : history[v] \in Texts \ {0}
  BY <1>2, ElementOfSeq DEF Newest
<1>5. ToSet(history) \subseteq Texts \ {0}
  BY <1>3, <1>4 DEF ToSet
<1>6. history \in Seq(Nat) /\ pushes \in Seq(Nat)
  BY <1>1, <1>2, SeqMonotonic
<1>7. 1 .. Newest \subseteq Nat
  BY <1>3
<1>8. channel \in Seq(Nat)
  BY <1>2, <1>7, SeqMonotonic
<1>9. Len(channel) \in Nat /\ DOMAIN channel = 1 .. Len(channel)
      /\ Len(pushes) \in Nat /\ DOMAIN pushes = 1 .. Len(pushes)
  BY <1>6, <1>8, LenProperties
<1>10. \A i \in 1 .. Len(channel) : channel[i] \in 1 .. Newest
  BY <1>2, ElementOfSeq
<1>11. \A i \in 1 .. Len(pushes) : pushes[i] \in Nat
  BY <1>6, ElementOfSeq
<1>12. push.text \in Nat /\ queued \in Nat /\ sent \in Nat /\ mine \subseteq 1 .. Newest
  <2>1. push.text \in Texts /\ queued \in Texts /\ mine \in SUBSET (1 .. Newest)
    BY DEF TypeOK
  <2>2. sent \in 0 .. MaxPushes
    BY DEF TypeOK
  <2>3. sent \in Nat
    BY <2>2
  <2> QED BY <1>1, <2>1, <2>3
<1> HIDE DEF Newest
<1>13. /\ Coming \subseteq 1 .. Newest
       /\ \A v \in Coming : \E i \in 1 .. Len(channel) : channel[i] = v
       /\ \A i \in 1 .. Len(channel) : channel[i] \in Coming
  BY <1>9, <1>10 DEF Coming, ToSet
<1>14. /\ \A i \in 1 .. Len(pushes) : pushes[i] \in Remembered
       /\ \A t \in Remembered : t \in Nat /\ \E i \in 1 .. Len(pushes) : pushes[i] = t
  BY <1>9, <1>11 DEF Remembered, ToSet
<1> QED BY <1>1, <1>3, <1>4, <1>5, <1>6, <1>8, <1>9, <1>12, <1>13, <1>14

\* A new version, and what the wire carries of it.
LEMMA LandsIs ==
  ASSUME TypeOK, NEW text \in Texts \ {0}, Lands(text)
  PROVE  /\ Newest' = Newest + 1 /\ Newest' <= MaxVersions
         /\ history' \in Seq(Texts \ {0})
         /\ \A w \in 1 .. Newest : history'[w] = history[w]
         /\ history'[Newest + 1] = text
         /\ channel' \in Seq(1 .. Newest')
         /\ socket => channel' = Append(channel, Newest + 1)
         /\ ~socket => channel' = channel
<1> USE NoteBodyAssumption
<1>1. Newest \in Nat /\ history \in Seq(Texts \ {0}) /\ channel \in Seq(1 .. Newest)
  BY EchoTypes DEF TypeOK
<1>2. /\ history' = Append(history, text) /\ Newest < MaxVersions
      /\ channel' = IF socket THEN Append(channel, Newest + 1) ELSE channel
  BY DEF Lands
<1>3. /\ Append(history, text) \in Seq(Texts \ {0}) /\ Len(Append(history, text)) = Newest + 1
      /\ \A w \in 1 .. Newest : Append(history, text)[w] = history[w]
      /\ Append(history, text)[Newest + 1] = text
  BY <1>1, AppendProperties DEF Newest
<1>4. Newest' = Newest + 1 /\ Newest' <= MaxVersions
  <2>1. Newest' = Len(history')
    BY DEF Newest
  <2> QED BY <2>1, <1>1, <1>2, <1>3
<1>5. channel \in Seq(1 .. Newest + 1)
  <2>1. 1 .. Newest \subseteq 1 .. Newest + 1
    BY <1>1
  <2> QED BY <1>1, <2>1, SeqMonotonic
<1>6. Append(channel, Newest + 1) \in Seq(1 .. Newest + 1)
  <2>1. Newest + 1 \in 1 .. Newest + 1
    BY <1>1
  <2> QED BY <1>5, <2>1, AppendProperties
<1> QED BY <1>2, <1>3, <1>4, <1>5, <1>6

\* Remembering a text keeps the types and the limit.
LEMMA RememberIs ==
  ASSUME TypeOK, NEW text \in Texts \ {0}, Remember(text)
  PROVE  \E h \in {0, 1} :
           /\ h <= Len(pushes) + 1 /\ (h = 0 => Len(pushes) < MaxPerItem)
           /\ (h = 1 => Len(pushes) >= 1)
           /\ pushes' \in Seq(Texts \ {0}) /\ Len(pushes') = Len(pushes) + 1 - h
           /\ Len(pushes') <= MaxPerItem
           /\ \A i \in 1 .. Len(pushes') : pushes'[i] = Append(pushes, text)[h + i]
           /\ evicted' = IF h = 1 THEN evicted \cup {pushes[1]} ELSE evicted
<1> USE NoteBodyAssumption
<1> DEFINE all == Append(pushes, text)
           h == IF Len(all) > MaxPerItem THEN 1 ELSE 0
<1>1. pushes \in Seq(Texts \ {0}) /\ Len(pushes) \in Nat /\ Len(pushes) <= MaxPerItem
  BY EchoTypes DEF TypeOK
<1>2. /\ all \in Seq(Texts \ {0}) /\ Len(all) = Len(pushes) + 1
      /\ \A i \in 1 .. Len(pushes) : all[i] = pushes[i]
  BY <1>1, AppendProperties
<1>3. /\ pushes' = SubSeq(all, 1 + h, Len(all))
      /\ evicted' = IF h = 1 THEN evicted \cup {Head(all)} ELSE evicted
  BY DEF Remember
<1> HIDE DEF all
<1>4. h \in 0 .. Len(all) /\ h \in {0, 1}
  BY <1>1, <1>2
<1>5. /\ (h = 1 => Len(pushes) >= 1) /\ (h = 0 => Len(pushes) < MaxPerItem)
      /\ Len(all) - h <= MaxPerItem
  BY <1>1, <1>2
<1> HIDE DEF h
<1>6. /\ SubSeq(all, h + 1, Len(all)) \in Seq(Texts \ {0})
      /\ Len(SubSeq(all, h + 1, Len(all))) = Len(all) - h
      /\ \A i \in 1 .. (Len(all) - h) : SubSeq(all, h + 1, Len(all))[i] = all[h + i]
  BY <1>2, <1>4, RestOf
<1>7. pushes' = SubSeq(all, h + 1, Len(all))
  <2>1. 1 + h = h + 1
    BY <1>4
  <2> QED BY <1>3, <2>1
<1>8. h = 1 => Head(all) = pushes[1]
  BY <1>2, <1>5, <1>1
<1>9. evicted' = IF h = 1 THEN evicted \cup {pushes[1]} ELSE evicted
  BY <1>3, <1>8
<1>10. h <= Len(pushes) + 1
  BY <1>2, <1>4
<1>11. /\ pushes' \in Seq(Texts \ {0}) /\ Len(pushes') = Len(pushes) + 1 - h
       /\ Len(pushes') <= MaxPerItem
       /\ \A i \in 1 .. Len(pushes') : pushes'[i] = Append(pushes, text)[h + i]
  <2>1. Len(pushes') = Len(all) - h
    BY <1>6, <1>7
  <2>2. Len(pushes') = Len(pushes) + 1 - h /\ Len(pushes') <= MaxPerItem
    <3>1. Len(all) = Len(pushes) + 1
      BY <1>2
    <3> QED BY <2>1, <3>1, <1>1, <1>4, <1>5
  <2>3. pushes' \in Seq(Texts \ {0})
    BY <1>6, <1>7
  <2>4. \A i \in 1 .. Len(pushes') : pushes'[i] = all[h + i]
    BY <2>1, <1>6, <1>7
  <2> QED BY <2>2, <2>3, <2>4 DEF all
<1> QED BY <1>4, <1>5, <1>9, <1>10, <1>11
-----------------------------------------------------------------------------
\* What delivering an event does to the pushes remembered: h of them go.
Takes(readable, h) ==
  LET version == channel[1]
      text == history[version]
  IN /\ Len(channel) >= 1 /\ Len(channel') = Len(channel) - 1
     /\ \A i \in 1 .. Len(channel') : channel'[i] = channel[i + 1]
     /\ pushes' \in Seq(Texts \ {0}) /\ Len(pushes') = Len(pushes) - h
     /\ \A i \in 1 .. Len(pushes') : pushes'[i] = pushes[h + i]
     /\ h = 0 => pushes' = pushes /\ (readable => text \notin Remembered)
     /\ h # 0 => readable /\ pushes[h] = text /\ \A i \in 1 .. (h - 1) : pushes[i] # text
     /\ unheard' = HeardUpTo(version, text, readable)
     /\ verdict' = [event |-> version, own |-> (~readable \/ text \in Remembered),
                    readable |-> readable]

LEMMA DeliverIs ==
  ASSUME TypeOK, Deliver
  PROVE  /\ channel' \in Seq(1 .. Newest)
         /\ \E readable \in BOOLEAN, h \in 0 .. Len(pushes) : Takes(readable, h)
<1>1. channel \in Seq(1 .. Newest) /\ channel # <<>> /\ pushes \in Seq(Texts \ {0})
      /\ channel' = Tail(channel) /\ Len(pushes) \in Nat
  BY EchoTypes DEF TypeOK, Deliver
<1>2. Len(channel) >= 1 /\ Head(channel) = channel[1] /\ Len(Tail(channel)) = Len(channel) - 1
      /\ Tail(channel) \in Seq(1 .. Newest)
      /\ \A i \in 1 .. Len(Tail(channel)) : Tail(channel)[i] = channel[i + 1]
  BY <1>1, HeadTailProperties, EmptySeq, LenProperties
<1> DEFINE version == channel[1]
           text == history[version]
<1>3. PICK readable \in BOOLEAN :
        /\ pushes' = IF readable /\ (~readable \/ IsOwn(text)) THEN AfterMatch(text) ELSE pushes
        /\ unheard' = HeardUpTo(version, text, readable)
        /\ verdict' = [event |-> version, own |-> (~readable \/ IsOwn(text)),
                       readable |-> readable]
  BY <1>2 DEF Deliver
<1>4. IsOwn(text) <=> text \in Remembered
  BY DEF IsOwn, Remembered
<1> HIDE DEF text, version
<1>5. CASE readable /\ IsOwn(text)
  <2>1. pushes' = AfterMatch(text)
    BY <1>3, <1>5
  <2>2. PICK m \in 1 .. Len(pushes) :
           /\ pushes[m] = text /\ \A i \in 1 .. (m - 1) : pushes[i] # text
           /\ AfterMatch(text) \in Seq(Texts \ {0}) /\ Len(AfterMatch(text)) = Len(pushes) - m
           /\ \A i \in 1 .. (Len(pushes) - m) : AfterMatch(text)[i] = pushes[m + i]
    BY <1>1, <1>5, AfterMatchIs
  <2>3. m \in 0 .. Len(pushes) /\ m # 0
    BY <2>2, <1>1
  <2>4. Takes(readable, m)
    BY <1>1, <1>2, <1>3, <1>4, <1>5, <2>1, <2>2, <2>3 DEF Takes, text, version
  <2> QED BY <1>1, <1>2, <2>3, <2>4
<1>6. CASE ~(readable /\ IsOwn(text))
  <2>1. pushes' = pushes
    BY <1>3, <1>6
  <2>2. 0 \in 0 .. Len(pushes) /\ Len(pushes) - 0 = Len(pushes)
        /\ \A i \in 1 .. Len(pushes) : 0 + i = i
    BY <1>1
  <2>3. Takes(readable, 0)
    BY <1>1, <1>2, <1>3, <1>4, <1>6, <2>1, <2>2 DEF Takes, text, version
  <2> QED BY <1>1, <1>2, <2>2, <2>3
<1> QED BY <1>5, <1>6
-----------------------------------------------------------------------------
LEMMA EchoTypesStep ==
  ASSUME TypeOK, Numbered, Answered, [Next]_vars
  PROVE  TypeOK'
<1> USE NoteBodyAssumption
<1> USE DEF server, wire, echoes, outbox, screen, cached, refreshing, ledger
<1>t. /\ Newest \in Nat /\ Newest >= 1 /\ mine \subseteq 1 .. Newest
      /\ \A v \in 1 .. Newest : history[v] \in Texts \ {0}
      /\ ToSet(history) \subseteq Texts \ {0} /\ Coming \subseteq 1 .. Newest
      /\ Len(channel) \in Nat /\ \A i \in 1 .. Len(channel) : channel[i] \in Coming
  BY EchoTypes
<1>n. UNCHANGED history => Newest' = Newest
  BY DEF Newest
<1>x. \A n \in Nat : MaxVersions < n /\ n <= MaxVersions + MaxPushes => n \in Texts \ {0}
  BY DEF Texts
<1>m. sent < MaxPushes => MyText \in Texts
  <2>1. sent \in Nat
    BY EchoTypes
  <2> QED BY <2>1 DEF MyText, Texts
<1>q. queued # 0 => queued \in Texts \ {0}
  BY DEF TypeOK
<1>p. push.stage # "idle" => push.text \in Texts \ {0}
  <2>1. push.text \in Texts
    BY DEF TypeOK
  <2>2. push.stage # "idle" => push.text > MaxVersions
    BY DEF Numbered
  <2> QED BY <2>1, <2>2
<1>w. waits \in Seq([version : 0 .. Newest, known : SUBSET (1 .. Newest)])
  BY DEF TypeOK
<1>u. UNCHANGED <<history, waits>> =>
        waits' \in Seq([version : 0 .. Newest', known : SUBSET (1 .. Newest')])
  BY <1>w, <1>n
<1>l. late' \in {late, FALSE} => late' \in BOOLEAN
  BY DEF TypeOK
<1>1. ASSUME NEW text \in Texts \ {0}, Lands(text),
             mine' \in {mine, mine \cup {Newest + 1}},
             \/ UNCHANGED push
             \/ push' = [push EXCEPT !.stage = "landed", !.version = Newest + 1],
             unheard' \in {unheard, unheard \cup {push.text}},
             UNCHANGED <<socket, gaps, pushes, evicted, queued, sent, screen, cached,
                         refreshing, verdict>>
      PROVE  TypeOK'
  <2>1. /\ Newest' = Newest + 1 /\ Newest' <= MaxVersions
        /\ history' \in Seq(Texts \ {0}) /\ channel' \in Seq(1 .. Newest')
    BY <1>1, LandsIs
  <2>2. /\ 1 .. Newest \subseteq 1 .. Newest' /\ 0 .. Newest \subseteq 0 .. Newest'
        /\ Newest + 1 \in 1 .. Newest' /\ Newest + 1 \in 0 .. Newest' /\ Newest' \in 1 .. MaxVersions
    BY <2>1, <1>t
  <2>3. mine' \in SUBSET (1 .. Newest')
    BY <1>1, <1>t, <2>2
  <2>4. push' \in [stage : {"idle", "sent", "landed"}, text : Texts, version : 0 .. Newest']
    <3>1. push \in [stage : {"idle", "sent", "landed"}, text : Texts, version : 0 .. Newest]
      BY DEF TypeOK
    <3>2. Newest + 1 \in 0 .. Newest'
      BY <2>2
    <3>3. push \in [stage : {"idle", "sent", "landed"}, text : Texts, version : 0 .. Newest']
      BY <2>2, <3>1
    <3> QED BY <1>1, <3>2, <3>3
  <2>5. unheard' \in SUBSET Texts
    <3>1. push.text \in Texts /\ unheard \in SUBSET Texts
      BY DEF TypeOK
    <3> QED BY <1>1, <3>1
  <2>6. read' \in [stage : {"idle", "asked", "answered"}, version : 0 .. Newest', fresh : BOOLEAN]
        /\ verdict' \in [event : 0 .. Newest', own : BOOLEAN, readable : BOOLEAN]
        /\ refresh' \in [stage : {"idle", "loading", "waiting", "asked", "answered"},
                         observed : Texts, version : 0 .. Newest']
        /\ body' \in 1 .. Newest'
    <3>1. read \in [stage : {"idle", "asked", "answered"}, version : 0 .. Newest, fresh : BOOLEAN]
      BY DEF TypeOK
    <3>2. verdict \in [event : 0 .. Newest, own : BOOLEAN, readable : BOOLEAN]
      BY DEF TypeOK
    <3>3. refresh \in [stage : {"idle", "loading", "waiting", "asked", "answered"},
                       observed : Texts, version : 0 .. Newest] /\ body \in 1 .. Newest
      BY DEF TypeOK
    <3> QED BY <1>1, <2>2, <3>1, <3>2, <3>3
  <2>7. waits' \in Seq([version : 0 .. Newest', known : SUBSET (1 .. Newest')])
    <3>1. [version : 0 .. Newest, known : SUBSET (1 .. Newest)]
            \subseteq [version : 0 .. Newest', known : SUBSET (1 .. Newest')]
      BY <2>2
    <3>2. waits' = waits
      BY <1>1
    <3> HIDE DEF Newest
    <3> QED BY <1>w, <3>1, <3>2, SeqMonotonic
  <2> QED BY <1>1, <2>1, <2>2, <2>3, <2>4, <2>5, <2>6, <2>7 DEF TypeOK
<1>2. CASE RemoteEdit
  <2>1. PICK text \in {TheirText} \cup ToSet(history) : Lands(text)
    BY <1>2 DEF RemoteEdit
  <2>2. text \in Texts \ {0}
    <3>1. Newest < MaxVersions
      BY <2>1 DEF Lands
    <3>2. TheirText \in Texts \ {0}
      BY <3>1, <1>t DEF TheirText, Texts
    <3> QED BY <2>1, <3>2, <1>t
  <2>3. UNCHANGED <<mine, push, unheard, socket, gaps, pushes, evicted, queued, sent, screen, cached,
                    refreshing, verdict>>
    BY <1>2 DEF RemoteEdit
  <2> QED BY <2>1, <2>2, <2>3, <1>1
<1>3. CASE PushLands
  <2>1. push.text \in Texts \ {0}
    BY <1>3, <1>p DEF PushLands
  <2> QED BY <2>1, <1>3, <1>1 DEF PushLands
<1>4. CASE Disconnect
  <2>1. {history[v] : v \in ToSet(channel) \cap mine} \subseteq Texts
    BY <1>t
  <2>2. gaps' \in 0 .. MaxGaps /\ channel' = <<>> /\ socket' = FALSE
        /\ unheard' = unheard \cup {history[v] : v \in ToSet(channel) \cap mine}
        /\ UNCHANGED <<server, pushes, evicted, outbox, screen, cached, refreshing, verdict>>
    BY <1>4 DEF Disconnect, TypeOK
  <2>3. <<>> \in Seq(1 .. Newest)
    BY EmptySeq
  <2>4. /\ Newest' = Newest
        /\ waits' \in Seq([version : 0 .. Newest', known : SUBSET (1 .. Newest')])
    BY <2>2, <1>n, <1>u
  <2>5. unheard' \in SUBSET Texts
    BY <2>1, <2>2 DEF TypeOK
  <2>6. channel' \in Seq(1 .. Newest')
    BY <2>2, <2>3, <2>4
  <2>7. UNCHANGED <<history, mine, pushes, evicted, queued, push, sent, open, asked, body, read,
                    current, late, refresh, loaded, verdict>>
    BY <2>2
  <2>8. history' \in Seq(Texts \ {0}) /\ Newest' \in 1 .. MaxVersions
    BY <2>4, <2>7 DEF TypeOK
  <2>9. pushes' \in Seq(Texts \ {0}) /\ Len(pushes') <= MaxPerItem /\ queued' \in Texts
    BY <2>7 DEF TypeOK
  <2>10. push' \in [stage : {"idle", "sent", "landed"}, text : Texts, version : 0 .. Newest']
    BY <2>4, <2>7 DEF TypeOK
  <2>11. /\ open' \in BOOLEAN /\ asked' \in BOOLEAN /\ (asked' => open')
        /\ body' \in 1 .. Newest'
    BY <2>4, <2>7 DEF TypeOK
  <2>12. /\ read' \in [stage : {"idle", "asked", "answered"}, version : 0 .. Newest', fresh : BOOLEAN]
        /\ (read'.stage # "idle" => open') /\ current' \in BOOLEAN
    BY <2>4, <2>7 DEF TypeOK
  <2>13. refresh' \in [stage : {"idle", "loading", "waiting", "asked", "answered"},
                  observed : Texts, version : 0 .. Newest']
    BY <2>4, <2>7 DEF TypeOK
  <2>14. loaded' \in BOOLEAN /\ late' \in BOOLEAN /\ mine' \in SUBSET (1 .. Newest')
    BY <2>4, <2>7 DEF TypeOK
  <2>15. /\ verdict' \in [event : 0 .. Newest', own : BOOLEAN, readable : BOOLEAN]
        /\ evicted' \in SUBSET Texts /\ sent' \in 0 .. MaxPushes
    BY <2>4, <2>7 DEF TypeOK
  <2> QED
    BY <2>2, <2>4, <2>5, <2>6, <2>8, <2>9, <2>10, <2>11, <2>12, <2>13, <2>14, <2>15 DEF TypeOK
<1>5. CASE Connect
  <2>1. read' \in [stage : {"idle", "asked", "answered"}, version : 0 .. Newest, fresh : BOOLEAN]
        /\ read'.stage = read.stage
    BY <1>5 DEF Connect, TypeOK
  <2> QED BY <2>1, <1>5, <1>n DEF TypeOK, Connect
<1>6. CASE Deliver
  <2>1. channel' \in Seq(1 .. Newest)
    BY <1>6, DeliverIs
  <2>2. PICK readable \in BOOLEAN, h \in 0 .. Len(pushes) : Takes(readable, h)
    BY <1>6, DeliverIs
  <2>3. channel[1] \in 1 .. Newest
    <3>1. Len(channel) >= 1
      BY <2>2 DEF Takes
    <3>2. 1 \in 1 .. Len(channel)
      BY <3>1, <1>t
    <3> QED BY <3>2, <1>t
  <2>4. pushes' \in Seq(Texts \ {0}) /\ Len(pushes') <= MaxPerItem
    <3>1. Len(pushes) \in Nat /\ Len(pushes) <= MaxPerItem
      BY EchoTypes DEF TypeOK
    <3> QED BY <2>2, <3>1 DEF Takes
  <2>5. unheard' \in SUBSET Texts
    <3>1. history[channel[1]] \in Texts
      BY <2>3, <1>t
    <3>2. unheard \in SUBSET Texts
      BY DEF TypeOK
    <3>3. unheard' = HeardUpTo(channel[1], history[channel[1]], readable)
      BY <2>2 DEF Takes
    <3> QED BY <3>1, <3>2, <3>3 DEF HeardUpTo
  <2>6. verdict' \in [event : 0 .. Newest, own : BOOLEAN, readable : BOOLEAN]
    <3>1. verdict' = [event |-> channel[1], own |-> (~readable \/ history[channel[1]] \in Remembered),
                      readable |-> readable]
      BY <2>2 DEF Takes
    <3>2. channel[1] \in 0 .. Newest
      BY <2>3, <1>t
    <3> QED BY <3>1, <3>2
  <2>7. /\ UNCHANGED <<server, socket, gaps, evicted, outbox, open, loaded, late>>
        /\ current' = FALSE /\ read' = [read EXCEPT !.fresh = FALSE]
        /\ Head(channel) = channel[1] /\ channel # <<>>
    BY <1>6 DEF Deliver, Seen
  <2>8. /\ body' \in 1 .. Newest /\ asked' \in BOOLEAN /\ (asked' => open)
        /\ \/ refresh' = refresh
           \/ \E at \in {"loading", "waiting"} : refresh' = [NoRefresh EXCEPT !.stage = at]
        /\ waits' \in {waits, Append(waits, Event(channel[1])), Append(waits, Fetch)}
    <3>1. \/ open /\ Answers(channel[1]) /\ UNCHANGED <<refresh, waits>>
          \/ \E r \in BOOLEAN, left \in {AfterMatch(history[channel[1]]), pushes} :
               Refreshes(channel[1], r, left) /\ UNCHANGED asked
      BY <1>6, <2>7 DEF Deliver
    <3>2. body \in 1 .. Newest /\ asked \in BOOLEAN /\ (asked => open)
      BY DEF TypeOK
    <3>3. CASE open /\ Answers(channel[1]) /\ UNCHANGED <<refresh, waits>>
      <4>1. body' \in {body, channel[1]}
        BY <3>3 DEF Answers
      <4>2. asked' \in BOOLEAN
        BY <3>3, <3>2 DEF Answers
      <4> QED BY <4>1, <4>2, <3>2, <3>3, <2>3
    <3>4. ASSUME NEW r \in BOOLEAN, NEW left, Refreshes(channel[1], r, left), UNCHANGED asked
          PROVE  /\ body' \in 1 .. Newest /\ asked' \in BOOLEAN /\ (asked' => open)
                 /\ \/ refresh' = refresh
                    \/ \E at \in {"loading", "waiting"} : refresh' = [NoRefresh EXCEPT !.stage = at]
                 /\ waits' \in {waits, Append(waits, Event(channel[1])), Append(waits, Fetch)}
      <4>1. body' \in {body, channel[1]}
        BY <3>4 DEF Refreshes, Commit
      <4>2. /\ \/ refresh' = refresh
               \/ \E at \in {"loading", "waiting"} : refresh' = [NoRefresh EXCEPT !.stage = at]
            /\ waits' \in {waits, Append(waits, Event(channel[1])), Append(waits, Fetch)}
        BY <3>4 DEF Refreshes
      <4> QED BY <4>1, <4>2, <3>2, <3>4, <2>3
    <3> QED BY <3>1, <3>3, <3>4
  <2>9. read' \in [stage : {"idle", "asked", "answered"}, version : 0 .. Newest, fresh : BOOLEAN]
        /\ read'.stage = read.stage
    BY <2>7 DEF TypeOK
  <2>10. refresh' \in [stage : {"idle", "loading", "waiting", "asked", "answered"},
                       observed : Texts, version : 0 .. Newest]
    <3>1. 0 \in Texts /\ 0 \in 0 .. Newest
      BY <1>t DEF Texts
    <3> QED BY <2>8, <3>1 DEF NoRefresh, TypeOK
  <2>11. waits' \in Seq([version : 0 .. Newest, known : SUBSET (1 .. Newest)])
    <3>1. Event(channel[1]) \in [version : 0 .. Newest, known : SUBSET (1 .. Newest)]
      <4>1. channel[1] \in 0 .. Newest /\ mine \in SUBSET (1 .. Newest)
        BY <2>3, <1>t
      <4> HIDE DEF Newest
      <4> QED BY <4>1 DEF Event
    <3>2. Fetch \in [version : 0 .. Newest, known : SUBSET (1 .. Newest)]
      BY <1>t DEF Fetch
    <3> HIDE DEF Newest
    <3>3. ASSUME NEW w \in {Event(channel[1]), Fetch}
          PROVE  Append(waits, w) \in Seq([version : 0 .. Newest, known : SUBSET (1 .. Newest)])
      BY <1>w, <3>1, <3>2, AppendProperties
    <3> QED BY <2>8, <1>w, <3>3
  <2> QED BY <2>1, <2>4, <2>5, <2>6, <2>7, <2>8, <2>9, <2>10, <2>11, <1>n DEF TypeOK
<1>z. 0 \in Texts /\ 0 \in 0 .. Newest /\ Newest \in 0 .. Newest
  BY <1>t DEF Texts
<1>i. /\ NoPush \in [stage : {"idle", "sent", "landed"}, text : Texts, version : 0 .. Newest]
      /\ Idle \in [stage : {"idle", "asked", "answered"}, version : 0 .. Newest, fresh : BOOLEAN]
      /\ NoRefresh \in [stage : {"idle", "loading", "waiting", "asked", "answered"},
                        observed : Texts, version : 0 .. Newest]
      /\ Idle.stage = "idle"
  BY <1>z DEF NoPush, Idle, NoRefresh
<1>7. CASE Type \/ KeepMine
  <2>1. queued' \in Texts /\ (asked' => open) /\ asked' \in BOOLEAN
    BY <1>7, <1>m DEF Type, KeepMine, TypeOK
  <2>2. UNCHANGED <<server, wire, echoes, push, sent, open, cached, refreshing, verdict>>
    BY <1>7 DEF Type, KeepMine
  <2> QED BY <2>1, <2>2, <1>n DEF TypeOK
<1>8. CASE PassPushes
  <2>1. /\ queued # 0 /\ Remember(queued) /\ sent < MaxPushes /\ sent' = sent + 1
        /\ push' = [stage |-> "sent", text |-> queued, version |-> 0]
        /\ UNCHANGED <<server, wire, unheard, queued, screen, cached, refreshing, verdict>>
    BY <1>8 DEF PassPushes
  <2>2. queued \in Texts \ {0}
    BY <2>1, <1>q
  <2>3. PICK h \in {0, 1} :
           /\ h = 1 => Len(pushes) >= 1
           /\ pushes' \in Seq(Texts \ {0}) /\ Len(pushes') <= MaxPerItem
           /\ evicted' = IF h = 1 THEN evicted \cup {pushes[1]} ELSE evicted
    BY <2>1, <2>2, RememberIs
  <2>4. evicted' \in SUBSET Texts
    <3>1. h = 1 => pushes[1] \in Texts
      <4>1. pushes \in Seq(Texts \ {0}) /\ Len(pushes) \in Nat
        BY EchoTypes DEF TypeOK
      <4> QED BY <2>3, <4>1, ElementOfSeq
    <3> QED BY <2>3, <3>1 DEF TypeOK
  <2>5. push' \in [stage : {"idle", "sent", "landed"}, text : Texts, version : 0 .. Newest]
    BY <2>1, <2>2, <1>z
  <2>6. sent' \in 0 .. MaxPushes
    <3>1. sent \in Nat
      BY EchoTypes
    <3> QED BY <2>1, <3>1
  <2> QED BY <2>1, <2>3, <2>4, <2>5, <2>6, <1>n DEF TypeOK
<1>9. CASE PushReturns \/ PushFails
  <2>1. /\ UNCHANGED <<server, wire, pushes, evicted, sent, screen, read, current, refreshing,
                       verdict>>
        /\ push' = NoPush /\ late' \in {late, FALSE}
    BY <1>9 DEF PushReturns, PushFails
  <2>2. body' \in 1 .. Newest
    BY <1>9, <1>t DEF PushReturns, PushFails, TypeOK, Answered
  <2>3. queued' \in Texts /\ unheard' \in SUBSET Texts
    <3>1. push.text \in Texts /\ queued \in Texts /\ unheard \in SUBSET Texts
      BY DEF TypeOK
    <3> QED BY <1>9, <3>1, <1>z DEF PushReturns, PushFails
  <2>4. /\ Newest' = Newest /\ late' \in BOOLEAN
        /\ waits' \in Seq([version : 0 .. Newest', known : SUBSET (1 .. Newest')])
    BY <2>1, <1>n, <1>u, <1>l
  <2> QED BY <2>1, <2>2, <2>3, <2>4, <1>i DEF TypeOK
<1>10. CASE Open \/ Close \/ Refetch \/ ReadReads \/ ReadReturns \/ ReadFails \/ LoadTheirs
  <2>1. UNCHANGED <<server, wire, echoes, push, sent, refreshing, verdict>> /\ late' \in {late, FALSE}
    BY <1>10 DEF Open, Close, Refetch, ReadReads, ReadReturns, ReadFails, LoadTheirs
  <2>2. queued' \in {0, queued}
    BY <1>10 DEF Open, Close, Refetch, ReadReads, ReadReturns, ReadFails, LoadTheirs
  <2>3. [stage |-> "asked", version |-> 0, fresh |-> TRUE]
          \in [stage : {"idle", "asked", "answered"}, version : 0 .. Newest, fresh : BOOLEAN]
    BY <1>z
  <2>4. /\ read \in [stage : {"idle", "asked", "answered"}, version : 0 .. Newest, fresh : BOOLEAN]
        /\ [read EXCEPT !.stage = "answered", !.version = Newest]
             \in [stage : {"idle", "asked", "answered"}, version : 0 .. Newest, fresh : BOOLEAN]
    BY <1>z DEF TypeOK
  <2>5. read' \in [stage : {"idle", "asked", "answered"}, version : 0 .. Newest, fresh : BOOLEAN]
    BY <1>10, <2>3, <2>4, <1>i
       DEF Open, Close, Refetch, ReadReads, ReadReturns, ReadFails, LoadTheirs, ReadBegins
  <2>6. /\ body' \in 1 .. Newest /\ current' \in BOOLEAN
        /\ open' \in BOOLEAN /\ asked' \in BOOLEAN /\ (asked' => open')
    BY <1>10, <2>4
       DEF Open, Close, Refetch, ReadReads, ReadReturns, ReadFails, LoadTheirs, TypeOK, Answered
  <2>7. read'.stage # "idle" => open'
    BY <1>10, <1>i
       DEF Open, Close, Refetch, ReadReads, ReadReturns, ReadFails, LoadTheirs, TypeOK, ReadBegins
  <2> QED BY <2>1, <2>2, <2>5, <2>6, <2>7, <1>n, <1>z, <1>u, <1>l DEF TypeOK
<1>11. CASE RefreshAsks \/ RefreshReads \/ RefreshReturns \/ RefreshFails
  <2>1. UNCHANGED <<server, wire, echoes, outbox, screen, read, current, late, ledger, verdict>>
    BY <1>11 DEF RefreshAsks, RefreshReads, RefreshReturns, RefreshFails
  <2>2. body' \in 1 .. Newest
    BY <1>11 DEF RefreshAsks, RefreshReads, RefreshReturns, RefreshFails, Commit, TypeOK, Answered
  <2>3. history[body] \in Texts
    BY <1>t DEF TypeOK
  <2>4. refresh' \in [stage : {"idle", "loading", "waiting", "asked", "answered"},
                      observed : Texts, version : 0 .. Newest]
    BY <1>11, <1>i, <1>z, <2>3 DEF RefreshAsks, RefreshReads, RefreshReturns, RefreshFails, TypeOK
  <2> QED BY <2>1, <2>2, <2>4, <1>n DEF TypeOK
<1>12. CASE LoadEnds
  BY <1>12, <1>n DEF LoadEnds, TypeOK
<1>13. CASE LoadReturns \/ LoadReturnsOffline
  <2>1. /\ UNCHANGED <<server, wire, echoes, outbox, screen, read, current, loaded, verdict>>
        /\ waits # <<>> /\ waits' = Tail(waits)
        /\ late' = late \/ late' = (late \/ body' < body)
        /\ body' = body \/ (Head(waits).version # 0 /\ body' = Head(waits).version)
        /\ refresh' \in {refresh, NoRefresh, [refresh EXCEPT !.stage = "waiting"]}
    BY <1>13 DEF LoadReturns, LoadReturnsOffline, Commit
  <2>2. /\ waits' \in Seq([version : 0 .. Newest, known : SUBSET (1 .. Newest)])
        /\ Head(waits).version \in 0 .. Newest
    <3> HIDE DEF Newest
    <3>1. /\ Tail(waits) \in Seq([version : 0 .. Newest, known : SUBSET (1 .. Newest)])
          /\ Head(waits) \in [version : 0 .. Newest, known : SUBSET (1 .. Newest)]
      BY <2>1, <1>w, HeadTailProperties
    <3> QED BY <2>1, <3>1
  <2>3. body' \in 1 .. Newest
    <3>1. body \in 1 .. Newest
      BY DEF TypeOK
    <3> HIDE DEF Newest
    <3> QED BY <2>1, <2>2, <3>1, <1>t
  <2>4. late' \in BOOLEAN
    BY <2>1, Zenon DEF TypeOK
  <2>5. refresh' \in [stage : {"idle", "loading", "waiting", "asked", "answered"},
                     observed : Texts, version : 0 .. Newest]
    BY <2>1, <1>i DEF TypeOK
  <2>6. /\ Newest' = Newest
        /\ waits' \in Seq([version : 0 .. Newest', known : SUBSET (1 .. Newest')])
    BY <2>1, <2>2, <1>n
  <2> QED BY <2>1, <2>3, <2>4, <2>5, <2>6 DEF TypeOK
<1>14. CASE UNCHANGED vars
  BY <1>14, <1>n DEF vars, TypeOK
<1> QED
  BY <1>2, <1>3, <1>4, <1>5, <1>6, <1>7, <1>8, <1>9, <1>10, <1>11, <1>12,
     <1>13, <1>14 DEF Next
-----------------------------------------------------------------------------
LEMMA AnsweredStep ==
  ASSUME TypeOK, Answered, [Next]_vars
  PROVE  Answered'
<1> USE DEF server, wire, echoes, outbox, screen, cached, refreshing
<1>t. Newest \in Nat /\ Newest >= 1 /\ mine \subseteq 1 .. Newest
  BY EchoTypes
<1>n. UNCHANGED history => Newest' = Newest
  BY DEF Newest
<1>1. CASE RemoteEdit
  <2>1. PICK text : Lands(text) /\ text \in {TheirText} \cup ToSet(history)
    BY <1>1 DEF RemoteEdit
  <2>2. Newest' = Newest + 1
    <3>1. history \in Seq(Nat) /\ history' = Append(history, text)
      BY <2>1, EchoTypes DEF Lands
    <3>2. text \in Nat
      BY <2>1, <1>t, EchoTypes DEF TheirText
    <3> QED BY <3>1, <3>2, AppendProperties DEF Newest
  <2>3. UNCHANGED <<mine, push, read, refresh>>
    BY <1>1 DEF RemoteEdit
  <2> HIDE DEF Newest
  <2> QED BY <2>2, <2>3, <1>t DEF Answered
<1>2. CASE PushLands
  <2>1. /\ push' = [push EXCEPT !.stage = "landed", !.version = Newest + 1]
        /\ mine' = mine \cup {Newest + 1} /\ UNCHANGED <<read, refresh>> /\ Lands(push.text)
    BY <1>2 DEF PushLands
  <2>2. Newest' = Newest + 1
    <3>1. history \in Seq(Nat) /\ history' = Append(history, push.text) /\ push.text \in Nat
      BY <2>1, EchoTypes DEF Lands
    <3> QED BY <3>1, AppendProperties DEF Newest
  <2>3. push'.stage = "landed" /\ push'.version = Newest + 1
    <3>1. push \in [stage : {"idle", "sent", "landed"}, text : Texts, version : 0 .. Newest]
      BY DEF TypeOK
    <3> QED BY <2>1, <3>1
  <2>4. \A v \in mine' : v <= Newest + 1
    BY <2>1, <1>t
  <2> QED BY <2>1, <2>2, <2>3, <2>4, <1>t DEF Answered
<1>3. CASE ReadReads \/ RefreshReads
  <2>1. /\ UNCHANGED <<server, push>>
        /\ read' \in {read, [read EXCEPT !.stage = "answered", !.version = Newest]}
        /\ refresh' \in {refresh, [refresh EXCEPT !.stage = "answered", !.version = Newest]}
    BY <1>3 DEF ReadReads, RefreshReads
  <2>2. /\ read \in [stage : {"idle", "asked", "answered"}, version : 0 .. Newest, fresh : BOOLEAN]
        /\ refresh \in [stage : {"idle", "loading", "waiting", "asked", "answered"},
                        observed : Texts, version : 0 .. Newest]
    BY DEF TypeOK
  <2>3. read' = read \/ read'.version = Newest
    BY <2>1, <2>2
  <2>4. refresh' = refresh \/ refresh'.version = Newest
    BY <2>1, <2>2
  <2> QED BY <2>1, <2>3, <2>4, <1>t, <1>n DEF Answered
<1>4. CASE PassPushes \/ PushReturns \/ PushFails
  <2>1. /\ UNCHANGED <<server, read, refresh>>
        /\ push' = NoPush \/ push' = [stage |-> "sent", text |-> queued, version |-> 0]
    BY <1>4 DEF PassPushes, PushReturns, PushFails
  <2> QED BY <2>1, <1>n DEF Answered, NoPush
<1>5. CASE \/ Disconnect \/ Connect \/ Deliver \/ Type \/ Open \/ Close \/ Refetch \/ ReadReturns
           \/ ReadFails \/ KeepMine \/ LoadTheirs \/ RefreshAsks \/ RefreshReturns \/ RefreshFails
           \/ LoadEnds \/ LoadReturns \/ LoadReturnsOffline \/ UNCHANGED vars
  <2>1. UNCHANGED <<server, push>>
    BY <1>5 DEF Disconnect, Connect, Deliver, Type, Open, Close, Refetch, ReadReturns, ReadFails,
         KeepMine, LoadTheirs, RefreshAsks, RefreshReturns, RefreshFails, LoadEnds, LoadReturns,
         LoadReturnsOffline, vars
  <2>2. \/ read' \in {read, Idle, [read EXCEPT !.fresh = FALSE]}
        \/ ReadBegins
    BY <1>5 DEF Disconnect, Connect, Deliver, Type, Open, Close, Refetch, ReadReturns, ReadFails,
         KeepMine, LoadTheirs, RefreshAsks, RefreshReturns, RefreshFails, LoadEnds, LoadReturns,
         LoadReturnsOffline, vars, Seen
  <2>3. read'.stage = "answered" => read.stage = "answered" /\ read'.version = read.version
    <3>1. read \in [stage : {"idle", "asked", "answered"}, version : 0 .. Newest, fresh : BOOLEAN]
      BY DEF TypeOK
    <3> QED BY <2>2, <3>1 DEF Idle, ReadBegins
  <2>4. \/ refresh' \in {refresh, NoRefresh, [refresh EXCEPT !.stage = "waiting"],
                         [refresh EXCEPT !.stage = "asked", !.observed = history[body]]}
        \/ \E at \in {"loading", "waiting"} : refresh' = [NoRefresh EXCEPT !.stage = at]
    BY <1>5 DEF Disconnect, Connect, Deliver, Type, Open, Close, Refetch, ReadReturns, ReadFails,
         KeepMine, LoadTheirs, RefreshAsks, RefreshReturns, RefreshFails, LoadEnds, LoadReturns,
         LoadReturnsOffline, vars, Refreshes
  <2>5. refresh'.stage = "answered" => refresh.stage = "answered" /\ refresh'.version = refresh.version
    <3>1. refresh \in [stage : {"idle", "loading", "waiting", "asked", "answered"},
                       observed : Texts, version : 0 .. Newest]
      BY DEF TypeOK
    <3>2. NoRefresh.stage = "idle" /\ \A at : [NoRefresh EXCEPT !.stage = at].stage = at
      BY DEF NoRefresh
    <3>3. /\ [refresh EXCEPT !.stage = "asked", !.observed = history[body]].stage = "asked"
          /\ [refresh EXCEPT !.stage = "waiting"].stage = "waiting"
      BY <3>1
    <3> QED BY <2>4, <3>2, <3>3
  <2> QED BY <2>1, <2>3, <2>5, <1>n DEF Answered
<1> QED BY <1>1, <1>2, <1>3, <1>4, <1>5 DEF Next

\* What is said of the pushes depends on the server, the wire, the pushes and
\* the queue only; a queued text is the newest.
LEMMA EchoFrame ==
  ASSUME EchoInv,
         UNCHANGED <<server, channel, pushes, unheard, evicted, push, sent, verdict>>,
         socket' \in {socket, TRUE}, queued' \in {queued, 0, MyText}
  PROVE  EchoParts'
<1> USE DEF server
<1>1. /\ Newest' = Newest /\ Coming' = Coming /\ Remembered' = Remembered /\ Made' = Made
      /\ \A t : /\ Awaited(t)' = Awaited(t) /\ Copies(t)' = Copies(t) /\ InFlight(t)' = InFlight(t)
                /\ (Shared(t)' <=> Shared(t)) /\ (Owed(t)' <=> Owed(t))
  BY DEF Newest, Coming, Remembered, Made, Awaited, Copies, Places, InFlight, Shared, Owed
<1>2. Contiguous' /\ Origins' /\ Floor'
  BY <1>1 DEF EchoInv, EchoParts, Contiguous, Origins, Floor
<1>3. Numbered'
  <2>1. queued' # 0 =>
          /\ queued' > MaxVersions /\ queued' <= MaxVersions + sent + 1
          /\ \A t \in Made \cup Remembered : t <= queued'
    <3>1. CASE queued' = MyText
      <4>1. \A t \in Made \cup Remembered : t \in Int
        BY EchoTypes, NoteBodyAssumption DEF Made, EchoInv
      <4>2. sent \in Nat /\ MaxVersions \in Nat
        BY EchoTypes, NoteBodyAssumption DEF EchoInv
      <4>3. \A t \in Made \cup Remembered : t <= MaxVersions + sent
        BY DEF EchoInv, EchoParts, Numbered
      <4> QED BY <3>1, <4>1, <4>2, <4>3 DEF MyText
    <3>2. CASE queued' \in {queued, 0}
      BY <3>2 DEF EchoInv, EchoParts, Numbered
    <3> QED BY <3>1, <3>2
  <2> QED BY <1>1, <2>1 DEF EchoInv, EchoParts, Numbered
<1>4. NotForgotten' /\ NotKept'
  BY <1>1 DEF EchoInv, EchoParts, NotForgotten, NotKept
<1>5. Survives' /\ Told'
  BY <1>1 DEF EchoInv, EchoParts, Survives, Told
<1> QED BY <1>2, <1>3, <1>4, <1>5 DEF EchoParts
-----------------------------------------------------------------------------
\* The echoes of a text to come are finitely many.
LEMMA AwaitedAreFinite ==
  ASSUME TypeOK, NEW t
  PROVE  /\ IsFiniteSet(Awaited(t)) /\ Cardinality(Awaited(t)) \in Nat
         /\ Cardinality(Awaited(t)) = 0 <=> Awaited(t) = {}
<1>1. IsFiniteSet(1 .. Newest)
  BY EchoTypes, FS_Interval
<1>2. Awaited(t) \subseteq 1 .. Newest
  BY EchoTypes DEF Awaited
<1>3. IsFiniteSet(Awaited(t))
  BY <1>1, <1>2, FS_Subset
<1> QED BY <1>3, FS_CardinalityType, FS_EmptySet

\* A new version's event is the last on its way.
LEMMA LandsWire ==
  ASSUME TypeOK, Contiguous, NEW text \in Texts \ {0}, Lands(text), UNCHANGED socket
  PROVE  /\ Contiguous'
         /\ socket => Coming' = Coming \cup {Newest + 1}
         /\ ~socket => Coming = {} /\ Coming' = {}
<1>1. /\ Newest' = Newest + 1
      /\ socket => channel' = Append(channel, Newest + 1)
      /\ ~socket => channel' = channel
  BY LandsIs
<1>2. Newest \in Nat /\ channel \in Seq(Nat) /\ Len(channel) \in Nat
  BY EchoTypes
<1>3. CASE socket
  <2>1. channel' = Append(channel, Newest + 1) /\ Newest' = Newest + 1 /\ socket'
    BY <1>1, <1>3, LandsIs
  <2>2. /\ Len(channel') = Len(channel) + 1 /\ channel'[Len(channel) + 1] = Newest + 1
        /\ \A i \in 1 .. Len(channel) : channel'[i] = channel[i]
    BY <1>2, <2>1, AppendProperties
  <2>3. ASSUME NEW i \in 1 .. Len(channel) + 1
        PROVE  channel'[i] = Newest + 1 - (Len(channel) + 1) + i
    <3>1. CASE i \in 1 .. Len(channel)
      BY <3>1, <2>2, <1>2 DEF Contiguous
    <3>2. CASE i = Len(channel) + 1
      BY <3>2, <2>2, <1>2
    <3> QED BY <3>1, <3>2, <1>2
  <2>4. Contiguous'
    <3>1. Len(channel') = Len(channel) + 1 /\ Newest' = Newest + 1
      BY <2>1, <2>2
    <3>2. \A i \in 1 .. Len(channel') : channel'[i] = Newest' - Len(channel') + i
      BY <2>3, <3>1, <1>2
    <3> QED BY <2>1, <3>2 DEF Contiguous
  <2>5. Coming' = Coming \cup {Newest + 1}
    BY <1>2, <2>1, AppendSet DEF Coming
  <2> QED BY <1>3, <2>4, <2>5
<1>4. CASE ~socket
  <2>1. channel' = channel /\ channel = <<>>
    BY <1>4, LandsIs DEF Contiguous
  <2>2. Len(channel') = 0 /\ Coming = {} /\ Coming' = {}
    BY <2>1 DEF Coming, ToSet
  <2> QED BY <1>4, <2>1, <2>2 DEF Contiguous
<1> QED BY <1>3, <1>4

LEMMA EchoRemoteEdit ==
  ASSUME EchoInv, RemoteEdit
  PROVE  EchoParts'
<1> USE NoteBodyAssumption DEF EchoInv, EchoParts
<1> USE DEF echoes, outbox
<1>t. /\ Newest \in Nat /\ mine \subseteq 1 .. Newest /\ Coming \subseteq 1 .. Newest
      /\ ToSet(history) \subseteq Texts \ {0} /\ Newest + 1 \notin mine
      /\ \A v \in mine : v \in 1 .. Newest /\ v \in 1 .. Newest + 1
      /\ verdict.event \in 0 .. Newest
  BY EchoTypes DEF TypeOK
<1>1. PICK text \in {TheirText} \cup ToSet(history) : Lands(text)
  BY DEF RemoteEdit
<1>2. /\ UNCHANGED <<mine, socket, pushes, unheard, evicted, push, queued, sent, verdict>>
  BY DEF RemoteEdit
<1>3. text \in Texts \ {0} /\ (text > MaxVersions => text \in ToSet(history))
  <2>1. Newest < MaxVersions
    BY <1>1 DEF Lands
  <2>2. TheirText \in Texts \ {0} /\ TheirText <= MaxVersions
    BY <2>1, <1>t DEF TheirText, Texts
  <2>3. TheirText \in Nat
    BY <1>t DEF TheirText
  <2> QED BY <1>1, <2>2, <2>3, <1>t
<1>4. /\ Newest' = Newest + 1
      /\ \A w \in 1 .. Newest : history'[w] = history[w]
      /\ history'[Newest + 1] = text
  BY <1>1, <1>3, LandsIs
<1>5. Contiguous' /\ Coming' \cap mine = Coming \cap mine
  BY <1>1, <1>2, <1>3, <1>t, LandsWire
<1> HIDE DEF Newest
<1>6. \A t : Awaited(t)' = Awaited(t)
  BY <1>2, <1>4, <1>5, <1>t DEF Awaited
<1>7. /\ Remembered' = Remembered /\ Made' = Made
      /\ \A t : Copies(t)' = Copies(t) /\ InFlight(t)' = InFlight(t)
  <2>1. {history'[v] : v \in mine} = {history[v] : v \in mine}
    BY <1>4, <1>t
  <2> QED BY <1>2, <2>1 DEF Remembered, Made, Copies, Places, InFlight
<1>8. \A t : Shared(t) => Shared(t)'
  BY <1>2, <1>4, <1>t DEF Shared
<1>9. \A t : Owed(t)' <=> Owed(t)
  <2>1. \A t : (\E v \in Coming' \cap mine : history'[v] = t) <=>
               (\E v \in Coming \cap mine : history[v] = t)
    BY <1>4, <1>5, <1>t
  <2> QED BY <1>2, <2>1 DEF Owed, Coming
<1>10. Numbered'
  <2>1. \A u, v \in mine : u <= v => history'[u] <= history'[v]
    BY <1>4, <1>t DEF Numbered
  <2> QED BY <1>2, <1>7, <2>1 DEF Numbered
<1>11. Origins'
  <2>1. ASSUME NEW w \in 1 .. Newest + 1, history'[w] > MaxVersions
        PROVE  \E u \in mine : u <= w /\ history'[u] = history'[w]
    <3>1. CASE w \in 1 .. Newest
      BY <3>1, <2>1, <1>4, <1>t DEF Origins
    <3>2. CASE w = Newest + 1
      <4>1. text > MaxVersions /\ text \in ToSet(history)
        BY <3>2, <2>1, <1>3, <1>4
      <4>2. PICK x \in 1 .. Newest : history[x] = text
        <5>1. DOMAIN history = 1 .. Newest
          BY EchoTypes, LenProperties DEF Newest
        <5> QED BY <4>1, <5>1 DEF ToSet
      <4>3. PICK u \in mine : u <= x /\ history[u] = history[x]
        BY <4>1, <4>2 DEF Origins
      <4>4. u <= w /\ history'[u] = history'[w]
        BY <3>2, <4>2, <4>3, <1>4, <1>t
      <4> QED BY <4>4
    <3> QED BY <3>1, <3>2, <1>t
  <2> QED BY <2>1, <1>2, <1>4 DEF Origins
<1>12. Floor' /\ NotForgotten' /\ NotKept'
  <2>1. Floor'
    BY <1>7 DEF Floor
  <2>2. NotForgotten'
    BY <1>2, <1>6, <1>7, <1>8 DEF NotForgotten
  <2>3. NotKept'
    BY <1>2, <1>6, <1>7 DEF NotKept
  <2> QED BY <2>1, <2>2, <2>3
<1>13. Survives'
  <2>1. ASSUME NEW v \in mine \cap Coming,
               \A w \in 1 .. Newest + 1 \ {v} : history'[w] # history'[v]
        PROVE  \E p \in Remembered : p >= history'[v]
    <3>1. \A w \in 1 .. Newest \ {v} : history[w] # history[v]
      <4>1. ASSUME NEW w \in 1 .. Newest \ {v} PROVE history[w] # history[v]
        <5>1. w \in 1 .. Newest + 1 \ {v} /\ history'[w] = history[w] /\ history'[v] = history[v]
          BY <1>4, <1>t
        <5> QED BY <5>1, <2>1
      <4> QED BY <4>1
    <3>2. history'[v] = history[v]
      BY <1>4, <1>t
    <3> QED BY <3>1, <3>2 DEF Survives
  <2>2. ASSUME push.stage = "sent", \A w \in 1 .. Newest + 1 : history'[w] # push.text
        PROVE  \E p \in Remembered : p >= push.text
    <3>1. \A w \in 1 .. Newest : history[w] # push.text
      BY <2>2, <1>4, <1>t
    <3> QED BY <2>2, <3>1 DEF Survives
  <2> QED BY <1>2, <1>4, <1>5, <1>7, <2>1, <2>2 DEF Survives
<1>14. Told'
  <2>1. verdict.event # 0 => history'[verdict.event] = history[verdict.event]
    <3>1. verdict.event # 0 => verdict.event \in 1 .. Newest
      BY <1>t
    <3> QED BY <3>1, <1>4
  <2> QED BY <1>2, <1>8, <1>9, <2>1 DEF Told
<1> QED BY <1>5, <1>10, <1>11, <1>12, <1>13, <1>14

LEMMA EchoPushLands ==
  ASSUME EchoInv, PushLands
  PROVE  EchoParts'
<1> USE NoteBodyAssumption DEF EchoInv, EchoParts
<1> DEFINE new == Newest + 1
           text == push.text
<1>t. /\ Newest \in Nat /\ mine \subseteq 1 .. Newest /\ Coming \subseteq 1 .. Newest
      /\ new \notin mine /\ new \notin 1 .. Newest /\ new \in 1 .. new
      /\ \A v \in mine : v \in 1 .. Newest /\ v \in 1 .. new
      /\ \A v \in 1 .. new : v \in 1 .. Newest \/ v = new
      /\ verdict.event \in 0 .. Newest
  BY EchoTypes DEF TypeOK
<1>1. /\ push.stage = "sent" /\ Lands(text) /\ mine' = mine \cup {new}
      /\ push' = [push EXCEPT !.stage = "landed", !.version = new]
      /\ unheard' = IF socket THEN unheard ELSE unheard \cup {text}
      /\ UNCHANGED <<socket, pushes, evicted, queued, sent, verdict>>
  BY DEF PushLands
<1>2. push'.stage = "landed" /\ push'.text = text
  <2>1. push \in [stage : {"idle", "sent", "landed"}, text : Texts, version : 0 .. Newest]
    BY DEF TypeOK
  <2> QED BY <1>1, <2>1
<1>3. text \in Texts \ {0} /\ text > MaxVersions /\ text \in Nat
  <2>1. text \in Texts /\ text \in Nat
    BY EchoTypes DEF TypeOK
  <2>2. text > MaxVersions
    BY <1>1 DEF Numbered
  <2> QED BY <2>1, <2>2
<1>4. /\ Newest' = new
      /\ \A w \in 1 .. Newest : history'[w] = history[w]
      /\ history'[new] = text
  BY <1>1, <1>3, LandsIs
<1>5. /\ Contiguous'
      /\ socket => Coming' = Coming \cup {new}
      /\ ~socket => Coming = {} /\ Coming' = {}
  BY <1>1, <1>3, LandsWire
<1> HIDE DEF new, text
<1>6. Remembered' = Remembered /\ \A t : Copies(t)' = Copies(t)
  BY <1>1 DEF Remembered, Copies, Places
<1>7. Made' = Made
  <2>1. {history'[v] : v \in mine'} = {history[v] : v \in mine} \cup {text}
    BY <1>1, <1>4, <1>t
  <2> QED BY <1>1, <1>2, <2>1 DEF Made, text
<1>8. \A t : Shared(t)' <=> Shared(t)
  <2>1. \A v : v \in 1 .. new \ mine' <=> v \in 1 .. Newest \ mine
    BY <1>1, <1>t
  <2> QED BY <1>4, <2>1, <1>t DEF Shared
<1>9. \A t : InFlight(t) = (IF t = text THEN 1 ELSE 0) /\ InFlight(t)' = 0
  BY <1>1, <1>2 DEF InFlight, text
<1>10. ASSUME NEW t
       PROVE  Cardinality(Awaited(t)') =
                Cardinality(Awaited(t)) + IF t = text /\ socket THEN 1 ELSE 0
  <2>1. IsFiniteSet(Awaited(t)) /\ Cardinality(Awaited(t)) \in Nat
    BY AwaitedAreFinite
  <2>2. CASE t = text /\ socket
    <3>1. Awaited(t)' = Awaited(t) \cup {new}
      BY <2>2, <1>1, <1>4, <1>5, <1>t DEF Awaited
    <3>2. new \notin Awaited(t)
      BY <1>t DEF Awaited
    <3> QED BY <2>1, <2>2, <3>1, <3>2, FS_AddElement
  <2>3. CASE ~(t = text /\ socket)
    <3>1. Awaited(t)' = Awaited(t)
      BY <2>3, <1>1, <1>4, <1>5, <1>t DEF Awaited
    <3> QED BY <2>1, <2>3, <3>1
  <2> QED BY <2>2, <2>3
<1>11. \A t : Owed(t) => Owed(t)'
  <2>1. ASSUME NEW t, Owed(t) PROVE Owed(t)'
    <3>1. CASE t \in unheard
      BY <3>1, <1>1 DEF Owed
    <3>2. CASE push.stage = "sent" /\ push.text = t
      <4>1. CASE socket
        <5>1. new \in Coming' \cap mine' /\ history'[new] = t
          BY <3>2, <4>1, <1>1, <1>4, <1>5 DEF text
        <5> QED BY <5>1 DEF Owed, Coming
      <4>2. CASE ~socket
        BY <3>2, <4>2, <1>1 DEF Owed, text
      <4> QED BY <4>1, <4>2
    <3>3. ASSUME NEW v \in Coming \cap mine, history[v] = t PROVE Owed(t)'
      <4>1. v \in Coming' \cap mine' /\ history'[v] = t
        BY <3>3, <1>1, <1>4, <1>5, <1>t
      <4> QED BY <4>1 DEF Owed, Coming
    <3> QED BY <2>1, <3>1, <3>2, <3>3 DEF Owed, Coming
  <2> QED BY <2>1
<1>12. Numbered'
  <2>1. ASSUME NEW u \in mine', NEW v \in mine', u <= v PROVE history'[u] <= history'[v]
    <3>1. CASE v \in mine
      <4>1. u \in mine
        BY <1>1, <1>t, <2>1, <3>1 DEF new
      <4> QED BY <3>1, <4>1, <2>1, <1>4, <1>t DEF Numbered
    <3>2. CASE v = new /\ u \in mine
      <4>1. history[u] \in Made
        BY <3>2 DEF Made
      <4>2. history[u] <= text
        BY <4>1, <1>1 DEF Numbered, text
      <4> QED BY <3>2, <4>2, <1>4, <1>t
    <3>3. CASE v = new /\ u = new
      BY <3>3, <1>3, <1>4
    <3> QED BY <1>1, <3>1, <3>2, <3>3
  <2>2. push'.text > MaxVersions /\ push'.text <= MaxVersions + sent
    BY <1>1, <1>2 DEF Numbered, text
  <2> QED BY <1>1, <1>2, <1>6, <1>7, <2>1, <2>2 DEF Numbered
<1>13. Origins'
  <2>1. ASSUME NEW w \in 1 .. new, history'[w] > MaxVersions
        PROVE  \E u \in mine' : u <= w /\ history'[u] = history'[w]
    <3>1. CASE w \in 1 .. Newest
      <4>1. PICK u \in mine : u <= w /\ history[u] = history[w]
        BY <3>1, <2>1, <1>4 DEF Origins
      <4> QED BY <3>1, <4>1, <1>1, <1>4, <1>t
    <3>2. CASE w = new
      <4>1. w <= w /\ w \in mine'
        BY <3>2, <1>1, <1>t DEF new
      <4> QED BY <4>1
    <3> QED BY <3>1, <3>2, <1>t
  <2> QED BY <2>1, <1>4 DEF Origins
<1>14. Floor'
  BY <1>6, <1>7 DEF Floor
<1>15. NotForgotten' /\ NotKept'
  <2>1. ASSUME NEW t \in Nat
        PROVE  /\ Cardinality(Awaited(t)') + InFlight(t)' <= Cardinality(Awaited(t)) + InFlight(t)
               /\ t \notin unheard' => t \notin unheard /\ Cardinality(Awaited(t)') + InFlight(t)'
                                         = Cardinality(Awaited(t)) + InFlight(t)
    <3>1. Cardinality(Awaited(t)) \in Nat
      BY AwaitedAreFinite
    <3> QED BY <3>1, <1>1, <1>9, <1>10
  <2>2. ASSUME NEW t \in Nat
        PROVE  Cardinality(Awaited(t)) \in Nat /\ Cardinality(Copies(t)) \in Nat
               /\ InFlight(t) \in Nat /\ Cardinality(Awaited(t)') \in Nat /\ InFlight(t)' \in Nat
    <3>1. Cardinality(Awaited(t)) \in Nat
      BY AwaitedAreFinite
    <3>2. Cardinality(Copies(t)) \in Nat
      BY EchoTypes, PlacesAreFinite DEF Copies
    <3> QED BY <3>1, <3>2, <1>9, <1>10
  <2>3. NotForgotten'
    BY <1>1, <1>6, <1>8, <2>1, <2>2 DEF NotForgotten
  <2>4. NotKept'
    BY <1>6, <2>1, <2>2 DEF NotKept
  <2> QED BY <2>3, <2>4
<1>16. Survives'
  <2>1. ASSUME NEW v \in mine' \cap Coming',
               \A w \in 1 .. new \ {v} : history'[w] # history'[v]
        PROVE  \E p \in Remembered : p >= history'[v]
    <3>1. CASE v = new
      <4>1. \A w \in 1 .. Newest : history[w] # text
        <5>1. ASSUME NEW w \in 1 .. Newest PROVE history[w] # text
          <6>1. w \in 1 .. new \ {v}
            BY <3>1, <1>t DEF new
          <6>2. history'[w] = history[w]
            BY <1>4
          <6> QED BY <6>1, <6>2, <2>1, <3>1, <1>4
        <5> QED BY <5>1
      <4> QED BY <3>1, <4>1, <1>1, <1>4 DEF Survives, text
    <3>2. CASE v # new
      <4>1. v \in mine \cap Coming
        BY <3>2, <2>1, <1>1, <1>5
      <4>2. \A w \in 1 .. Newest \ {v} : history[w] # history[v]
        <5>1. ASSUME NEW w \in 1 .. Newest \ {v} PROVE history[w] # history[v]
          <6>1. w \in 1 .. new \ {v}
            BY <1>t DEF new
          <6>2. history'[w] = history[w] /\ history'[v] = history[v]
            BY <4>1, <1>4, <1>t
          <6> QED BY <6>1, <6>2, <2>1
        <5> QED BY <5>1
      <4>3. history'[v] = history[v]
        BY <4>1, <1>4, <1>t
      <4> QED BY <4>1, <4>2, <4>3 DEF Survives
    <3> QED BY <3>1, <3>2
  <2> QED BY <1>2, <1>4, <1>6, <2>1 DEF Survives
<1>17. Told'
  <2>1. verdict.event # 0 =>
          /\ history'[verdict.event] = history[verdict.event]
          /\ verdict.event \in mine' <=> verdict.event \in mine
    <3>1. verdict.event # 0 => verdict.event \in 1 .. Newest
      BY <1>t
    <3> QED BY <3>1, <1>1, <1>4, <1>t
  <2> QED BY <1>1, <1>8, <1>11, <2>1 DEF Told
<1> QED BY <1>5, <1>12, <1>13, <1>14, <1>15, <1>16, <1>17
-----------------------------------------------------------------------------
LEMMA EchoDisconnect ==
  ASSUME EchoInv, Disconnect
  PROVE  EchoParts'
<1> USE DEF EchoInv, EchoParts, server, outbox
<1>1. /\ channel' = <<>>
      /\ unheard' = unheard \cup {history[v] : v \in Coming \cap mine}
      /\ UNCHANGED <<history, mine, pushes, evicted, queued, push, sent, verdict>>
  BY DEF Disconnect, Coming
<1>2. Coming' = {} /\ Len(channel') = 0
  BY <1>1 DEF Coming, ToSet
<1>3. /\ Newest' = Newest /\ Remembered' = Remembered /\ Made' = Made
      /\ \A t : /\ Awaited(t)' = {} /\ Copies(t)' = Copies(t) /\ InFlight(t)' = InFlight(t)
                /\ (Shared(t)' <=> Shared(t))
  BY <1>1, <1>2 DEF Newest, Remembered, Made, Awaited, Copies, Places, InFlight, Shared
<1>4. ASSUME NEW t, Owed(t) PROVE Owed(t)'
  <2>1. CASE t \in unheard
    BY <2>1, <1>1 DEF Owed
  <2>2. CASE push.stage = "sent" /\ push.text = t
    BY <2>2, <1>1 DEF Owed
  <2>3. ASSUME NEW v \in Coming \cap mine, history[v] = t PROVE Owed(t)'
    <3>1. t \in unheard'
      BY <2>3, <1>1
    <3> QED BY <3>1 DEF Owed
  <2> QED BY <1>4, <2>1, <2>2, <2>3 DEF Owed, Coming
<1>5. Contiguous'
  BY <1>1, <1>2 DEF Contiguous
<1>6. Numbered' /\ Origins' /\ Floor'
  BY <1>1, <1>3 DEF Numbered, Origins, Floor
<1>7. NotForgotten' /\ NotKept'
  <2>1. ASSUME NEW t \in Nat
        PROVE  /\ Cardinality(Awaited(t)) \in Nat /\ InFlight(t) \in Nat
               /\ Cardinality(Copies(t)) \in Nat /\ Cardinality(Awaited(t)') = 0
               /\ t \notin unheard' => t \notin unheard /\ Cardinality(Awaited(t)) = 0
    <3>1. Cardinality(Awaited(t)) \in Nat /\ Cardinality(Awaited(t)') = 0
      BY <1>3, AwaitedAreFinite, FS_EmptySet
    <3>2. Cardinality(Copies(t)) \in Nat
      BY EchoTypes, PlacesAreFinite DEF Copies
    <3>3. t \notin unheard' => t \notin unheard /\ Awaited(t) = {}
      BY <1>1 DEF Awaited
    <3> QED BY <3>1, <3>2, <3>3, FS_EmptySet DEF InFlight
  <2>2. NotForgotten'
    BY <1>1, <1>3, <2>1 DEF NotForgotten
  <2>3. NotKept'
    BY <1>1, <1>3, <2>1 DEF NotKept
  <2> QED BY <2>2, <2>3
<1>8. Survives'
  BY <1>1, <1>2, <1>3 DEF Survives
<1>9. Told'
  BY <1>1, <1>3, <1>4 DEF Told
<1> QED BY <1>5, <1>6, <1>7, <1>8, <1>9

LEMMA EchoPushEnds ==
  ASSUME EchoInv, PushReturns \/ PushFails
  PROVE  EchoParts'
<1> USE DEF EchoInv, EchoParts, server, wire
<1>1. /\ push' = NoPush /\ queued' \in {queued, 0}
      /\ unheard' = IF push.stage = "sent" THEN unheard \cup {push.text} ELSE unheard
      /\ UNCHANGED <<history, channel, socket, mine, pushes, evicted, sent, verdict>>
  BY DEF PushReturns, PushFails, echoes
<1>2. push'.stage = "idle"
  BY <1>1 DEF NoPush
<1>3. /\ Newest' = Newest /\ Remembered' = Remembered /\ Coming' = Coming
      /\ \A t : /\ Awaited(t)' = Awaited(t) /\ Copies(t)' = Copies(t) /\ InFlight(t)' = 0
                /\ (Shared(t)' <=> Shared(t))
  BY <1>1, <1>2 DEF Newest, Remembered, Coming, Awaited, Copies, Places, InFlight, Shared
<1>4. Made' \subseteq Made
  BY <1>1, <1>2 DEF Made
<1>5. \A t : Owed(t) => Owed(t)'
  BY <1>1, <1>3 DEF Owed
<1>6. Contiguous' /\ Origins'
  BY <1>1, <1>3 DEF Contiguous, Origins
<1>7. Numbered' /\ Floor'
  BY <1>1, <1>2, <1>3, <1>4 DEF Numbered, Floor
<1>8. NotForgotten' /\ NotKept'
  <2>1. ASSUME NEW t \in Nat
        PROVE  /\ Cardinality(Awaited(t)) \in Nat /\ InFlight(t) \in Nat
               /\ Cardinality(Copies(t)) \in Nat
               /\ t \notin unheard' => t \notin unheard /\ InFlight(t) = 0
    <3>1. Cardinality(Awaited(t)) \in Nat
      BY AwaitedAreFinite
    <3>2. Cardinality(Copies(t)) \in Nat
      BY EchoTypes, PlacesAreFinite DEF Copies
    <3> QED BY <3>1, <3>2, <1>1 DEF InFlight
  <2>2. NotForgotten'
    BY <1>1, <1>3, <2>1 DEF NotForgotten
  <2>3. NotKept'
    BY <1>1, <1>3, <2>1 DEF NotKept
  <2> QED BY <2>2, <2>3
<1>9. Survives'
  BY <1>1, <1>2, <1>3 DEF Survives
<1>10. Told'
  BY <1>1, <1>3, <1>5 DEF Told
<1> QED BY <1>6, <1>7, <1>8, <1>9, <1>10

LEMMA EchoPassPushes ==
  ASSUME EchoInv, PassPushes
  PROVE  EchoParts'
<1> USE NoteBodyAssumption DEF EchoInv, EchoParts, server, wire
<1> DEFINE all == Append(pushes, queued)
<1>t. /\ pushes \in Seq(Nat) /\ Len(pushes) \in Nat /\ queued \in Nat /\ sent \in Nat
      /\ \A i \in 1 .. Len(pushes) : pushes[i] \in Remembered
      /\ \A t \in Remembered : t \in Nat /\ \E i \in 1 .. Len(pushes) : pushes[i] = t
  BY EchoTypes
<1>1. /\ queued # 0 /\ push.stage = "idle" /\ Remember(queued) /\ sent' = sent + 1
      /\ push' = [stage |-> "sent", text |-> queued, version |-> 0]
      /\ UNCHANGED <<history, channel, socket, mine, unheard, queued, verdict>>
  BY DEF PassPushes
<1>2. PICK h \in {0, 1} :
           /\ h = 1 => Len(pushes) >= 1
           /\ pushes' \in Seq(Texts \ {0}) /\ Len(pushes') = Len(pushes) + 1 - h
           /\ \A i \in 1 .. Len(pushes') : pushes'[i] = all[h + i]
           /\ evicted' = IF h = 1 THEN evicted \cup {pushes[1]} ELSE evicted
  <2>1. queued \in Texts \ {0}
    BY <1>1 DEF TypeOK
  <2> QED BY <1>1, <2>1, RememberIs
<1>3. /\ all \in Seq(Nat) /\ Len(all) = Len(pushes) + 1 /\ all[Len(pushes) + 1] = queued
      /\ \A i \in 1 .. Len(pushes) : all[i] = pushes[i]
  BY <1>t, AppendProperties
<1>c. \A t : Cardinality(Places(all, t)) = Cardinality(Copies(t)) + IF queued = t THEN 1 ELSE 0
  BY <1>t, PlacesOfAppend DEF Copies
<1> HIDE DEF all
<1>4. pushes' \in Seq(Nat) /\ DOMAIN pushes' = 1 .. Len(pushes') /\ Len(pushes') \in Nat
  <2>1. Texts \ {0} \subseteq Nat
    BY EchoTypes
  <2>2. pushes' \in Seq(Nat)
    BY <1>2, <2>1, SeqMonotonic
  <2> QED BY <2>2, LenProperties
\* What is remembered now is what was there beyond the first h, and the queued text.
<1>5. ASSUME NEW p \in Remembered'
      PROVE  p = queued \/ \E j \in h + 1 .. Len(pushes) : pushes[j] = p
  <2>1. PICK i \in 1 .. Len(pushes') : pushes'[i] = p
    BY <1>4 DEF Remembered, ToSet
  <2>2. p = all[h + i] /\ h + i \in h + 1 .. Len(pushes) + 1
    BY <2>1, <1>2, <1>4, <1>t
  <2>3. CASE h + i = Len(pushes) + 1
    BY <2>2, <2>3, <1>3
  <2>4. CASE h + i # Len(pushes) + 1
    <3>1. h + i \in h + 1 .. Len(pushes) /\ h + i \in 1 .. Len(pushes)
      BY <2>2, <2>4, <1>2, <1>t
    <3>2. pushes[h + i] = p
      BY <3>1, <2>2, <1>3
    <3> QED BY <3>1, <3>2
  <2> QED BY <2>3, <2>4
<1>6. ASSUME NEW j \in h + 1 .. Len(pushes) PROVE pushes[j] \in Remembered'
  <2>1. j - h \in 1 .. Len(pushes') /\ h + (j - h) = j /\ j \in 1 .. Len(pushes)
    BY <1>2, <1>4, <1>t
  <2>2. pushes'[j - h] = pushes[j]
    BY <2>1, <1>2, <1>3
  <2> QED BY <2>1, <2>2, <1>4 DEF Remembered, ToSet
<1>7. queued \in Remembered'
  <2>1. Len(pushes') \in 1 .. Len(pushes') /\ h + Len(pushes') = Len(pushes) + 1
    BY <1>2, <1>4, <1>t
  <2>2. pushes'[Len(pushes')] = queued
    BY <2>1, <1>2, <1>3
  <2> QED BY <2>1, <2>2, <1>4 DEF Remembered, ToSet
<1>8. Remembered' \subseteq Remembered \cup {queued}
  <2>1. \A j \in h + 1 .. Len(pushes) : j \in 1 .. Len(pushes)
    BY <1>t
  <2> QED BY <1>5, <1>t, <2>1
<1>9. push'.stage = "sent" /\ push'.text = queued
  BY <1>1
<1>10. Made' = Made \cup {queued}
  BY <1>1, <1>9 DEF Made
<1>11. /\ Newest' = Newest /\ Coming' = Coming
       /\ \A t : /\ Awaited(t)' = Awaited(t) /\ (Shared(t)' <=> Shared(t))
                 /\ InFlight(t) = 0 /\ InFlight(t)' = IF queued = t THEN 1 ELSE 0
  BY <1>1, <1>9 DEF Newest, Coming, Awaited, Shared, InFlight
<1>12. ASSUME NEW t \in Nat
       PROVE  /\ Cardinality(Copies(t)) \in Nat /\ Cardinality(Copies(t)') \in Nat
              /\ Cardinality(Copies(t)') <= Cardinality(Copies(t)) + IF queued = t THEN 1 ELSE 0
              /\ t \notin evicted' => Cardinality(Copies(t)') =
                                        Cardinality(Copies(t)) + IF queued = t THEN 1 ELSE 0
  <2>1. /\ Cardinality(Copies(t)) \in Nat
        /\ IsFiniteSet(Places(all, t)) /\ Cardinality(Places(all, t)) \in Nat
    BY <1>3, <1>t, PlacesAreFinite DEF Copies
  <2>2. Copies(t)' = Places(pushes', t)
    BY DEF Copies, Places
  <2>3. Cardinality(Copies(t)') = Cardinality(Beyond(all, t, h))
    <3>1. h \in 0 .. Len(all) /\ Len(pushes') = Len(all) - h
      BY <1>2, <1>3, <1>t
    <3>2. IsRest(all, pushes', h)
      BY <3>1, <1>2 DEF IsRest
    <3> QED BY <2>2, <3>2, <1>3, <1>4, PlacesOfRest
  <2>4. CASE h = 0
    <3>1. Beyond(all, t, h) = Places(all, t)
      BY <2>4, <1>3, <1>t DEF Places, Beyond
    <3> QED BY <3>1, <2>1, <2>3, <1>c
  <2>5. CASE h = 1
    <3>1. Beyond(all, t, h) = Places(all, t) \ {1}
      BY <2>5, <1>3, <1>t DEF Places, Beyond
    <3>2. 1 \in 1 .. Len(pushes) /\ all[1] = pushes[1]
      BY <2>5, <1>2, <1>3, <1>t
    <3>3. t \notin evicted' => 1 \notin Places(all, t)
      BY <3>2, <2>5, <1>2 DEF Places
    <3>4. Cardinality(Places(all, t) \ {1}) = IF 1 \in Places(all, t)
             THEN Cardinality(Places(all, t)) - 1 ELSE Cardinality(Places(all, t))
      BY <2>1, FS_RemoveElement
    <3>5. 1 \in Places(all, t) => Cardinality(Places(all, t)) # 0
      BY <1>3, PlacesAreFinite DEF Places
    <3> QED BY <3>1, <3>3, <3>4, <3>5, <2>1, <2>3, <1>c
  <2> QED BY <2>4, <2>5
<1>13. \A t \in Made \cup Remembered : t \in Int /\ t <= queued /\ t > MaxVersions
                                        /\ t <= MaxVersions + sent
  <2>1. \A t \in Made \cup Remembered : t \in Int
    BY EchoTypes, <1>1 DEF Made
  <2> QED BY <2>1, <1>1 DEF Numbered
<1>14. Contiguous' /\ Origins'
  BY <1>1, <1>11 DEF Contiguous, Origins
<1>15. Numbered'
  <2>1. queued > MaxVersions /\ queued <= MaxVersions + sent + 1
    BY <1>1 DEF Numbered
  <2>2. \A t \in Made' \cup Remembered' :
          t > MaxVersions /\ t <= MaxVersions + (sent + 1) /\ t <= queued
    <3>1. \A t \in Made \cup Remembered :
            t > MaxVersions /\ t <= MaxVersions + (sent + 1) /\ t <= queued
      BY <1>13, <1>t
    <3>2. queued > MaxVersions /\ queued <= MaxVersions + (sent + 1) /\ queued <= queued
      BY <2>1, <1>t
    <3> QED BY <3>1, <3>2, <1>8, <1>10
  <2>3. ASSUME NEW i \in 1 .. Len(pushes'), NEW j \in 1 .. Len(pushes'), i <= j
        PROVE  pushes'[i] <= pushes'[j]
    <3>1. h + i \in 1 .. Len(pushes) + 1 /\ h + j \in 1 .. Len(pushes) + 1 /\ h + i <= h + j
      BY <2>3, <1>2, <1>4, <1>t
    <3>2. pushes'[i] = all[h + i] /\ pushes'[j] = all[h + j]
      BY <1>2
    <3>3. CASE h + j \in 1 .. Len(pushes)
      <4>1. h + i \in 1 .. Len(pushes)
        BY <3>1, <3>3, <1>t
      <4> QED BY <3>1, <3>2, <3>3, <4>1, <1>3 DEF Numbered
    <3>4. CASE h + j = Len(pushes) + 1
      <4>1. all[h + i] = queued \/ all[h + i] \in Remembered
        <5>1. \A k \in 1 .. Len(pushes) + 1 : k \in 1 .. Len(pushes) \/ k = Len(pushes) + 1
          BY <1>t
        <5>2. \A k \in 1 .. Len(pushes) + 1 : all[k] = queued \/ all[k] \in Remembered
          BY <5>1, <1>3, <1>t
        <5> QED BY <5>2, <3>1
      <4> QED BY <3>2, <3>4, <4>1, <1>3, <1>13, <1>t
    <3>5. h + j \in 1 .. Len(pushes) \/ h + j = Len(pushes) + 1
      <4>1. \A k \in 1 .. Len(pushes) + 1 : k \in 1 .. Len(pushes) \/ k = Len(pushes) + 1
        BY <1>t
      <4> QED BY <3>1, <4>1
    <3> QED BY <3>3, <3>4, <3>5
  <2> QED BY <1>1, <1>9, <2>1, <2>2, <2>3, <1>t DEF Numbered
<1>16. Floor'
  <2>1. ASSUME NEW t \in Made', t \notin Remembered', NEW p \in Remembered' PROVE p > t
    <3>1. t \in Made /\ t # queued /\ t \in Int /\ t <= queued
      BY <2>1, <1>7, <1>10, <1>13
    <3>2. CASE p = queued
      BY <3>1, <3>2, <1>t
    <3>3. ASSUME NEW j \in h + 1 .. Len(pushes), pushes[j] = p PROVE p > t
      <4>1. j \in 1 .. Len(pushes) /\ p \in Remembered
        BY <3>3, <1>t
      <4>2. CASE t \in Remembered
        <5>1. PICK k \in 1 .. Len(pushes) : pushes[k] = t
          BY <4>2, <1>t
        <5>2. k \notin h + 1 .. Len(pushes)
          BY <5>1, <1>6, <2>1
        <5>3. k <= j
          BY <5>2, <1>t, <3>3
        <5>4. t <= p
          BY <5>1, <5>3, <4>1, <3>3 DEF Numbered
        <5>5. t # p /\ p \in Int
          BY <2>1, <1>13, <4>1
        <5> QED BY <5>4, <5>5, <3>1
      <4>3. CASE t \notin Remembered
        BY <4>1, <4>3, <3>1 DEF Floor
      <4> QED BY <4>2, <4>3
    <3> QED BY <3>2, <3>3, <1>5
  <2> QED BY <2>1 DEF Floor
<1>17. NotForgotten' /\ NotKept'
  <2>1. ASSUME NEW t \in Nat
        PROVE  Cardinality(Awaited(t)) \in Nat
    BY AwaitedAreFinite
  <2>2. \A t \in Nat : t \notin evicted' => t \notin evicted
    BY <1>2
  <2>3. NotForgotten'
    BY <1>1, <1>11, <1>12, <2>1, <2>2 DEF NotForgotten
  <2>4. NotKept'
    BY <1>1, <1>11, <1>12, <2>1 DEF NotKept
  <2> QED BY <2>3, <2>4
<1>18. Survives'
  <2>1. \A v \in mine : history[v] \in Made
    BY DEF Made
  <2>2. \A v \in mine : queued >= history[v]
    BY <2>1, <1>13, <1>t
  <2> QED BY <1>1, <1>7, <1>9, <2>2, <1>t DEF Survives
<1>19. Told'
  <2>1. \A t : (Owed(t) => Owed(t)') /\ (t \in evicted => t \in evicted')
    BY <1>1, <1>2 DEF Owed
  <2> QED BY <1>1, <1>11, <2>1 DEF Told
<1> QED BY <1>14, <1>15, <1>16, <1>17, <1>18, <1>19
-----------------------------------------------------------------------------
\* An event is delivered.  Recognised at the place h, its text is the h-th of the
\* pushes: newer texts keep their copies and their echoes, and of older ones there
\* is neither left.
LEMMA EchoDeliver ==
  ASSUME EchoInv, Deliver
  PROVE  EchoParts'
<1> USE NoteBodyAssumption DEF EchoInv, EchoParts
<1>1. UNCHANGED <<history, mine, socket, evicted, queued, push, sent>>
  BY DEF Deliver, server, outbox
<1>p. PICK readable \in BOOLEAN, h \in 0 .. Len(pushes) : Takes(readable, h)
  BY DeliverIs
<1>w. PICK w, text : w = channel[1] /\ text = history[w]
  OBVIOUS
<1>2. /\ Len(channel) >= 1 /\ Len(channel') = Len(channel) - 1
      /\ \A i \in 1 .. Len(channel') : channel'[i] = channel[i + 1]
      /\ pushes' \in Seq(Texts \ {0}) /\ Len(pushes') = Len(pushes) - h
      /\ \A i \in 1 .. Len(pushes') : pushes'[i] = pushes[h + i]
      /\ h = 0 => pushes' = pushes /\ (readable => text \notin Remembered)
      /\ h # 0 => readable /\ pushes[h] = text /\ \A i \in 1 .. (h - 1) : pushes[i] # text
      /\ unheard' = HeardUpTo(w, text, readable)
      /\ verdict' = [event |-> w, own |-> (~readable \/ text \in Remembered),
                     readable |-> readable]
  BY <1>p, <1>w DEF Takes
<1>t. /\ Newest \in Nat /\ mine \subseteq 1 .. Newest /\ Coming \subseteq 1 .. Newest
      /\ \A v \in 1 .. Newest : history[v] \in Nat
      /\ pushes \in Seq(Nat) /\ Len(pushes) \in Nat /\ Len(channel) \in Nat
      /\ \A i \in 1 .. Len(pushes) : pushes[i] \in Remembered
      /\ \A t \in Remembered : t \in Nat /\ \E i \in 1 .. Len(pushes) : pushes[i] = t
      /\ \A i \in 1 .. Len(channel) : channel[i] \in Coming
      /\ \A v \in Coming : \E i \in 1 .. Len(channel) : channel[i] = v
      /\ push.text \in Nat /\ h \in Nat
  BY EchoTypes
<1>c. channel' \in Seq(Nat) /\ DOMAIN channel' = 1 .. Len(channel')
  <2>1. 1 .. Newest \subseteq Nat
    BY <1>t
  <2>2. channel' \in Seq(1 .. Newest)
    BY DeliverIs
  <2> QED BY <2>1, <2>2, SeqMonotonic, LenProperties
<1>s. pushes' \in Seq(Nat) /\ DOMAIN pushes' = 1 .. Len(pushes') /\ Len(pushes') \in Nat
  <2>1. Texts \ {0} \subseteq Nat
    BY EchoTypes
  <2> QED BY <1>2, <2>1, SeqMonotonic, LenProperties
<1>3. w \in Coming /\ w \in 1 .. Newest /\ text \in Nat /\ w = Newest - Len(channel) + 1
  <2>1. 1 \in 1 .. Len(channel)
    BY <1>2, <1>t
  <2> QED BY <2>1, <1>t, <1>w DEF Contiguous
\* The events left are those after w.
<1>4. ASSUME NEW v \in Coming' PROVE v \in Coming /\ v > w
  <2>1. PICK i \in 1 .. Len(channel') : channel'[i] = v
    BY <1>c DEF Coming, ToSet
  <2>2. i + 1 \in 1 .. Len(channel) /\ channel[i + 1] = v
    BY <2>1, <1>2, <1>t
  <2>3. v = Newest - Len(channel) + (i + 1)
    BY <2>2 DEF Contiguous
  <2> QED BY <2>1, <2>2, <2>3, <1>3, <1>t
<1>5. ASSUME NEW v \in Coming, v # w PROVE v \in Coming'
  <2>1. PICK i \in 1 .. Len(channel) : channel[i] = v
    BY <1>t
  <2>2. i - 1 \in 1 .. Len(channel') /\ (i - 1) + 1 = i
    BY <2>1, <1>5, <1>2, <1>t, <1>w
  <2>3. channel'[i - 1] = v
    BY <2>1, <2>2, <1>2
  <2> QED BY <2>2, <2>3, <1>c DEF Coming, ToSet
<1>6. \A t : Awaited(t)' = Awaited(t) \ {w}
  <2>1. \A v : v \in Coming' <=> v \in Coming /\ v # w
    <3>1. w \notin Coming'
      <4>1. ~(w > w)
        BY <1>3
      <4> QED BY <4>1, <1>4
    <3> QED BY <3>1, <1>4, <1>5
  <2> QED BY <2>1, <1>1 DEF Awaited
<1>7. \A t : w \in Awaited(t) <=> w \in mine /\ t = text
  BY <1>3, <1>w DEF Awaited
<1>8. ASSUME NEW t
      PROVE  /\ Cardinality(Awaited(t)) \in Nat /\ Cardinality(Awaited(t)') \in Nat
             /\ Cardinality(Awaited(t)') =
                  Cardinality(Awaited(t)) - IF w \in mine /\ t = text THEN 1 ELSE 0
  <2>1. IsFiniteSet(Awaited(t)) /\ Cardinality(Awaited(t)) \in Nat
    BY AwaitedAreFinite
  <2>2. Cardinality(Awaited(t)') \in Nat
    <3>1. IsFiniteSet(Awaited(t) \ {w})
      BY <2>1, FS_RemoveElement
    <3> QED BY <3>1, <1>6, FS_CardinalityType
  <2>3. CASE w \in Awaited(t)
    <3>1. Cardinality(Awaited(t) \ {w}) = Cardinality(Awaited(t)) - 1
      BY <2>1, <2>3, FS_RemoveElement
    <3>2. w \in mine /\ t = text
      BY <2>3, <1>7
    <3> QED BY <2>1, <2>2, <3>1, <3>2, <1>6
  <2>4. CASE w \notin Awaited(t)
    <3>1. Awaited(t)' = Awaited(t)
      BY <2>4, <1>6
    <3>2. ~(w \in mine /\ t = text)
      BY <2>4, <1>7
    <3> QED BY <2>1, <2>2, <3>1, <3>2
  <2> QED BY <2>3, <2>4
<1>9. /\ Newest' = Newest /\ Made' = Made
      /\ \A t : InFlight(t)' = InFlight(t) /\ (Shared(t)' <=> Shared(t)) /\ InFlight(t) \in Nat
  BY <1>1 DEF Newest, Made, InFlight, Shared
\* The pushes left are those beyond the first h.
<1>10. ASSUME NEW p \in Remembered'
       PROVE  p \in Remembered /\ \E j \in h + 1 .. Len(pushes) : pushes[j] = p
  <2>1. PICK i \in 1 .. Len(pushes') : pushes'[i] = p
    BY <1>s DEF Remembered, ToSet
  <2>2. h + i \in h + 1 .. Len(pushes) /\ h + i \in 1 .. Len(pushes)
    BY <2>1, <1>2, <1>t
  <2>3. pushes[h + i] = p
    BY <2>1, <1>2
  <2>4. p \in Remembered
    BY <2>2, <2>3, <1>t
  <2> QED BY <2>2, <2>3, <2>4
<1>11. ASSUME NEW j \in h + 1 .. Len(pushes) PROVE pushes[j] \in Remembered'
  <2>1. j - h \in 1 .. Len(pushes') /\ h + (j - h) = j
    BY <1>2, <1>t
  <2>2. pushes'[j - h] = pushes[j]
    BY <2>1, <1>2
  <2> QED BY <2>1, <2>2, <1>s DEF Remembered, ToSet
<1>12. \A i, j \in 1 .. Len(pushes) : i <= j => pushes[i] <= pushes[j]
  BY DEF Numbered
<1>13. \A i \in 1 .. Len(pushes) : pushes[i] \in Nat
  BY <1>t
\* When h pushes go, none newer than the text does.
<1>14. ASSUME h # 0
       PROVE  /\ h \in 1 .. Len(pushes) /\ text > MaxVersions /\ text \in Remembered
              /\ \A j \in 1 .. Len(pushes) : (pushes[j] > text => j > h) /\ (j > h => pushes[j] >= text)
              /\ \A j \in 1 .. Len(pushes) : pushes[j] = text /\ j # h => j > h
  <2>1. h \in 1 .. Len(pushes) /\ pushes[h] = text /\ \A i \in 1 .. (h - 1) : pushes[i] # text
    BY <1>14, <1>2, <1>t
  <2>2. text \in Remembered /\ text > MaxVersions
    <3>1. text \in Remembered
      BY <2>1, <1>t
    <3> QED BY <3>1 DEF Numbered
  <2>3. ASSUME NEW j \in 1 .. Len(pushes)
        PROVE  /\ pushes[j] > text => j > h
               /\ j > h => pushes[j] >= text
               /\ pushes[j] = text /\ j # h => j > h
    <3>1. pushes[j] \in Nat
      BY <1>13
    <3>2. (j <= h => pushes[j] <= text) /\ (h <= j => text <= pushes[j])
      BY <2>1, <1>12
    <3>3. j \in 1 .. (h - 1) \/ j >= h
      BY <1>t
    <3> QED BY <2>1, <3>1, <3>2, <3>3, <1>3, <1>t
  <2> QED BY <2>1, <2>2, <2>3
<1>15. ASSUME h # 0, NEW v \in Coming' \cap mine PROVE history[v] >= text
  <2>1. PICK u \in mine : u <= w /\ history[u] = text
    BY <1>3, <1>14, <1>15, <1>w DEF Origins
  <2>2. v > w /\ v \in mine /\ v \in 1 .. Newest /\ u \in 1 .. Newest
    BY <1>4, <1>15, <1>t
  <2>3. u <= v
    BY <2>1, <2>2, <1>3, <1>t
  <2>4. history[u] <= history[v]
    BY <2>2, <2>3 DEF Numbered
  <2> QED BY <2>1, <2>2, <2>4, <1>t
<1>16. h # 0 /\ push.stage = "sent" => push.text >= text
  <2>1. ASSUME h # 0, push.stage = "sent" PROVE push.text >= text
    <3>1. text <= push.text
      BY <2>1, <1>14 DEF Numbered
    <3> QED BY <3>1, <1>3, <1>t
  <2> QED BY <2>1
<1>17. ASSUME NEW t \in Nat
       PROVE  /\ Cardinality(Copies(t)) \in Nat /\ Cardinality(Copies(t)') \in Nat
              /\ h = 0 => Cardinality(Copies(t)') = Cardinality(Copies(t))
              /\ h # 0 /\ t > text => Cardinality(Copies(t)') = Cardinality(Copies(t))
              /\ h # 0 /\ t = text => Cardinality(Copies(t)') = Cardinality(Copies(t)) - 1
              /\ h # 0 /\ t < text => Cardinality(Copies(t)') = 0
  <2>1. IsFiniteSet(Copies(t)) /\ Cardinality(Copies(t)) \in Nat
    BY <1>t, PlacesAreFinite DEF Copies
  <2>2. Cardinality(Copies(t)') \in Nat /\ Copies(t)' = Places(pushes', t)
    <3>1. Copies(t)' = Places(pushes', t)
      BY DEF Copies, Places
    <3> QED BY <3>1, <1>s, PlacesAreFinite
  <2> DEFINE A == Beyond(pushes, t, h)
  <2>3. Cardinality(Copies(t)') = Cardinality(A)
    <3>1. IsRest(pushes, pushes', h)
      BY <1>2 DEF IsRest
    <3> QED BY <2>2, <3>1, <1>s, <1>t, PlacesOfRest
  <2>a. A = {j \in Copies(t) : j > h}
    BY DEF Beyond, Copies
  <2> HIDE DEF A
  <2>4. \A j \in Copies(t) : j \in 1 .. Len(pushes) /\ pushes[j] = t
    BY DEF Copies, Places
  <2>5. ASSUME h = 0 PROVE Cardinality(Copies(t)') = Cardinality(Copies(t))
    <3>1. A = Copies(t)
      BY <2>a, <2>4, <2>5, <1>t
    <3> QED BY <3>1, <2>3
  <2>6. ASSUME h # 0 /\ t > text PROVE Cardinality(Copies(t)') = Cardinality(Copies(t))
    <3>1. A = Copies(t)
      BY <2>a, <2>4, <2>6, <1>14
    <3> QED BY <3>1, <2>3
  <2>7. ASSUME h # 0 /\ t = text PROVE Cardinality(Copies(t)') = Cardinality(Copies(t)) - 1
    <3>1. A = Copies(t) \ {h}
      <4>1. \A j \in Copies(t) : j > h <=> j # h
        <5>1. ASSUME NEW j \in Copies(t) PROVE j > h <=> j # h
          <6>1. j \in 1 .. Len(pushes) /\ pushes[j] = text
            BY <2>4, <2>7
          <6>2. j # h => j > h
            BY <6>1, <2>7, <1>14
          <6> QED BY <6>1, <6>2, <1>t
        <5> QED BY <5>1
      <4> QED BY <4>1, <2>a
    <3>2. h \in Copies(t)
      BY <2>7, <1>2, <1>14 DEF Copies, Places
    <3>3. Cardinality(Copies(t) \ {h}) = Cardinality(Copies(t)) - 1
      BY <2>1, <3>2, FS_RemoveElement
    <3> QED BY <3>1, <3>3, <2>3
  <2>8. ASSUME h # 0 /\ t < text PROVE Cardinality(Copies(t)') = 0
    <3>1. A = {}
      BY <2>a, <2>4, <2>8, <1>3, <1>14
    <3> QED BY <3>1, <2>3, FS_EmptySet
  <2> QED BY <2>1, <2>2, <2>5, <2>6, <2>7, <2>8, <1>3
\* The texts that will not be heard.
<1>18. ASSUME NEW t
       PROVE  /\ w \notin mine => (t \in unheard' <=> t \in unheard)
              /\ w \in mine /\ ~readable => (t \in unheard' <=> t \in unheard \/ t = text)
              /\ w \in mine /\ readable => (t \in unheard' <=> t \in unheard /\ t >= text)
  BY <1>2 DEF HeardUpTo
<1>19. Contiguous'
  <2>1. channel # <<>>
    BY <1>2, EmptySeq, <1>t
  <2>2. ASSUME NEW i \in 1 .. Len(channel')
        PROVE  channel'[i] = Newest - Len(channel') + i
    <3>1. i + 1 \in 1 .. Len(channel) /\ channel'[i] = channel[i + 1]
      BY <1>2, <1>t
    <3>2. channel[i + 1] = Newest - Len(channel) + (i + 1)
      BY <3>1 DEF Contiguous
    <3> QED BY <3>1, <3>2, <1>2, <1>t
  <2>3. socket'
    BY <2>1, <1>1 DEF Contiguous
  <2> QED BY <1>9, <2>2, <2>3 DEF Contiguous
<1>20. Numbered'
  <2>1. ASSUME NEW i \in 1 .. Len(pushes'), NEW j \in 1 .. Len(pushes'), i <= j
        PROVE  pushes'[i] <= pushes'[j]
    <3>1. h + i \in 1 .. Len(pushes) /\ h + j \in 1 .. Len(pushes) /\ h + i <= h + j
      BY <2>1, <1>2, <1>t
    <3>2. pushes'[i] = pushes[h + i] /\ pushes'[j] = pushes[h + j]
      BY <1>2
    <3> QED BY <3>1, <3>2, <1>12
  <2>2. Remembered' \subseteq Remembered
    BY <1>10
  <2> QED BY <1>1, <1>9, <2>1, <2>2 DEF Numbered
<1>21. Origins'
  BY <1>1, <1>9 DEF Origins
<1>22. Floor'
  <2>1. ASSUME NEW t \in Made, t \notin Remembered', NEW p \in Remembered' PROVE p > t
    <3>1. PICK j \in h + 1 .. Len(pushes) : pushes[j] = p
      BY <1>10
    <3>2. p \in Remembered /\ j \in 1 .. Len(pushes)
      BY <1>10, <1>t
    <3>3. CASE t \in Remembered
      <4>1. PICK k \in 1 .. Len(pushes) : pushes[k] = t
        BY <3>3, <1>t
      <4>2. k \notin h + 1 .. Len(pushes)
        BY <4>1, <1>11, <2>1
      <4>3. k <= j
        BY <4>2, <3>1, <1>t
      <4>4. t <= p /\ t # p
        BY <4>1, <4>3, <3>1, <3>2, <1>12, <2>1
      <4> QED BY <4>4, <3>2, <3>3, <1>t
    <3>4. CASE t \notin Remembered
      BY <3>2, <3>4 DEF Floor
    <3> QED BY <3>3, <3>4
  <2> QED BY <1>9, <2>1 DEF Floor
<1>23. NotForgotten'
  <2>1. ASSUME NEW t \in Nat, t \notin evicted, ~Shared(t)
        PROVE  Cardinality(Awaited(t)') + InFlight(t) <= Cardinality(Copies(t)')
    <3>1. Cardinality(Awaited(t)) + InFlight(t) <= Cardinality(Copies(t))
      BY <2>1 DEF NotForgotten
    <3>n. /\ Cardinality(Awaited(t)) \in Nat /\ Cardinality(Awaited(t)') \in Nat
          /\ Cardinality(Copies(t)) \in Nat /\ InFlight(t) \in Nat
          /\ Cardinality(Awaited(t)') <= Cardinality(Awaited(t))
      <4>1. Cardinality(Awaited(t)) \in Nat /\ Cardinality(Awaited(t)') \in Nat
        BY <1>8
      <4>2. \/ Cardinality(Awaited(t)') = Cardinality(Awaited(t))
            \/ Cardinality(Awaited(t)') = Cardinality(Awaited(t)) - 1
        BY <4>1, <1>8
      <4>3. Cardinality(Copies(t)) \in Nat /\ InFlight(t) \in Nat
        BY <1>9, <1>17
      <4> QED BY <4>1, <4>2, <4>3
    <3>2. CASE h = 0 \/ t > text
      <4>1. Cardinality(Copies(t)') = Cardinality(Copies(t))
        BY <3>2, <1>17
      <4> QED BY <3>1, <3>n, <4>1
    <3>3. CASE h # 0 /\ t = text
      <4>1. w \in mine
        BY <3>3, <2>1, <1>3, <1>w DEF Shared
      <4>2. Cardinality(Awaited(t)') = Cardinality(Awaited(t)) - 1
        BY <3>3, <4>1, <1>8
      <4>3. Cardinality(Copies(t)') = Cardinality(Copies(t)) - 1
        BY <3>3, <1>17
      <4> QED BY <3>1, <3>n, <4>2, <4>3
    <3>4. CASE h # 0 /\ t < text
      <4>1. Awaited(t)' = {}
        <5>1. \A v \in Coming' \cap mine : history[v] # t
          BY <3>4, <1>15, <1>3, <1>t
        <5> QED BY <5>1, <1>1 DEF Awaited
      <4>2. InFlight(t) = 0
        BY <3>4, <1>16, <1>3, <1>t DEF InFlight
      <4>3. Cardinality(Awaited(t)') = 0
        BY <4>1, FS_EmptySet
      <4> QED BY <4>2, <4>3, <3>4, <1>17
    <3> QED BY <3>2, <3>3, <3>4, <1>3
  <2> QED BY <1>1, <1>9, <2>1 DEF NotForgotten
<1>24. NotKept'
  <2>1. ASSUME NEW t \in Nat, t \notin unheard'
        PROVE  Cardinality(Copies(t)') <= Cardinality(Awaited(t)') + InFlight(t)
    <3>1. t \notin unheard => Cardinality(Copies(t)) <= Cardinality(Awaited(t)) + InFlight(t)
      BY DEF NotKept
    <3>n. /\ Cardinality(Awaited(t)) \in Nat /\ Cardinality(Awaited(t)') \in Nat
          /\ Cardinality(Copies(t)) \in Nat /\ InFlight(t) \in Nat
          /\ Cardinality(Awaited(t)') >= Cardinality(Awaited(t)) - 1
      <4>1. Cardinality(Awaited(t)) \in Nat /\ Cardinality(Awaited(t)') \in Nat
        BY <1>8
      <4>2. \/ Cardinality(Awaited(t)') = Cardinality(Awaited(t))
            \/ Cardinality(Awaited(t)') = Cardinality(Awaited(t)) - 1
        BY <4>1, <1>8
      <4>3. Cardinality(Copies(t)) \in Nat /\ InFlight(t) \in Nat
        BY <1>9, <1>17
      <4> QED BY <4>1, <4>2, <4>3
    <3>2. CASE h = 0
      <4>1. CASE w \notin mine \/ (~readable /\ t # text) \/ (t # text /\ t \notin unheard)
        <5>1. t \notin unheard
          BY <4>1, <2>1, <1>18
        <5>2. CASE w \notin mine \/ t # text
          <6>1. Cardinality(Awaited(t)') = Cardinality(Awaited(t))
            BY <5>2, <3>n, <1>8
          <6>2. Cardinality(Copies(t)') = Cardinality(Copies(t))
            BY <3>2, <1>17
          <6> QED BY <3>1, <5>1, <6>1, <6>2
        <5> QED BY <4>1, <5>2
      <4>2. CASE w \in mine /\ ~readable /\ t = text
        BY <4>2, <2>1, <1>18
      <4>3. CASE w \in mine /\ readable /\ (t = text \/ t \in unheard)
        <5>1. t <= text
          BY <4>3, <2>1, <1>3, <1>18
        <5>2. text \notin Remembered
          BY <3>2, <4>3, <1>2
        <5>3. text \in Made
          BY <4>3, <1>w DEF Made
        <5>4. \A p \in Remembered : p > text
          BY <5>2, <5>3 DEF Floor
        <5>5. \A i \in 1 .. Len(pushes) : pushes[i] # t
          BY <5>1, <5>4, <1>3, <1>13, <1>t
        <5>6. Cardinality(Copies(t)) = 0
          BY <5>5, <1>t, PlacesAreFinite DEF Copies
        <5> QED BY <3>2, <5>6, <1>8, <1>9, <1>17
      <4> QED BY <4>1, <4>2, <4>3
    <3>3. CASE h # 0 /\ t < text
      BY <3>3, <1>8, <1>9, <1>17
    <3>4. CASE h # 0 /\ t >= text
      <4>1. t \notin unheard
        BY <3>4, <2>1, <1>2, <1>18
      <4>2. t > text \/ t = text
        BY <3>4, <1>3
      <4>3. CASE t > text
        <5>1. Cardinality(Awaited(t)') = Cardinality(Awaited(t))
          BY <4>3, <3>n, <1>3, <1>8
        <5>2. Cardinality(Copies(t)') = Cardinality(Copies(t))
          BY <3>4, <4>3, <1>17
        <5> QED BY <3>1, <4>1, <5>1, <5>2
      <4>4. CASE t = text
        <5>1. Cardinality(Copies(t)') = Cardinality(Copies(t)) - 1
          BY <3>4, <4>4, <1>17
        <5> QED BY <3>1, <3>n, <4>1, <5>1
      <4> QED BY <4>2, <4>3, <4>4
    <3> QED BY <3>2, <3>3, <3>4, <1>3
  <2> QED BY <1>9, <2>1 DEF NotKept
<1>25. Survives'
  <2>1. ASSUME NEW n \in Nat, h # 0 => n > text, \E p \in Remembered : p >= n
        PROVE  \E p \in Remembered' : p >= n
    <3>1. PICK p \in Remembered : p >= n
      BY <2>1
    <3>2. PICK j \in 1 .. Len(pushes) : pushes[j] = p
      BY <1>t
    <3>3. j \in h + 1 .. Len(pushes)
      <4>1. CASE h = 0
        BY <4>1, <3>2, <1>t
      <4>2. CASE h # 0
        <5>1. pushes[j] > text
          BY <2>1, <3>1, <3>2, <4>2, <1>3, <1>13
        <5>2. j > h
          BY <4>2, <5>1, <1>14
        <5> QED BY <5>2, <1>t
      <4> QED BY <4>1, <4>2
    <3> QED BY <3>1, <3>2, <3>3, <1>11
  <2>2. ASSUME NEW v \in mine \cap Coming', \A x \in 1 .. Newest \ {v} : history[x] # history[v]
        PROVE  \E p \in Remembered' : p >= history[v]
    <3>1. v \in Coming /\ v > w /\ history[v] \in Nat
      BY <1>4, <1>t
    <3>2. \E p \in Remembered : p >= history[v]
      BY <2>2, <3>1 DEF Survives
    <3>3. history[v] # text
      BY <2>2, <3>1, <1>3, <1>t, <1>w
    <3>4. h # 0 => history[v] > text
      BY <3>1, <3>3, <1>3, <1>15
    <3> QED BY <2>1, <3>1, <3>2, <3>4
  <2>3. ASSUME push.stage = "sent", \A x \in 1 .. Newest : history[x] # push.text
        PROVE  \E p \in Remembered' : p >= push.text
    <3>1. \E p \in Remembered : p >= push.text
      BY <2>3 DEF Survives
    <3>2. push.text # text
      BY <2>3, <1>3, <1>w
    <3>3. h # 0 => push.text > text
      BY <2>3, <3>2, <1>3, <1>16, <1>t
    <3> QED BY <2>1, <3>1, <3>3, <1>t
  <2> QED BY <1>1, <1>9, <2>2, <2>3 DEF Survives
<1>26. Told'
  <2>1. verdict'.event = w /\ verdict'.readable = readable
        /\ verdict'.own = (~readable \/ text \in Remembered)
    BY <1>2
  <2>2. ASSUME readable, text \in Remembered, w \notin mine PROVE Owed(text)'
    <3>1. CASE text \in unheard
      <4>1. text \in unheard'
        BY <3>1, <2>2, <1>18
      <4> QED BY <4>1 DEF Owed
    <3>2. CASE text \notin unheard
      <4>1. Cardinality(Copies(text)) <= Cardinality(Awaited(text)) + InFlight(text)
        BY <3>2, <1>3 DEF NotKept
      <4>2. Cardinality(Copies(text)) # 0
        <5>1. \E i \in 1 .. Len(pushes) : pushes[i] = text
          BY <2>2, <1>t
        <5> QED BY <5>1, <1>t, PlacesAreFinite DEF Copies
      <4>3. Cardinality(Awaited(text)) # 0 \/ InFlight(text) # 0
        <5>1. Cardinality(Copies(text)) \in Nat
          BY <1>3, <1>17
        <5> QED BY <4>1, <4>2, <5>1, <1>9
      <4>4. CASE InFlight(text) # 0
        <5>1. push.stage = "sent" /\ push.text = text
          BY <4>4 DEF InFlight
        <5> QED BY <5>1, <1>1 DEF Owed
      <4>5. CASE Cardinality(Awaited(text)) # 0
        <5>1. PICK v : v \in Awaited(text)
          BY <4>5, AwaitedAreFinite
        <5>2. v \in Coming' \cap mine /\ history[v] = text
          BY <5>1, <2>2, <1>5 DEF Awaited
        <5> QED BY <5>2, <1>1 DEF Owed, Coming
      <4> QED BY <4>3, <4>4, <4>5
    <3> QED BY <3>1, <3>2
  <2>3. ASSUME text \notin Remembered, w \in mine
        PROVE  text \in evicted \/ Shared(text)
    <3>1. SUFFICES ASSUME text \notin evicted, ~Shared(text) PROVE FALSE
      OBVIOUS
    <3>2. Cardinality(Awaited(text)) + InFlight(text) <= Cardinality(Copies(text))
      BY <3>1, <1>3 DEF NotForgotten
    <3>3. Cardinality(Copies(text)) = 0
      <4>1. \A i \in 1 .. Len(pushes) : pushes[i] # text
        BY <2>3, <1>t
      <4> QED BY <4>1, <1>t, PlacesAreFinite DEF Copies
    <3>4. Cardinality(Awaited(text)) # 0
      BY <2>3, <1>7, AwaitedAreFinite
    <3> QED BY <3>2, <3>3, <3>4, <1>8, <1>9
  <2>4. history'[w] = text
    BY <1>1, <1>w
  <2> QED BY <1>1, <1>9, <2>1, <2>2, <2>3, <2>4 DEF Told
<1> QED BY <1>19, <1>20, <1>21, <1>22, <1>23, <1>24, <1>25, <1>26
-----------------------------------------------------------------------------
LEMMA EchoInit == Init => EchoInv
<1> SUFFICES ASSUME Init PROVE EchoInv
  OBVIOUS
<1> USE NoteBodyAssumption
<1>1. /\ history = <<1>> /\ channel = <<>> /\ pushes = <<>> /\ mine = {} /\ unheard = {}
      /\ evicted = {} /\ queued = 0 /\ sent = 0 /\ gaps = 0 /\ body = 1 /\ socket = TRUE
      /\ current = FALSE /\ open = FALSE /\ asked = FALSE
      /\ push = NoPush /\ read = Idle /\ refresh = NoRefresh
      /\ verdict = [event |-> 0, own |-> FALSE, readable |-> TRUE]
      /\ loaded = FALSE /\ late = FALSE /\ waits = <<>>
  BY DEF Init
<1>2. Newest = 1 /\ history[1] = 1 /\ Len(channel) = 0 /\ Len(pushes) = 0
      /\ Coming = {} /\ Remembered = {}
  BY <1>1 DEF Newest, Coming, Remembered, ToSet
<1>3. push.stage = "idle" /\ push.version = 0 /\ read.stage = "idle" /\ refresh.stage = "idle"
      /\ verdict.event = 0
  BY <1>1 DEF NoPush, Idle, NoRefresh
<1>4. TypeOK
  <2>1. 1 \in Texts \ {0} /\ 0 \in Texts /\ 1 \in 1 .. MaxVersions /\ 0 \in 0 .. Newest
    BY <1>2 DEF Texts
  <2>2. history \in Seq(Texts \ {0}) /\ channel \in Seq(1 .. Newest) /\ pushes \in Seq(Texts \ {0})
    BY <1>1, <2>1
  <2>3. /\ push \in [stage : {"idle", "sent", "landed"}, text : Texts, version : 0 .. Newest]
        /\ read \in [stage : {"idle", "asked", "answered"}, version : 0 .. Newest, fresh : BOOLEAN]
        /\ refresh \in [stage : {"idle", "loading", "waiting", "asked", "answered"},
                        observed : Texts, version : 0 .. Newest]
        /\ verdict \in [event : 0 .. Newest, own : BOOLEAN, readable : BOOLEAN]
    BY <1>1, <2>1 DEF NoPush, Idle, NoRefresh
  <2>4. body \in 1 .. Newest /\ sent \in 0 .. MaxPushes /\ gaps \in 0 .. MaxGaps
    BY <1>1, <1>2
  <2>5. Newest \in 1 .. MaxVersions /\ Len(pushes) <= MaxPerItem /\ queued \in Texts
    BY <1>1, <1>2, <2>1
  <2>7. /\ socket \in BOOLEAN /\ open \in BOOLEAN /\ asked \in BOOLEAN /\ (asked => open)
        /\ (read.stage # "idle" => open) /\ current \in BOOLEAN
        /\ loaded \in BOOLEAN /\ late \in BOOLEAN
    BY <1>1, <1>3
  <2>8. waits \in Seq([version : 0 .. Newest, known : SUBSET (1 .. Newest)])
    BY <1>1, EmptySeq
  <2>6. mine \in SUBSET (1 .. Newest) /\ unheard \in SUBSET Texts /\ evicted \in SUBSET Texts
    BY <1>1
  <2> QED BY <2>2, <2>3, <2>4, <2>5, <2>6, <2>7, <2>8 DEF TypeOK
<1>5. Answered /\ Contiguous /\ Told
  BY <1>1, <1>2, <1>3 DEF Answered, Contiguous, Told
<1>6. Made = {}
  BY <1>1, <1>3 DEF Made
<1>7. Numbered /\ Floor /\ Survives
  BY <1>1, <1>2, <1>3, <1>6 DEF Numbered, Floor, Survives
<1>8. Origins
  BY <1>2 DEF Origins
<1>9. NotForgotten /\ NotKept
  <2>1. \A t : Awaited(t) = {} /\ Copies(t) = {} /\ InFlight(t) = 0
    BY <1>1, <1>2, <1>3 DEF Awaited, Copies, Places, InFlight
  <2>2. \A t : Cardinality(Awaited(t)) = 0 /\ Cardinality(Copies(t)) = 0 /\ InFlight(t) = 0
    BY <2>1, FS_EmptySet
  <2> QED BY <2>2 DEF NotForgotten, NotKept
<1> QED BY <1>4, <1>5, <1>7, <1>8, <1>9 DEF EchoInv, EchoParts

LEMMA EchoStep ==
  ASSUME EchoInv, [Next]_vars
  PROVE  EchoInv'
<1>1. TypeOK /\ Answered /\ Numbered
  BY DEF EchoInv, EchoParts
<1>2. TypeOK' /\ Answered'
  BY <1>1, EchoTypesStep, AnsweredStep
<1>3. EchoParts'
  <2>1. CASE RemoteEdit
    BY <2>1, EchoRemoteEdit
  <2>2. CASE PushLands
    BY <2>2, EchoPushLands
  <2>3. CASE Disconnect
    BY <2>3, EchoDisconnect
  <2>4. CASE PushReturns \/ PushFails
    BY <2>4, EchoPushEnds
  <2>5. CASE PassPushes
    BY <2>5, EchoPassPushes
  <2>6. CASE Deliver
    BY <2>6, EchoDeliver
  <2>7. CASE \/ Connect \/ Type \/ Open \/ Close \/ Refetch \/ ReadReads \/ ReadReturns \/ ReadFails
             \/ KeepMine \/ LoadTheirs
             \/ LoadEnds \/ LoadReturns \/ LoadReturnsOffline
             \/ RefreshAsks \/ RefreshReads \/ RefreshReturns \/ RefreshFails \/ UNCHANGED vars
    <3>1. UNCHANGED <<server, channel, pushes, unheard, evicted, push, sent, verdict>>
      BY <2>7 DEF Connect, Type, Open, Close, Refetch, ReadReads, ReadReturns, ReadFails,
           KeepMine, LoadTheirs, RefreshAsks, RefreshReads, RefreshReturns, RefreshFails,
           LoadEnds, LoadReturns, LoadReturnsOffline, vars,
           wire, echoes, outbox
    <3>2. socket' \in {socket, TRUE} /\ queued' \in {queued, 0, MyText}
      BY <2>7 DEF Connect, Type, Open, Close, Refetch, ReadReads, ReadReturns, ReadFails,
           KeepMine, LoadTheirs, RefreshAsks, RefreshReads, RefreshReturns, RefreshFails,
           LoadEnds, LoadReturns, LoadReturnsOffline, vars,
           wire, outbox
    <3> QED BY <3>1, <3>2, EchoFrame
  <2> QED BY <2>1, <2>2, <2>3, <2>4, <2>5, <2>6, <2>7 DEF Next
<1> QED BY <1>2, <1>3 DEF EchoInv

\* Whatever the order of reads, events, refreshes, pushes and gaps of the
\* socket, a note reopened without a read shows the server's text, unless an
\* event that had waited for the ledger put an older one there: for every
\* number of versions, pushes and gaps, any limit on the pushes remembered, and
\* every fault but "sameText" (useNoteContent.query.ts, notesOffline.ts).
THEOREM NoteBodyReopens ==
  ASSUME "sameText" \notin Faults
  PROVE  Spec => []ReopenIsCurrent
<1>1. EchoInv /\ [Next]_vars => EchoInv'
  BY EchoStep
<1>2. EchoInv /\ BodyInv /\ [Next]_vars => BodyInv'
  BY BodyStep DEF EchoInv
<1>3. BodyInv => ReopenIsCurrent
  BY BodyIsNewest
<1> QED BY <1>1, <1>2, <1>3, EchoInit, BodyInit, PTL DEF Spec

\* An event hidden from the editor as this device's own is of a text the device
\* pushed and has not heard since, and its own push is hidden unless another
\* device saved the text too or the limit dropped it: for every limit, number of
\* versions, pushes and gaps, and all the faults (remoteChange.ts, PushEchoes).
THEOREM NoteBodyEchoes == Spec => []EchoesAreOurs
<1>1. EchoInv => EchoesAreOurs
  BY DEF EchoInv, EchoParts, Told, EchoesAreOurs, Shared
<1>2. EchoInv /\ [Next]_vars => EchoInv'
  BY EchoStep
<1> QED BY <1>1, <1>2, EchoInit, PTL DEF Spec

\* A version newer than the delivered one still has its event on its way.
LEMMA StillComing ==
  ASSUME EchoInv, EchoInv', Deliver, NEW v \in 1 .. Newest, v > channel[1]
  PROVE  v \in Coming'
<1>1. /\ Len(channel) \in Nat /\ Len(channel) >= 1 /\ Len(channel') = Len(channel) - 1
      /\ Newest \in Nat
  BY DeliverIs, EchoTypes DEF Takes, EchoInv
<1>2. Newest' = Newest
  BY DEF Deliver, server, Newest
<1>3. channel[1] = Newest - Len(channel) + 1
  <2>1. 1 \in 1 .. Len(channel)
    BY <1>1
  <2> QED BY <2>1 DEF EchoInv, EchoParts, Contiguous
<1> DEFINE i == v - Newest + Len(channel')
<1>4. i \in 1 .. Len(channel')
  BY <1>1, <1>3
<1>5. channel'[i] = Newest - Len(channel') + i
  <2>1. \A k \in 1 .. Len(channel') : channel'[k] = Newest' - Len(channel') + k
    BY DEF EchoInv, EchoParts, Contiguous
  <2> HIDE DEF i
  <2> QED BY <2>1, <1>2, <1>4
<1>6. Newest - Len(channel') + i = v
  BY <1>1
<1>7. \A k \in 1 .. Len(channel') : channel'[k] \in Coming'
  <2>1. TypeOK'
    BY DEF EchoInv
  <2>2. channel' \in Seq(1 .. Newest')
    BY <2>1 DEF TypeOK
  <2> QED BY <2>2, LenProperties DEF Coming, ToSet
<1> QED BY <1>4, <1>5, <1>6, <1>7

\* An event's own text is taken when no push is left to be heard, so none of a
\* newer version that can be told apart is on its way.
LEMMA TakenIsNewest ==
  ASSUME EchoInv, EchoInv', Deliver, pushes' = <<>>, NEW v \in mine, ToldApart(v)
  PROVE  v <= channel[1]
<1> SUFFICES ASSUME v > channel[1] PROVE FALSE
  <2>1. v \in Nat /\ channel[1] \in Nat
    <3>1. v \in 1 .. Newest /\ Newest \in Nat
      BY EchoTypes DEF EchoInv
    <3>2. Len(channel) >= 1 /\ Len(channel) \in Nat
      BY DeliverIs, EchoTypes DEF Takes, EchoInv
    <3>3. 1 \in 1 .. Len(channel) /\ channel \in Seq(Nat)
      BY <3>2, EchoTypes DEF EchoInv
    <3> QED BY <3>1, <3>3, ElementOfSeq
  <2> QED BY <2>1
<1>1. v \in mine /\ v \in 1 .. Newest /\ ToldApart(v) /\ history[v] \in Nat
  BY EchoTypes DEF EchoInv
<1>2. UNCHANGED <<history, mine, evicted, push>> /\ Newest' = Newest
  BY DEF Deliver, server, outbox, Newest
<1>3. v \in Coming'
  BY <1>1, StillComing
<1>4. Remembered' = {} /\ \A t : Copies(t)' = {}
  <2>1. DOMAIN pushes' = {} /\ Len(pushes') = 0
    OBVIOUS
  <2> QED BY <2>1 DEF Remembered, Copies, Places, ToSet
<1>5. CASE \A u \in 1 .. Newest \ {v} : history[u] # history[v]
  <2>1. \E p \in Remembered' : p >= history[v]
    BY <1>1, <1>2, <1>3, <1>5 DEF EchoInv, EchoParts, Survives
  <2> QED BY <2>1, <1>4
<1>6. CASE \E u \in 1 .. Newest \ {v} : history[u] = history[v]
  <2>1. history[v] \notin evicted
    BY <1>1, <1>6 DEF ToldApart
  <2>2. ~Shared(history[v])
    BY <1>1 DEF ToldApart, Shared
  <2>3. PICK t \in Nat : t = history[v]
    BY <1>1
  <2>4. t \notin evicted' /\ ~Shared(t)'
    BY <2>1, <2>2, <2>3, <1>2 DEF Shared
  <2>5. Cardinality(Awaited(t)') + InFlight(t)' <= Cardinality(Copies(t)')
    BY <2>4 DEF EchoInv, EchoParts, NotForgotten
  <2>6. Cardinality(Copies(t)') = 0
    BY <1>4, FS_EmptySet
  <2>7. Cardinality(Awaited(t)') \in Nat /\ Cardinality(Awaited(t)') # 0
    <3>1. v \in Awaited(t)'
      BY <1>1, <1>2, <1>3, <2>3 DEF Awaited
    <3>2. IsFiniteSet(Awaited(t)')
      <4>1. Awaited(t)' \subseteq 1 .. Newest
        BY <1>2, EchoTypes DEF Awaited, EchoInv
      <4>2. IsFiniteSet(1 .. Newest)
        BY EchoTypes, FS_Interval DEF EchoInv
      <4> QED BY <4>1, <4>2, FS_Subset
    <3> QED BY <3>1, <3>2, FS_CardinalityType, FS_EmptySet
  <2>8. InFlight(t)' \in Nat
    BY DEF InFlight
  <2> QED BY <2>5, <2>6, <2>7, <2>8
<1> QED BY <1>5, <1>6

\* An event that waits came after the echoes of the pushes it knows, of those
\* that can be told apart.
WaitsKnow ==
  \A i \in 1 .. Len(waits) : waits[i].version # 0 =>
    \A v \in waits[i].known : ToldApart(v) => v <= waits[i].version

\* An echo that can be told apart after a step could be before it.
LEMMA ToldApartStays ==
  ASSUME TypeOK, TypeOK', [Next]_vars, NEW v \in 1 .. Newest, ToldApart(v)'
  PROVE  ToldApart(v)
<1> USE DEF server, echoes
<1>t. /\ Newest \in Nat /\ mine \subseteq 1 .. Newest
      /\ history \in Seq(Nat) /\ push.text \in Nat
      /\ ToSet(history) \subseteq Nat
  BY EchoTypes
<1>1. ASSUME NEW text \in Nat, history' = Append(history, text)
      PROVE  Newest' = Newest + 1 /\ \A w \in 1 .. Newest : history'[w] = history[w]
  BY <1>1, <1>t, AppendProperties DEF Newest
<1>2. /\ Newest' >= Newest /\ \A w \in 1 .. Newest : history'[w] = history[w]
      /\ \A w \in 1 .. Newest : w \in mine' => w \in mine
      /\ evicted \subseteq evicted'
  <2>1. CASE RemoteEdit
    <3>1. PICK text \in {TheirText} \cup ToSet(history) : Lands(text)
      BY <2>1 DEF RemoteEdit
    <3>2. text \in Nat /\ history' = Append(history, text)
      BY <3>1, <1>t DEF TheirText, Lands
    <3>3. mine' = mine /\ evicted' = evicted
      BY <2>1 DEF RemoteEdit
    <3>4. Newest' = Newest + 1 /\ \A w \in 1 .. Newest : history'[w] = history[w]
      BY <1>1, <3>2, Zenon
    <3> QED BY <1>t, <3>3, <3>4
  <2>2. CASE PushLands
    <3>1. history' = Append(history, push.text)
      BY <2>2 DEF PushLands, Lands
    <3>2. mine' = mine \cup {Newest + 1} /\ evicted' = evicted
      BY <2>2 DEF PushLands
    <3>3. Newest' = Newest + 1 /\ \A w \in 1 .. Newest : history'[w] = history[w]
      BY <1>1, <1>t, <3>1, Zenon
    <3> QED BY <1>t, <3>2, <3>3
  <2>3. CASE PassPushes
    <3>1. UNCHANGED <<history, mine>> /\ evicted \subseteq evicted'
      BY <2>3 DEF PassPushes, Remember
    <3>2. Newest' = Newest
      BY <3>1 DEF Newest
    <3> QED BY <3>1, <3>2, <1>t
  <2>4. CASE ~(RemoteEdit \/ PushLands \/ PassPushes)
    <3>1. UNCHANGED <<history, mine, evicted>>
      BY <2>4
         DEF Next, Disconnect, Connect, Deliver, Type, PushReturns, PushFails, Open, Close, Refetch,
             ReadReads, ReadReturns, ReadFails, KeepMine, LoadTheirs, LoadEnds, LoadReturns,
             LoadReturnsOffline, RefreshAsks, RefreshReads, RefreshReturns, RefreshFails, vars
    <3>2. Newest' = Newest
      BY <3>1 DEF Newest
    <3> QED BY <3>1, <3>2, <1>t
  <2> QED BY <2>1, <2>2, <2>3, <2>4
<1>3. ASSUME NEW w \in 1 .. Newest \ {v}, history[w] = history[v]
      PROVE  w \in mine /\ history[v] \notin evicted
  <2>1. w \in 1 .. Newest' \ {v}
    <3>1. Newest' \in 1 .. MaxVersions /\ MaxVersions \in Nat
      BY NoteBodyAssumption DEF TypeOK
    <3> QED BY <1>t, <1>2, <3>1
  <2>2. history'[w] = history'[v] /\ history'[v] = history[v]
    BY <1>2, <1>3
  <2> QED BY <1>2, <2>1, <2>2 DEF ToldApart
<1> QED BY <1>3 DEF ToldApart

\* What a step leaves of the calls that wait, and what a delivered event adds.
LEMMA WaitsAre ==
  ASSUME TypeOK, [Next]_vars
  PROVE  /\ Len(waits) \in Nat /\ Len(waits') \in Nat
         /\ \A i \in 1 .. Len(waits) : waits[i].known \subseteq 1 .. Newest
         /\ waits # <<>> => 1 \in 1 .. Len(waits) /\ Head(waits) = waits[1]
         /\ \A i \in 1 .. Len(waits') :
              \/ \E j \in 1 .. Len(waits) : waits'[i] = waits[j]
              \/ waits'[i] = Fetch
              \/ Deliver /\ pushes' = <<>> /\ waits'[i] = Event(channel[1])
<1> DEFINE Call == [version : 0 .. Newest, known : SUBSET (1 .. Newest)]
<1>1. waits \in Seq(Call)
  BY DEF TypeOK
<1>2. Len(waits) \in Nat /\ \A i \in 1 .. Len(waits) : waits[i] \in Call
  BY <1>1, LenProperties, ElementOfSeq
<1>3. \A i \in 1 .. Len(waits) : waits[i].known \subseteq 1 .. Newest
  BY <1>2
<1> HIDE DEF Call
<1>4. waits # <<>> =>
        /\ Len(waits) >= 1 /\ Head(waits) = waits[1]
        /\ Len(Tail(waits)) = Len(waits) - 1
        /\ \A i \in 1 .. Len(Tail(waits)) : Tail(waits)[i] = waits[i + 1]
  BY <1>1, <1>2, HeadTailProperties, EmptySeq, LenProperties
<1>5. CASE waits' = waits
  BY <1>2, <1>3, <1>4, <1>5
<1>6. CASE waits # <<>> /\ waits' = Tail(waits)
  <2>1. \A i \in 1 .. Len(waits') : i + 1 \in 1 .. Len(waits) /\ waits'[i] = waits[i + 1]
    BY <1>2, <1>4, <1>6
  <2> QED BY <1>2, <1>3, <1>4, <1>6, <2>1
<1>7. ASSUME NEW e, waits' = Append(waits, e),
             e = Fetch \/ (Deliver /\ pushes' = <<>> /\ e = Event(channel[1]))
      PROVE  /\ Len(waits') \in Nat
             /\ \A i \in 1 .. Len(waits') :
                  (\E j \in 1 .. Len(waits) : waits'[i] = waits[j]) \/ waits'[i] = e
  <2> DEFINE Calls == Call \cup {e}
  <2>1. waits \in Seq(Calls) /\ e \in Calls
    BY <1>1, SeqMonotonic
  <2> HIDE DEF Calls
  <2>2. /\ Len(waits') = Len(waits) + 1 /\ waits'[Len(waits) + 1] = e
        /\ \A i \in 1 .. Len(waits) : waits'[i] = waits[i]
    BY <1>7, <2>1, AppendProperties
  <2>3. \A i \in 1 .. Len(waits') : i \in 1 .. Len(waits) \/ i = Len(waits) + 1
    BY <1>2, <2>2
  <2> QED BY <1>2, <2>2, <2>3
<1>8. CASE Deliver
  <2>1. Head(channel) = channel[1]
    BY <1>8 DEF Deliver
  <2>2. \/ waits' \in {waits, Append(waits, Fetch)}
        \/ pushes' = <<>> /\ waits' = Append(waits, Event(channel[1]))
    BY <1>8, <2>1 DEF Deliver, Refreshes, TakesEvent
  <2>3. CASE waits' = Append(waits, Fetch)
    BY <1>2, <1>3, <1>4, <1>7, <2>3
  <2>4. CASE pushes' = <<>> /\ waits' = Append(waits, Event(channel[1]))
    BY <1>2, <1>3, <1>4, <1>7, <1>8, <2>4
  <2> QED BY <1>5, <2>2, <2>3, <2>4
<1>9. CASE ~Deliver
  <2>1. waits' = waits \/ (waits # <<>> /\ waits' = Tail(waits))
    BY <1>9
       DEF Next, RemoteEdit, Disconnect, Connect, Type, PassPushes, PushLands, PushReturns, PushFails,
           Open, Close, Refetch, ReadReads, ReadReturns, ReadFails, KeepMine, LoadTheirs, LoadEnds,
           LoadReturns, LoadReturnsOffline, RefreshAsks, RefreshReads, RefreshReturns, RefreshFails,
           vars, refreshing, ledger
  <2> QED BY <1>5, <1>6, <2>1
<1> QED BY <1>8, <1>9

LEMMA WaitsKnowStep ==
  ASSUME EchoInv, EchoInv', WaitsKnow, [Next]_vars
  PROVE  WaitsKnow'
<1>t. TypeOK /\ TypeOK'
  BY DEF EchoInv
<1> SUFFICES ASSUME NEW i \in 1 .. Len(waits'), waits'[i].version # 0,
                    NEW v \in waits'[i].known, ToldApart(v)'
             PROVE  v <= waits'[i].version
  BY DEF WaitsKnow
<1>1. ASSUME NEW j \in 1 .. Len(waits), waits'[i] = waits[j]
      PROVE  v <= waits'[i].version
  <2>1. v \in 1 .. Newest
    BY <1>t, <1>1, WaitsAre
  <2>2. ToldApart(v)
    BY <1>t, <2>1, ToldApartStays
  <2> QED BY <1>1, <2>2 DEF WaitsKnow
<1>2. waits'[i] # Fetch
  BY DEF Fetch
<1>3. CASE Deliver /\ pushes' = <<>> /\ waits'[i] = Event(channel[1])
  <2>1. v \in mine /\ waits'[i].version = channel[1]
    BY <1>3 DEF Event
  <2>2. ToldApart(v)
    BY <1>t, <2>1, ToldApartStays, EchoTypes
  <2> QED BY <1>3, <2>1, <2>2, TakenIsNewest
<1> QED BY <1>t, <1>1, <1>2, <1>3, WaitsAre

LEMMA PushStaysStep ==
  ASSUME EchoInv, EchoInv', BodyInv, WaitsKnow, "sameText" \notin Faults, [Next]_vars,
         ~open, \A v \in Confirmed : v <= body
  PROVE  \A v \in Confirmed : v <= body' \/ OutwaitedBy(v)
<1>1. CASE UNCHANGED body
  BY <1>1
<1>2. CASE PushReturns
  BY <1>2 DEF PushReturns, EchoInv, Answered, Confirmed
<1>3. CASE ReadReturns
  BY <1>3 DEF ReadReturns, EchoInv, TypeOK
<1>4. CASE RefreshReturns
  <2>1. body' = body \/ (body' = refresh.version /\ history[body] = refresh.observed)
    BY <1>4 DEF RefreshReturns, Commit, MayCommit
  <2>2. /\ body \in 1 .. Newest /\ Newest \in Nat
        /\ body' = refresh.version => refresh.version \in 1 .. Newest
    BY <1>4, EchoTypes DEF RefreshReturns, EchoInv, TypeOK, Answered
  <2>3. body' >= body /\ body' \in Nat
    BY <1>4, <2>1, <2>2 DEF RefreshReturns, BodyInv, RefreshIsNewest
  <2>4. \A v \in Confirmed : v \in Nat
    BY EchoTypes DEF Confirmed, EchoInv
  <2> QED BY <2>2, <2>3, <2>4
<1>5. CASE Deliver
  <2>1. body' = body \/ (pushes' = <<>> /\ body' = channel[1])
    <3>1. Head(channel) = channel[1]
      BY <1>5 DEF Deliver
    <3>2. PICK readable \in BOOLEAN :
            \E left : pushes' = left /\ Refreshes(channel[1], readable, left)
      BY <1>5, <3>1 DEF Deliver
    <3> QED BY <3>2 DEF Refreshes, TakesEvent, Commit
  <2> QED BY <1>5, <2>1, TakenIsNewest DEF Confirmed
<1>6. CASE LoadReturns
  <2>1. /\ waits # <<>> /\ waits' = Tail(waits)
        /\ body' = body \/ (Head(waits).version # 0 /\ body' = Head(waits).version)
    BY <1>6 DEF LoadReturns, Commit
  <2>2. ASSUME Head(waits).version # 0, NEW v \in Confirmed, v \in Head(waits).known
        PROVE  v <= Head(waits).version
    <3>1. 1 \in 1 .. Len(waits) /\ Head(waits) = waits[1]
      BY <2>1, WaitsAre DEF EchoInv
    <3> QED BY <2>2, <3>1 DEF WaitsKnow, Confirmed
  <2> QED BY <2>1, <2>2 DEF OutwaitedBy
<1> QED
  BY <1>1, <1>2, <1>3, <1>4, <1>5, <1>6
     DEF Next, RemoteEdit, Disconnect, Connect, Type, PassPushes, PushLands, PushFails, Open, Close,
         Refetch, ReadReads, ReadFails, KeepMine, LoadTheirs, RefreshAsks, RefreshReads,
         RefreshFails, LoadEnds, LoadReturnsOffline, vars, cached

\* A note that is not on screen never goes back behind a confirmed push whose echo
\* can be told apart, in whatever order edits, pushes, their echoes, lost answers,
\* gaps and refreshes come, but by an event announced before the push that had to
\* wait for the ledger: for every limit, number of versions, pushes and gaps, and
\* every fault but "sameText" (notesOffline.ts, refreshAfterRemoteEdit).
THEOREM NoteBodyPushStays ==
  ASSUME "sameText" \notin Faults
  PROVE  Spec => PushStays
<1>1. EchoInv /\ [Next]_vars => EchoInv'
  BY EchoStep
<1>2. EchoInv /\ BodyInv /\ [Next]_vars => BodyInv'
  BY BodyStep DEF EchoInv
<1>3. EchoInv /\ EchoInv' /\ WaitsKnow /\ [Next]_vars => WaitsKnow'
  BY WaitsKnowStep
<1>4. Init => WaitsKnow
  BY DEF Init, WaitsKnow
<1>5. EchoInv /\ EchoInv' /\ BodyInv /\ WaitsKnow /\ [Next]_vars =>
        [~open /\ ~open' /\ (\A v \in Confirmed : v <= body) =>
           \A v \in Confirmed : v <= body' \/ OutwaitedBy(v)]_vars
  BY PushStaysStep
<1> QED BY <1>1, <1>2, <1>3, <1>4, <1>5, EchoInit, BodyInit, PTL DEF Spec, PushStays
=============================================================================
