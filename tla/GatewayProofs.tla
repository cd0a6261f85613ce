----------------------------- MODULE GatewayProofs -----------------------------
(***************************************************************************)
(* The gateway's two halves, for any constants: the live room of a page    *)
(* (LiveRoom), whatever is cut, restarted or answered late, and the limit  *)
(* on what comes in (RateLimiter), for any keys, limit and window.         *)
(***************************************************************************)
EXTENDS LiveRoom, RateLimiter, FiniteSetTheorems, TLAPS

-----------------------------------------------------------------------------
(* The live room.                                                          *)

\* What the inboxes, the publications and the sockets may hold.
Message == [kind : {"ready", "snapshot", "error", "room"}, at : Snapshots, seq : Nat]
Inboxes == [Sockets -> Seq(Message)]
Publication == [step : {"idle", "due", "loaded"}, at : Snapshots]
Socket ==
  [wire : {"none", "open", "closing", "down"}, known : BOOLEAN,
   tagged : BOOLEAN, attached : BOOLEAN, scanned : BOOLEAN,
   failed : BOOLEAN, job : {"none", "loaded", "marking"}, snap : Snapshots]

RowOK ==
  /\ room \in Snapshots
  /\ conn \in {"CONNECTED", "DISCONNECTED", "LEFT"} /\ left \in BOOLEAN

HubOK == seq \in Nat /\ direct \in Nat

PubOK == pub \in [Publishers -> Publication]

\* The hub keeps no socket the gateway has forgotten.
SocketOK(c) == c \in Socket /\ (c.attached => c.known /\ c.tagged)
LinkOK == link \in [Sockets -> Socket] /\ \A s \in Sockets : SocketOK(link[s])

\* The screen is never ahead of the cursor.
ScreenOK ==
  /\ shown \in Snapshots
  /\ cursor \in [version : 0..(1 + MaxWork), seq : Nat,
                 from : {"none", "http", "direct", "hub"}]
  /\ shown.version <= cursor.version

PageOK ==
  page \in [up : BOOLEAN, member : BOOLEAN, timer : BOOLEAN,
            beats : BOOLEAN, sock : {0} \union Sockets]

CallOK ==
  call \in [kind : {"none", "hydrate", "leave"},
            step : {"none", "asked", "reply"}, at : Snapshots]

\* Every version and every resolved round was paid for by work; a leave on
\* its way has paid for the version it will write.
Leaving(c) == IF c.kind = "leave" /\ c.step = "asked" THEN 1 ELSE 0

Paid ==
  /\ work \in 0..MaxWork
  /\ room.version + Leaving(call) <= 1 + work
  /\ room.news <= work

LiveInv ==
  /\ RowOK /\ HubOK /\ PubOK /\ LinkOK /\ ScreenOK /\ PageOK /\ CallOK
  /\ inbox \in Inboxes /\ Paid

\* What a step leaves alone stays as it should be.
LEMMA LeftAlone ==
  ASSUME LiveInv
  PROVE  /\ UNCHANGED rowVars => RowOK'
         /\ UNCHANGED hubVars => HubOK'
         /\ UNCHANGED pub => PubOK'
         /\ UNCHANGED link => LinkOK'
         /\ UNCHANGED <<shown, cursor>> => ScreenOK'
         /\ UNCHANGED page => PageOK'
         /\ UNCHANGED call => CallOK'
         /\ UNCHANGED inbox => inbox' \in Inboxes
         /\ UNCHANGED <<room, call, work>> => Paid'
<1>1. UNCHANGED rowVars => RowOK'
  BY DEF LiveInv, rowVars, RowOK, Snapshots
<1>2. UNCHANGED hubVars => HubOK'
  BY DEF LiveInv, hubVars, HubOK
<1>3. UNCHANGED pub => PubOK'
  BY DEF LiveInv, PubOK, Publication, Snapshots
<1>4. UNCHANGED link => LinkOK'
  BY DEF LiveInv, LinkOK, SocketOK, Socket, Snapshots
<1>5. UNCHANGED <<shown, cursor>> => ScreenOK'
  BY DEF LiveInv, ScreenOK, Snapshots
<1>6. UNCHANGED page => PageOK'
  BY DEF LiveInv, PageOK, Sockets
<1>7. UNCHANGED call => CallOK'
  BY DEF LiveInv, CallOK, Snapshots
<1>8. UNCHANGED inbox => inbox' \in Inboxes
  BY DEF LiveInv, Inboxes, Sockets, Message, Snapshots
<1>9. UNCHANGED <<room, call, work>> => Paid'
  BY DEF LiveInv, Paid, Leaving
<1> QED BY <1>1, <1>2, <1>3, <1>4, <1>5, <1>6, <1>7, <1>8, <1>9

LEMMA BlankIsSnapshot == ASSUME LiveAssumption PROVE Blank \in Snapshots
BY DEF LiveAssumption, Blank, Snapshots

\* A message is well formed when its snapshot is.
LEMMA EventIsMessage ==
  ASSUME NEW k \in {"ready", "snapshot", "error", "room"}, NEW at \in Snapshots, NEW n \in Nat
  PROVE  Event(k, at, n) \in Message
BY DEF Event, Message

\* What is sent, and what is handled, leaves messages in the inboxes.
LEMMA InboxesKept ==
  ASSUME inbox \in Inboxes, NEW s \in Sockets, NEW e \in Message
  PROVE  /\ Posted(s, e) \in Inboxes
         /\ [inbox EXCEPT ![s] = <<>>] \in Inboxes
         /\ [inbox EXCEPT ![s] = <<e>>] \in Inboxes
         /\ inbox[s] # <<>> =>
              [inbox EXCEPT ![s] = Append(Tail(@), e)] \in Inboxes
<1>1. \A t \in Sockets : inbox[t] \in Seq(Message) /\ Append(inbox[t], e) \in Seq(Message)
  BY DEF Inboxes
<1>2. <<>> \in Seq(Message) /\ <<e>> \in Seq(Message)
  OBVIOUS
<1>3. inbox[s] # <<>> =>
        Append(Tail(inbox[s]), e) \in Seq(Message)
  BY <1>1
<1> QED BY <1>1, <1>2, <1>3 DEF Posted, Inboxes

LEMMA PublishedKept ==
  ASSUME inbox \in Inboxes, NEW e \in Message
  PROVE  Published(e) \in Inboxes
<1>1. \A t \in Sockets : inbox[t] \in Seq(Message) /\ Append(inbox[t], e) \in Seq(Message)
  BY DEF Inboxes
<1> QED BY <1>1 DEF Published, Inboxes

LEMMA InboxMessage ==
  ASSUME inbox \in Inboxes, NEW s \in Sockets, inbox[s] # <<>>
  PROVE  /\ Head(inbox[s]) \in Message
         /\ [inbox EXCEPT ![s] = Tail(@)] \in Inboxes
<1>1. inbox[s] \in Seq(Message)
  BY DEF Inboxes
<1>2. Tail(inbox[s]) \in Seq(Message) /\ Head(inbox[s]) \in Message
  BY <1>1
<1> QED BY <1>2 DEF Inboxes

\* The conjunct of TypeOK about inboxes follows from theirs.
LEMMA InboxTyped ==
  ASSUME NEW f \in Inboxes
  PROVE  \A s \in Sockets : \A i \in DOMAIN f[s] : f[s][i].at \in Snapshots
<1>1. \A s \in Sockets : f[s] \in Seq(Message)
  BY DEF Inboxes
<1>2. ASSUME NEW s \in Sockets, NEW i \in DOMAIN f[s] PROVE f[s][i] \in Message
  BY <1>1
<1> QED BY <1>2 DEF Message

\* One more version, or one more resolved round, is still a snapshot.
LEMMA WorkPays ==
  ASSUME LiveInv, LiveAssumption, Works
  PROVE  /\ work \in Nat /\ work' = work + 1 /\ work' \in 0..MaxWork
         /\ room = [version |-> room.version, news |-> room.news]
         /\ room.version \in Nat /\ room.news \in Nat /\ Leaving(call) \in {0, 1}
         /\ room.version + Leaving(call) <= 1 + work /\ room.news <= work
         /\ [version |-> room.version + 1, news |-> room.news] \in Snapshots
         /\ [version |-> room.version, news |-> room.news + 1] \in Snapshots
<1>1. /\ MaxWork \in Nat /\ work \in 0..MaxWork /\ work < MaxWork /\ work' = work + 1
      /\ room.version + Leaving(call) <= 1 + work /\ room.news <= work
      /\ room \in Snapshots
  BY DEF LiveInv, Paid, LiveAssumption, Works, RowOK
<1>2. room.version \in 0..(1 + MaxWork) /\ room.news \in 0..MaxWork /\ Leaving(call) \in {0, 1}
  BY <1>1 DEF Snapshots, Leaving
<1>3. room.version + 1 \in 0..(1 + MaxWork) /\ room.news + 1 \in 0..MaxWork
  BY <1>1, <1>2
<1> QED BY <1>1, <1>2, <1>3 DEF Snapshots

\* A publication begins, is loaded, or ends.
LEMMA PubKept ==
  ASSUME LiveInv, NEW q \in Publishers, NEW at \in Snapshots
  PROVE  /\ StartPublish(q) => PubOK'
         /\ [pub EXCEPT ![q] = [step |-> "loaded", at |-> at]] \in [Publishers -> Publication]
         /\ [pub EXCEPT ![q] = [step |-> "idle", at |-> at]] \in [Publishers -> Publication]
         /\ pub[q].at \in Snapshots
BY DEF StartPublish, LiveInv, PubOK, Publication

\* Steps of the room and its publications.
LEMMA PublishHolds ==
  ASSUME LiveInv, LiveAssumption, NEW q \in Publishers,
         Publish(q) \/ OthersCommit(q) \/ RoundResolved(q)
  PROVE  LiveInv'
<1>0. Blank \in Snapshots /\ room \in Snapshots /\ pub[q].at \in Snapshots
  BY BlankIsSnapshot, PubKept DEF LiveInv, RowOK
<1>1. CASE PublishLoad(q)
  <2>1. PubOK'
    BY <1>0, <1>1, PubKept DEF PublishLoad, PubOK, Publication, Snapshots
  <2> QED BY <1>1, <2>1, LeftAlone DEF PublishLoad, LiveInv, rowVars, pageVars
<1>2. CASE PublishSend(q)
  <2>1. PubOK'
    BY <1>0, <1>2, PubKept DEF PublishSend, PubOK, Idle, Publication, Snapshots
  <2>2. seq + 2 \in Nat /\ HubOK'
    BY <1>2 DEF PublishSend, LiveInv, HubOK
  <2>3. PICK e : e = Event("room", pub[q].at, seq + 2)
    OBVIOUS
  <2>4. e \in Message
    BY <1>0, <2>2, <2>3, EventIsMessage
  <2>5. inbox' = Published(e)
    BY <1>2, <2>3 DEF PublishSend
  <2>6. inbox' \in Inboxes
    BY <2>4, <2>5, PublishedKept DEF LiveInv
  <2> QED BY <1>2, <2>1, <2>2, <2>6, LeftAlone DEF PublishSend, LiveInv, rowVars, pageVars
<1>3. CASE OthersCommit(q)
  <2>1. PubOK'
    BY <1>0, <1>3, PubKept DEF OthersCommit
  <2>2. room' = [version |-> room.version + 1, news |-> room.news] /\ Works
    BY <1>0, <1>3 DEF OthersCommit, Snapshots
  <2>3. RowOK'
    BY <1>3, <2>2, WorkPays DEF OthersCommit, LiveInv, RowOK, Snapshots
  <2>4. Paid'
    <3>1. call' = call
      BY <1>3 DEF OthersCommit
    <3> QED BY <2>2, <3>1, WorkPays DEF Paid, Leaving
  <2> QED BY <1>3, <2>1, <2>3, <2>4, LeftAlone DEF OthersCommit, LiveInv, pageVars
<1>4. CASE RoundResolved(q)
  <2>1. PubOK'
    BY <1>0, <1>4, PubKept DEF RoundResolved
  <2>2. room' = [version |-> room.version, news |-> room.news + 1] /\ Works
    BY <1>0, <1>4 DEF RoundResolved, Snapshots
  <2>3. RowOK'
    BY <1>4, <2>2, WorkPays DEF RoundResolved, LiveInv, RowOK, Snapshots
  <2>4. Paid'
    <3>1. call' = call
      BY <1>4 DEF RoundResolved
    <3> QED BY <2>2, <3>1, WorkPays DEF Paid, Leaving
  <2> QED BY <1>4, <2>1, <2>3, <2>4, LeftAlone DEF RoundResolved, LiveInv, pageVars
<1> QED BY <1>1, <1>2, <1>3, <1>4 DEF Publish

LEMMA OthersDirectHolds == ASSUME LiveInv, LiveAssumption, OthersDirect PROVE LiveInv'
<1>1. Paid'
  <2>1. call' = call /\ room' = room /\ Works
    BY DEF OthersDirect, rowVars
  <2> QED BY <2>1, WorkPays DEF Paid, Leaving
<1>2. HubOK'
  BY DEF OthersDirect, LiveInv, HubOK
<1> QED BY <1>1, <1>2, LeftAlone DEF OthersDirect, LiveInv, rowVars, pageVars

\* One socket changes.
LEMMA LinkBecomes ==
  ASSUME LiveInv, NEW s \in Sockets, NEW c, SocketOK(c), link' = [link EXCEPT ![s] = c]
  PROVE  LinkOK'
<1>1. link' \in [Sockets -> Socket] /\ \A t \in Sockets : SocketOK(link'[t])
  BY DEF LiveInv, LinkOK, SocketOK
<1> QED BY <1>1 DEF LinkOK, SocketOK, Socket, Sockets, Snapshots

LEMMA SocketIs ==
  ASSUME LiveInv, NEW s \in Sockets
  PROVE  SocketOK(link[s]) /\ link[s].snap \in Snapshots
BY DEF LiveInv, LinkOK, SocketOK, Socket

\* The gateway's handlers.
LEMMA GatewayHolds ==
  ASSUME LiveInv, LiveAssumption, NEW s \in Sockets, Gateway(s)
  PROVE  LiveInv'
<1>0. /\ SocketOK(link[s]) /\ link[s].snap \in Snapshots
      /\ Blank \in Snapshots /\ direct \in Nat
  BY SocketIs, BlankIsSnapshot DEF LiveInv, HubOK
<1>1. CASE SubscribeAttach(s)
  <2>1. PICK c : c = [link[s] EXCEPT !.job = "marking", !.tagged = TRUE,
                                     !.attached = @ \/ link[s].known]
    OBVIOUS
  <2>2. SocketOK(c)
    BY <1>0, <2>1 DEF SocketOK, Socket
  <2>3. link' = [link EXCEPT ![s] = c]
    BY <1>1, <2>1 DEF SubscribeAttach, AttachTo
  <2>4. LinkOK'
    BY <2>2, <2>3, LinkBecomes
  <2> QED BY <1>1, <2>4, LeftAlone DEF SubscribeAttach, LiveInv, rowVars, pageVars
<1>2. CASE SubscribeMark(s)
  <2>1. PICK c : c = [link[s] EXCEPT !.job = "none", !.snap = Blank]
    OBVIOUS
  <2>2. SocketOK(c)
    BY <1>0, <2>1 DEF SocketOK, Socket
  <2>3. link' = [link EXCEPT ![s] = c]
    BY <1>2, <2>1 DEF SubscribeMark
  <2>4. LinkOK'
    BY <2>2, <2>3, LinkBecomes
  <2>5. PICK e : e = Event("snapshot", link[s].snap, direct + 1)
    OBVIOUS
  <2>6. e \in Message
    BY <1>0, <2>5, EventIsMessage
  <2>7. inbox' = Posted(s, e) /\ direct' = direct + 1 /\ seq' = seq
    BY <1>2, <2>5 DEF SubscribeMark, SendDirect
  <2>8. inbox' \in Inboxes
    BY <2>6, <2>7, InboxesKept DEF LiveInv
  <2>9. HubOK'
    BY <2>7 DEF LiveInv, HubOK
  <2>10. RowOK'
    BY <1>2 DEF SubscribeMark, LiveInv, RowOK, Snapshots
  <2> QED BY <1>2, <2>4, <2>8, <2>9, <2>10, LeftAlone DEF SubscribeMark, LiveInv, pageVars
<1>3. CASE ScanClose(s)
  <2>1. PICK c : c = [link[s] EXCEPT !.wire = "closing"]
    OBVIOUS
  <2>2. SocketOK(c)
    BY <1>0, <2>1 DEF SocketOK, Socket
  <2>3. link' = [link EXCEPT ![s] = c]
    BY <1>3, <2>1 DEF ScanClose
  <2>4. LinkOK'
    BY <2>2, <2>3, LinkBecomes
  <2> QED BY <1>3, <2>4, LeftAlone DEF ScanClose, LiveInv, rowVars, pageVars
<1>4. CASE HandleClosed(s)
  <2>1. PICK c : c = [link[s] EXCEPT !.known = FALSE, !.attached = FALSE,
                                     !.scanned = link[s].tagged]
    OBVIOUS
  <2>2. SocketOK(c)
    BY <1>0, <2>1 DEF SocketOK, Socket
  <2>3. link' = [link EXCEPT ![s] = c]
    BY <1>0, <1>4, <2>1 DEF HandleClosed, Unregistered, SocketOK, Socket
  <2>4. LinkOK'
    BY <2>2, <2>3, LinkBecomes
  <2> QED BY <1>4, <2>4, LeftAlone DEF HandleClosed, LiveInv, rowVars, pageVars
<1>5. CASE \E q \in Publishers : MarkDisconnected(s, q)
  <2>0. PICK q \in Publishers : MarkDisconnected(s, q)
    BY <1>5
  <2>1. PICK c : c = [link[s] EXCEPT !.scanned = FALSE]
    OBVIOUS
  <2>2. SocketOK(c)
    BY <1>0, <2>1 DEF SocketOK, Socket
  <2>3. link' = [link EXCEPT ![s] = c]
    BY <2>0, <2>1 DEF MarkDisconnected
  <2>4. LinkOK'
    BY <2>2, <2>3, LinkBecomes
  <2>5. PubOK'
    BY <1>0, <2>0, PubKept DEF MarkDisconnected
  <2>6. RowOK'
    BY <2>0 DEF MarkDisconnected, LiveInv, RowOK, Snapshots
  <2> QED BY <2>0, <2>4, <2>5, <2>6, LeftAlone DEF MarkDisconnected, LiveInv, pageVars
<1> QED BY <1>1, <1>2, <1>3, <1>4, <1>5 DEF Gateway

\* The tick of a page that is in the room.
LEMMA HeartbeatHolds ==
  ASSUME LiveInv, NEW s \in Sockets, Heartbeat(s)
  PROVE  LiveInv'
<1>1. RowOK'
  BY DEF Heartbeat, Beaten, LiveInv, RowOK, Snapshots
<1> QED BY <1>1, LeftAlone DEF Heartbeat, LiveInv, pageVars

\* Sockets are lost, the scanner gives one up, or the process restarts.
LEMMA FaultHolds ==
  ASSUME LiveInv, LiveAssumption, Fault, ~CloseTab
  PROVE  LiveInv'
<1>0. Blank \in Snapshots
  BY BlankIsSnapshot
<1>1. CASE Restart
  <2>1. PubOK'
    <3>1. pub' \in [Publishers -> Publication]
      BY <1>0, <1>1 DEF Restart, Idle, Publication
    <3> QED BY <3>1 DEF PubOK, Publication, Snapshots
  <2>2. LinkOK'
    <3>1. \A s \in Sockets :
            link'[s] = Unused \/ link'[s] = [Unused EXCEPT !.wire = "down"]
      BY <1>1 DEF Restart
    <3>2. SocketOK(Unused) /\ SocketOK([Unused EXCEPT !.wire = "down"])
      BY <1>0 DEF SocketOK, Socket, Unused
    <3>3. \A s \in Sockets : SocketOK(link'[s])
      BY <3>1, <3>2
    <3>4. link' \in [Sockets -> Socket]
      BY <1>1, <3>3 DEF Restart, SocketOK
    <3> QED BY <3>3, <3>4 DEF LinkOK, SocketOK, Socket, Sockets, Snapshots
  <2>3. inbox' \in Inboxes
    BY <1>1 DEF Restart, Inboxes
  <2>4. CallOK'
    BY <1>0, <1>1 DEF Restart, NoCall, CallOK, Snapshots
  <2>5. HubOK'
    BY <1>1 DEF Restart, HubOK
  <2>6. Paid'
    <3>1. room' = room /\ work' = work /\ call' = NoCall
      BY <1>1 DEF Restart, rowVars
    <3>2. Leaving(NoCall) = 0 /\ Leaving(call) \in {0, 1}
      BY DEF NoCall, Leaving
    <3>3. room.version \in Nat /\ work \in Nat /\ MaxWork \in Nat
      BY DEF LiveInv, RowOK, Snapshots, Paid, LiveAssumption
    <3>4. room.version + Leaving(NoCall) <= 1 + work
      BY <3>2, <3>3 DEF LiveInv, Paid
    <3> QED BY <3>1, <3>4 DEF LiveInv, Paid, Leaving
  <2> QED BY <1>1, <2>1, <2>2, <2>3, <2>4, <2>5, <2>6, LeftAlone
          DEF Restart, LiveInv, rowVars, pageVars
<1>2. ASSUME NEW s \in Sockets, Cut(s) PROVE LiveInv'
  <2>1. PICK c : c = [link[s] EXCEPT !.wire = "down"]
    OBVIOUS
  <2>2. SocketOK(c)
    BY <2>1, SocketIs DEF SocketOK, Socket
  <2>3. LinkOK'
    BY <1>2, <2>1, <2>2, LinkBecomes DEF Cut
  <2>4. inbox' \in Inboxes
    BY <1>2 DEF Cut, LiveInv, Inboxes
  <2> QED BY <1>2, <2>3, <2>4, LeftAlone DEF Cut, LiveInv, rowVars, pageVars
<1>3. ASSUME NEW s \in Sockets, NEW q \in Publishers, ScanMark(s, q) PROVE LiveInv'
  <2>1. PICK c : c = [link[s] EXCEPT !.scanned = TRUE]
    OBVIOUS
  <2>2. SocketOK(c)
    BY <2>1, SocketIs DEF SocketOK, Socket
  <2>3. LinkOK'
    BY <1>3, <2>1, <2>2, LinkBecomes DEF ScanMark
  <2>4. PubOK'
    BY <1>0, <1>3, PubKept DEF ScanMark
  <2>5. RowOK'
    BY <1>3 DEF ScanMark, LiveInv, RowOK, Snapshots
  <2> QED BY <1>3, <2>3, <2>4, <2>5, LeftAlone DEF ScanMark, LiveInv, pageVars
<1> QED BY <1>1, <1>2, <1>3 DEF Fault

\* The page's socket opens, closes, or brings a message.
LEMMA ConnectHolds ==
  ASSUME LiveInv, LiveAssumption, NEW s \in Sockets, Connect(s)
  PROVE  LiveInv'
<1>1. Blank \in Snapshots /\ direct \in Nat
  BY BlankIsSnapshot DEF LiveInv, HubOK
<1>2. PICK c : c = [link[s] EXCEPT !.wire = "open", !.known = TRUE]
  OBVIOUS
<1>3. SocketOK(c)
  BY <1>2, SocketIs DEF SocketOK, Socket
<1>4. LinkOK'
  BY <1>2, <1>3, LinkBecomes DEF Connect, Upgrade
<1>5. PICK e : e = Event("ready", Blank, direct + 1)
  OBVIOUS
<1>6. e \in Message /\ inbox' = [inbox EXCEPT ![s] = <<e>>]
  BY <1>1, <1>5, EventIsMessage DEF Connect, Upgrade
<1>7. inbox' \in Inboxes
  BY <1>6, InboxesKept DEF LiveInv
<1>8. HubOK'
  BY DEF Connect, Upgrade, LiveInv, HubOK
<1>9. PageOK'
  BY DEF Connect, LiveInv, PageOK, Sockets
<1> QED BY <1>4, <1>7, <1>8, <1>9, LeftAlone DEF Connect, LiveInv, rowVars

LEMMA SocketClosedHolds ==
  ASSUME LiveInv, NEW s \in Sockets, SocketClosed(s)
  PROVE  LiveInv'
<1>1. PageOK'
  BY DEF SocketClosed, Retry, LiveInv, PageOK, Sockets
<1> QED BY <1>1, LeftAlone DEF SocketClosed, LiveInv, rowVars

\* connection.ready is handled, and answered by room.subscribe or its error.
LEMMA GreetedHolds ==
  ASSUME LiveInv, LiveAssumption, NEW s \in Sockets, inbox[s] # <<>>, Greeted(s),
         UNCHANGED <<rowVars, seq, pub, call, work>>
  PROVE  LiveInv'
<1>1. Blank \in Snapshots /\ room \in Snapshots /\ direct \in Nat
  BY BlankIsSnapshot DEF LiveInv, RowOK, HubOK
<1>2. PageOK' /\ ScreenOK'
  BY LeftAlone DEF Greeted, LiveInv, PageOK, Sockets
<1>3. PICK e : e = Event("error", Blank, direct + 1)
  OBVIOUS
<1>4. e \in Message
  BY <1>1, <1>3, EventIsMessage
<1>5. /\ [inbox EXCEPT ![s] = Tail(@)] \in Inboxes
      /\ [inbox EXCEPT ![s] = Append(Tail(@), e)] \in Inboxes
  BY <1>4, InboxMessage, InboxesKept DEF LiveInv
<1>6. CASE SubscribeLoad(s)
  <2>1. PICK c : c = [link[s] EXCEPT !.job = "loaded", !.snap = room]
    OBVIOUS
  <2>2. SocketOK(c)
    BY <1>1, <2>1, SocketIs DEF SocketOK, Socket
  <2>3. link' = [link EXCEPT ![s] = c]
    BY <1>6, <2>1 DEF SubscribeLoad
  <2>4. LinkOK'
    BY <2>2, <2>3, LinkBecomes
  <2>5. inbox' \in Inboxes /\ direct' = direct
    BY <1>5, <1>6 DEF SubscribeLoad
  <2> QED BY <1>2, <2>4, <2>5, LeftAlone DEF LiveInv, rowVars, hubVars
<1>7. CASE SubscribeFails(s)
  <2>1. PICK c : c = [link[s] EXCEPT !.failed = TRUE]
    OBVIOUS
  <2>2. SocketOK(c)
    BY <2>1, SocketIs DEF SocketOK, Socket
  <2>3. link' = [link EXCEPT ![s] = c]
    BY <1>7, <2>1 DEF SubscribeFails
  <2>4. LinkOK'
    BY <2>2, <2>3, LinkBecomes
  <2>5. inbox' \in Inboxes /\ HubOK'
    BY <1>3, <1>5, <1>7 DEF SubscribeFails, LiveInv, HubOK
  <2> QED BY <1>2, <2>4, <2>5, LeftAlone DEF LiveInv, rowVars
<1>8. CASE inbox' = [inbox EXCEPT ![s] = Tail(@)] /\ UNCHANGED <<link, direct, faults>>
  BY <1>2, <1>5, <1>8, LeftAlone DEF LiveInv, rowVars, hubVars
<1> QED BY <1>6, <1>7, <1>8 DEF Greeted

\* An event is shown, or dropped.
LEMMA RoomEventHolds ==
  ASSUME LiveInv, NEW s \in Sockets, inbox[s] # <<>>, RoomEvent(s, Head(inbox[s])),
         UNCHANGED <<rowVars, seq, pub, call, work>>
  PROVE  LiveInv' /\ shown'.version >= shown.version
<1>1. PICK e : e = Head(inbox[s])
  OBVIOUS
<1>2. /\ e \in Message /\ RoomEvent(s, e)
      /\ [inbox EXCEPT ![s] = Tail(@)] \in Inboxes
  BY <1>1, InboxMessage DEF LiveInv
<1>3. /\ e.at \in Snapshots /\ e.seq \in Nat /\ e.at.version \in 0..(1 + MaxWork)
      /\ e.at.version \in Int
  BY <1>2 DEF Message, Snapshots
<1>4. /\ shown \in Snapshots /\ shown.version \in Int /\ cursor.version \in Int
      /\ shown.version <= cursor.version
  BY DEF LiveInv, ScreenOK, Snapshots
<1>5. ScreenOK' /\ shown'.version >= shown.version
  <2>1. CASE Accepts(cursor, e)
    <3>1. e.at.version >= cursor.version
      BY <1>3, <1>4, <2>1 DEF Accepts
    <3>2. /\ cursor' = [version |-> e.at.version, seq |-> e.seq, from |-> From(e)]
          /\ shown' = IF e.kind = "error" THEN shown ELSE e.at
      BY <1>2, <2>1 DEF RoomEvent
    <3>3. /\ shown' \in Snapshots /\ shown'.version <= e.at.version
          /\ shown'.version >= shown.version
      BY <1>3, <1>4, <3>1, <3>2
    <3>4. From(e) \in {"hub", "direct"}
      BY DEF From
    <3> QED BY <1>3, <3>2, <3>3, <3>4 DEF ScreenOK, Snapshots
  <2>2. CASE ~Accepts(cursor, e)
    <3>1. UNCHANGED <<shown, cursor>>
      BY <1>2, <2>2 DEF RoomEvent
    <3> QED BY <1>4, <3>1, LeftAlone
  <2> QED BY <2>1, <2>2
<1> QED BY <1>2, <1>5, LeftAlone DEF RoomEvent, LiveInv, rowVars, hubVars

LEMMA HookHolds ==
  ASSUME LiveInv, LiveAssumption, NEW s \in Sockets, Hook(s)
  PROVE  LiveInv'
<1>1. CASE Deliver(s)
  <2>1. inbox[s] # <<>> /\ UNCHANGED <<rowVars, seq, pub, call, work>>
    BY <1>1 DEF Deliver
  <2>2. Greeted(s) \/ RoomEvent(s, Head(inbox[s]))
    BY <1>1 DEF Deliver
  <2> QED BY <2>1, <2>2, GreetedHolds, RoomEventHolds
<1> QED BY <1>1, ConnectHolds, SocketClosedHolds, HeartbeatHolds DEF Hook

\* The page's own calls.
LEMMA CallHolds ==
  ASSUME LiveInv, LiveAssumption,
         \/ \E k \in {"hydrate", "leave"} : Ask(k)
         \/ Hydrated
         \/ \E q \in Publishers : Left(q)
  PROVE  LiveInv'
<1>1. ASSUME NEW k \in {"hydrate", "leave"}, Ask(k) PROVE LiveInv'
  <2>1. /\ CallOK' /\ Leaving(call') \in {0, 1}
        /\ call.step = "none" /\ Works /\ room' = room
    BY <1>1 DEF Ask, LiveInv, CallOK, Snapshots, Leaving, rowVars
  <2>2. Leaving(call) = 0
    BY <2>1 DEF Leaving
  <2>3. Paid'
    BY <2>1, <2>2, WorkPays DEF Paid
  <2> QED BY <1>1, <2>1, <2>3, LeftAlone DEF Ask, LiveInv, pageVars
<1>2. CASE Hydrated
  <2>1. CallOK' /\ Leaving(call') = 0 /\ Leaving(call) = 0
    BY <1>2 DEF Hydrated, LiveInv, CallOK, RowOK, Snapshots, Leaving
  <2>2. Paid'
    BY <1>2, <2>1 DEF Hydrated, LiveInv, Paid, rowVars
  <2> QED BY <1>2, <2>1, <2>2, LeftAlone DEF Hydrated, LiveInv, pageVars
<1>3. ASSUME NEW q \in Publishers, Left(q) PROVE LiveInv'
  <2>1. CallOK' /\ Leaving(call') = 0 /\ Leaving(call) = 1 /\ work' = work
    BY <1>3 DEF Left, LiveInv, CallOK, Snapshots, Leaving
  <2>2. /\ room.version \in Nat /\ room.news \in 0..MaxWork /\ work \in 0..MaxWork
        /\ MaxWork \in Nat /\ room.version + 1 <= 1 + work
        /\ room' = [version |-> room.version + 1, news |-> room.news]
    BY <1>3, <2>1 DEF Left, LiveInv, RowOK, Paid, Snapshots, LiveAssumption
  <2>3. Paid'
    BY <2>1, <2>2 DEF LiveInv, Paid
  <2>4. room.version + 1 \in 0..(1 + MaxWork)
    BY <2>2
  <2>5. RowOK'
    BY <1>3, <2>2, <2>4 DEF Left, RowOK, Snapshots
  <2>6. PubOK'
    BY <1>3, PubKept, BlankIsSnapshot DEF Left
  <2> QED BY <1>3, <2>1, <2>3, <2>5, <2>6, LeftAlone DEF Left, LiveInv, hubVars, pageVars
<1> QED BY <1>1, <1>2, <1>3

\* The answer of a call is used, which ends it.
LEMMA Ended ==
  ASSUME LiveInv, LiveAssumption, call' = NoCall, call.step = "reply", UNCHANGED <<room, work>>
  PROVE  CallOK' /\ Paid'
<1>1. CallOK'
  BY BlankIsSnapshot DEF NoCall, CallOK, Snapshots
<1>2. Leaving(call') = 0 /\ Leaving(call) = 0
  BY DEF NoCall, Leaving
<1> QED BY <1>1, <1>2 DEF LiveInv, Paid

LEMMA HydrateHolds ==
  ASSUME LiveInv, LiveAssumption, HydrateAnswered
  PROVE  LiveInv'
<1>1. CallOK' /\ Paid'
  BY Ended DEF HydrateAnswered, rowVars
<1>2. /\ call.at \in Snapshots /\ shown' = call.at
      /\ cursor' = [version |-> call.at.version, seq |-> 0, from |-> "http"]
  BY DEF HydrateAnswered, LiveInv, CallOK
<1>3. ScreenOK'
  BY <1>2 DEF ScreenOK, Snapshots
<1>4. PageOK'
  BY DEF HydrateAnswered, LiveInv, PageOK, Sockets
<1> QED BY <1>1, <1>3, <1>4, LeftAlone DEF HydrateAnswered, LiveInv, rowVars

LEMMA PageGoesHolds ==
  ASSUME LiveInv, LiveAssumption, PageGoes, CallOK', Paid'
  PROVE  LiveInv'
<1>1. Blank \in Snapshots /\ MaxWork \in Nat
  BY BlankIsSnapshot DEF LiveAssumption
<1>2. ScreenOK'
  BY <1>1 DEF PageGoes, ScreenOK, Blank, StartCursor, Snapshots
<1>3. PageOK'
  BY DEF PageGoes, LiveInv, PageOK, Sockets
<1>4. inbox' \in Inboxes
  BY DEF PageGoes, LiveInv, Inboxes
<1>5. LinkOK'
  <2>1. ASSUME NEW s \in Sockets PROVE SocketOK(Dropped[s])
    <3>1. SocketOK([link[s] EXCEPT !.wire = "down"])
      BY SocketIs DEF SocketOK, Socket
    <3> QED BY <3>1, SocketIs DEF Dropped
  <2>2. Dropped \in [Sockets -> Socket]
    BY <2>1 DEF Dropped, SocketOK
  <2>3. link' = Dropped
    BY DEF PageGoes
  <2> HIDE DEF Dropped
  <2> QED BY <2>1, <2>2, <2>3 DEF LinkOK, SocketOK, Socket, Sockets, Snapshots
<1> QED BY <1>2, <1>3, <1>4, <1>5, LeftAlone DEF PageGoes, LiveInv, rowVars, hubVars

LEMMA GoesHolds ==
  ASSUME LiveInv, LiveAssumption, LeaveAnswered \/ CloseTab
  PROVE  LiveInv' /\ ~page'.up
<1>1. CallOK' /\ Paid'
  <2>1. CASE LeaveAnswered
    BY <2>1, Ended DEF LeaveAnswered, PageGoes, rowVars
  <2>2. CASE CloseTab
    BY <2>2, LeftAlone DEF CloseTab, PageGoes, rowVars
  <2> QED BY <2>1, <2>2
<1>2. PageGoes
  BY DEF LeaveAnswered, CloseTab
<1>3. ~page'.up
  BY <1>2 DEF PageGoes, LiveInv, PageOK
<1> QED BY <1>1, <1>2, <1>3, PageGoesHolds

LEMMA LiveInit == ASSUME LiveAssumption PROVE Init => LiveInv
<1> SUFFICES ASSUME Init PROVE LiveInv
  OBVIOUS
<1>1. Blank \in Snapshots /\ MaxWork \in Nat
  BY BlankIsSnapshot DEF LiveAssumption
<1>2. room = [version |-> 1, news |-> 0] /\ RowOK /\ HubOK
  <2>1. 1 \in 0..(1 + MaxWork) /\ 0 \in 0..MaxWork
    BY <1>1
  <2>2. room = [version |-> 1, news |-> 0] /\ room \in Snapshots
    BY <2>1 DEF Init, Snapshots
  <2> QED BY <2>2 DEF Init, RowOK, HubOK
<1>3. PubOK
  BY <1>1 DEF Init, PubOK, Idle, Publication
<1>4. LinkOK
  <2>1. SocketOK(Unused)
    BY <1>1 DEF SocketOK, Socket, Unused
  <2>2. link = [s \in Sockets |-> Unused]
    BY DEF Init
  <2> QED BY <2>1, <2>2 DEF LinkOK, SocketOK
<1>5. ScreenOK
  BY <1>1, <1>2 DEF Init, ScreenOK, RowOK, Snapshots
<1>6. PageOK
  BY DEF Init, PageOK
<1>7. CallOK /\ Leaving(call) = 0
  BY <1>1 DEF Init, NoCall, CallOK, Leaving
<1>8. inbox \in Inboxes
  BY DEF Init, Inboxes
<1>9. Paid
  BY <1>1, <1>2, <1>7 DEF Init, Paid
<1> QED BY <1>2, <1>3, <1>4, <1>5, <1>6, <1>7, <1>8, <1>9 DEF LiveInv

LEMMA LiveNext == ASSUME LiveAssumption, LiveInv, [Next]_vars PROVE LiveInv'
<1>1. CASE UNCHANGED vars
  BY <1>1, LeftAlone DEF vars, rowVars, hubVars, pageVars, LiveInv
<1>2. CASE \E s \in Sockets : Gateway(s) \/ Hook(s)
  BY <1>2, GatewayHolds, HookHolds
<1>3. CASE \E q \in Publishers :
             Publish(q) \/ OthersCommit(q) \/ RoundResolved(q) \/ Left(q)
  BY <1>3, PublishHolds, CallHolds
<1>4. CASE (\E k \in {"hydrate", "leave"} : Ask(k)) \/ Hydrated
  BY <1>4, CallHolds
<1>5. CASE HydrateAnswered \/ LeaveAnswered
  BY <1>5, HydrateHolds, GoesHolds
<1>6. CASE OthersDirect
  BY <1>6, OthersDirectHolds
<1>7. CASE Fault
  BY <1>7, FaultHolds, GoesHolds
<1> QED BY <1>1, <1>2, <1>3, <1>4, <1>5, <1>6, <1>7 DEF Next

LEMMA LiveInvariance == ASSUME LiveAssumption PROVE Spec => []LiveInv
BY LiveInit, LiveNext, PTL DEF Spec

-----------------------------------------------------------------------------
\* Every variable of the gateway, the hub and the page keeps its range: the
\* versions the page can be sent are those that work has paid for.
THEOREM LiveTypes == Spec => []TypeOK
<1>1. LiveInv => TypeOK
  BY InboxTyped DEF LiveInv, TypeOK, RowOK, HubOK, PubOK, LinkOK, ScreenOK, PageOK, CallOK,
     Publication, Socket
<1> QED BY <1>1, LiveInvariance, LiveAssumption, PTL

\* attachConnectionToRoom after an await never brings back a connection that
\* unregisterLiveConnection has dropped.
THEOREM NoGhosts == Spec => []NoGhostConnection
<1>1. LiveInv => NoGhostConnection
  BY DEF LiveInv, LinkOK, SocketOK, NoGhostConnection
<1> QED BY <1>1, LiveInvariance, LiveAssumption, PTL

\* Only a step that shows a pushed event, uses an answer or ends the page
\* changes the screen, and the first never goes back.
LEMMA PushGoesOn ==
  ASSUME LiveAssumption, LiveInv, [Next]_vars, shown'.version < shown.version
  PROVE  call'.step # call.step \/ ~page'.up
<1>1. shown.version \in Int /\ shown' # shown
  BY DEF LiveInv, ScreenOK, Snapshots
<1>2. CASE \E s \in Sockets : Deliver(s)
  <2>1. PICK s \in Sockets : Deliver(s)
    BY <1>2
  <2>2. inbox[s] # <<>> /\ UNCHANGED <<rowVars, seq, pub, call, work>>
    BY <2>1 DEF Deliver
  <2>3. RoomEvent(s, Head(inbox[s]))
    BY <1>1, <2>1 DEF Deliver, Greeted
  <2>4. shown'.version >= shown.version /\ LiveInv'
    BY <2>2, <2>3, RoomEventHolds
  <2>5. shown'.version \in Int
    BY <2>4 DEF LiveInv, ScreenOK, Snapshots
  <2> QED BY <1>1, <2>4, <2>5
<1>3. CASE HydrateAnswered
  BY <1>3 DEF HydrateAnswered, NoCall
<1>4. CASE LeaveAnswered \/ CloseTab
  BY <1>4, GoesHolds
<1>5. CASE UNCHANGED <<shown, cursor>>
  BY <1>1, <1>5
<1>6. \/ UNCHANGED <<shown, cursor>> \/ \E s \in Sockets : Deliver(s)
      \/ HydrateAnswered \/ LeaveAnswered \/ CloseTab
  <2>1. ASSUME NEW s \in Sockets, Gateway(s) PROVE UNCHANGED <<shown, cursor>>
    BY <2>1 DEF Gateway, SubscribeAttach, SubscribeMark, ScanClose, HandleClosed,
       MarkDisconnected, pageVars
  <2>2. ASSUME NEW s \in Sockets, Hook(s) PROVE UNCHANGED <<shown, cursor>> \/ Deliver(s)
    BY <2>2 DEF Hook, Connect, SocketClosed, Heartbeat, pageVars
  <2>3. ASSUME NEW q \in Publishers,
               Publish(q) \/ OthersCommit(q) \/ RoundResolved(q) \/ Left(q)
        PROVE  UNCHANGED <<shown, cursor>>
    BY <2>3 DEF Publish, PublishLoad, PublishSend, OthersCommit, RoundResolved, Left, pageVars
  <2>4. ASSUME (\E k \in {"hydrate", "leave"} : Ask(k)) \/ Hydrated \/ OthersDirect
        PROVE  UNCHANGED <<shown, cursor>>
    BY <2>4 DEF Ask, Hydrated, OthersDirect, pageVars
  <2>5. ASSUME Fault PROVE UNCHANGED <<shown, cursor>> \/ CloseTab
    BY <2>5 DEF Fault, Restart, Cut, ScanMark, pageVars
  <2>6. UNCHANGED vars => UNCHANGED <<shown, cursor>>
    BY DEF vars, pageVars
  <2> QED BY <2>1, <2>2, <2>3, <2>4, <2>5, <2>6 DEF Next
<1> QED BY <1>2, <1>3, <1>4, <1>5, <1>6

\* shouldAcceptRoomEvent, with a cursor that is never behind the screen: no
\* pushed event takes the page back to an older room version.
THEOREM PushedForward == Spec => PushNeverGoesBack
<1>1. LiveInv /\ [Next]_vars =>
        [shown'.version < shown.version => call'.step # call.step \/ ~page'.up]_vars
  BY PushGoesOn, LiveAssumption
<1> QED BY <1>1, LiveInvariance, LiveAssumption, PTL DEF Spec, PushNeverGoesBack

-----------------------------------------------------------------------------
(* The limit on what comes in.                                             *)

\* requests of P by key k in the window that began at s
InWindow(P, k, s) == {p \in P : p.key = k /\ p.start = s}

\* A request passes in its window, in the past.
Placed == \A p \in passed : p.start <= p.at /\ p.at < p.start + WindowMs /\ p.at <= now

\* Windows of a key do not overlap; the bucket's is the last one.
Apart ==
  /\ \A p, q \in passed : p.key = q.key =>
       p.start = q.start \/ p.start + WindowMs <= q.start \/ q.start + WindowMs <= p.start
  /\ \A p \in passed : p.start + WindowMs <= buckets[p.key].resetsAt
  /\ \A p \in passed : p.start = Start(p.key) \/ p.start + WindowMs <= Start(p.key)

\* The count is that of the last window, and no window has more than the limit.
Counted ==
  \A k \in Keys :
    /\ Cardinality(InWindow(passed, k, Start(k))) <= buckets[k].count
    /\ buckets[k].count <= Limit
    /\ \A s \in Nat : Cardinality(InWindow(passed, k, s)) <= Limit

\* A bucket was never used, or its window began in the past.
Began == \A k \in Keys :
  \/ buckets[k].resetsAt = 0
  \/ buckets[k].resetsAt >= WindowMs /\ Start(k) <= now

LimitIInv == LimitTypeOK /\ IsFiniteSet(passed) /\ Placed /\ Apart /\ Counted /\ Began

LEMMA LimitInitHolds == ASSUME Limit \in Nat, WindowMs \in Nat PROVE LimitInit => LimitIInv
<1> SUFFICES ASSUME LimitInit PROVE LimitIInv
  OBVIOUS
<1>1. passed = {} /\ LimitTypeOK /\ Began
  BY DEF LimitInit, LimitTypeOK, Began
<1>2. IsFiniteSet(passed)
  BY <1>1, FS_EmptySet
<1>3. \A k, s : InWindow(passed, k, s) = {}
  BY <1>1 DEF InWindow
<1>4. Cardinality({}) = 0
  BY FS_EmptySet
<1>5. Counted
  BY <1>3, <1>4 DEF LimitInit, Counted
<1> QED BY <1>1, <1>2, <1>5 DEF LimitIInv, Placed, Apart

\* One request more: its window has one more, the others are as they were.
LEMMA OneMore ==
  ASSUME NEW P, NEW x, IsFiniteSet(P), x \notin P
  PROVE  /\ IsFiniteSet(P \union {x})
         /\ \A k, s :
              IF k = x.key /\ s = x.start
              THEN Cardinality(InWindow(P \union {x}, k, s)) = Cardinality(InWindow(P, k, s)) + 1
              ELSE InWindow(P \union {x}, k, s) = InWindow(P, k, s)
<1>1. IsFiniteSet(P \union {x})
  BY FS_AddElement
<1>2. ASSUME NEW k, NEW s, k = x.key, s = x.start
      PROVE  Cardinality(InWindow(P \union {x}, k, s)) = Cardinality(InWindow(P, k, s)) + 1
  <2>1. InWindow(P \union {x}, k, s) = InWindow(P, k, s) \union {x}
    BY <1>2 DEF InWindow
  <2>2. InWindow(P, k, s) \subseteq P
    BY DEF InWindow
  <2>3. IsFiniteSet(InWindow(P, k, s)) /\ x \notin InWindow(P, k, s)
    BY <2>2, FS_Subset
  <2> QED BY <2>1, <2>3, FS_AddElement
<1>3. ASSUME NEW k, NEW s, ~(k = x.key /\ s = x.start)
      PROVE  InWindow(P \union {x}, k, s) = InWindow(P, k, s)
  BY <1>3 DEF InWindow
<1> QED BY <1>1, <1>2, <1>3

\* The request that passes.
LEMMA Passing ==
  ASSUME NEW k \in Keys, NEW s \in Nat, Passes(k, s), now \in Nat
  PROVE  \E x : /\ passed' = passed \union {x} /\ x \notin passed
               /\ x.key = k /\ x.start = s /\ x.at = now
               /\ x \in [key : Keys, nr : Nat, start : Nat, at : Nat]
<1>1. PICK n \in Nat :
        /\ \A p \in passed : p.nr # n
        /\ passed' = passed \union {[key |-> k, nr |-> n, start |-> s, at |-> now]}
  BY DEF Passes
<1> DEFINE x == [key |-> k, nr |-> n, start |-> s, at |-> now]
<1>2. x \notin passed
  BY <1>1
<1> WITNESS x
<1> QED BY <1>1, <1>2

\* A request passes in the window that its bucket has then: the last one, or
\* one that begins after all the others.
LEMMA Allowed ==
  ASSUME LimitIInv, Limit \in Nat \ {0}, WindowMs \in Nat \ {0},
         NEW k \in Keys, NEW s \in Nat, NEW n \in Nat, Passes(k, s), now' = now,
         s <= now, now < s + WindowMs, n <= Limit,
         \/ s = Start(k) /\ n = buckets[k].count + 1
         \/ n = 1 /\ buckets[k].resetsAt <= s,
         buckets' = [buckets EXCEPT ![k] = [count |-> n, resetsAt |-> s + WindowMs]]
  PROVE  LimitIInv'
<1>0. now \in Nat
  BY DEF LimitIInv, LimitTypeOK
<1>1. PICK x : /\ passed' = passed \union {x} /\ x \notin passed
               /\ x.key = k /\ x.start = s /\ x.at = now
               /\ x \in [key : Keys, nr : Nat, start : Nat, at : Nat]
  BY <1>0, Passing
<1>2. /\ buckets'[k] = [count |-> n, resetsAt |-> s + WindowMs]
      /\ \A j \in Keys : j # k => buckets'[j] = buckets[j]
  BY DEF LimitIInv, LimitTypeOK
<1>3. LimitTypeOK'
  BY <1>1 DEF LimitIInv, LimitTypeOK
<1>4. /\ Start(k)' = s
      /\ \A j \in Keys : j # k => Start(j)' = Start(j)
  BY <1>2 DEF Start
<1>5. Placed'
  BY <1>1 DEF LimitIInv, Placed
<1>6. \A p \in passed : /\ p.key \in Keys /\ p.start \in Nat
                        /\ p.key = k => p.start = s \/ p.start + WindowMs <= s
  BY DEF LimitIInv, LimitTypeOK, Apart
<1>7. Apart'
  <2>1. \A p, q \in passed' : p.key = q.key =>
          p.start = q.start \/ p.start + WindowMs <= q.start \/ q.start + WindowMs <= p.start
    BY <1>1, <1>6 DEF LimitIInv, Apart
  <2>2. ASSUME NEW p \in passed'
        PROVE  /\ p.start + WindowMs <= buckets'[p.key].resetsAt
               /\ p.start = Start(p.key)' \/ p.start + WindowMs <= Start(p.key)'
    <3>1. CASE p = x
      BY <1>1, <1>2, <1>4, <3>1
    <3>2. CASE p \in passed /\ p.key = k
      <4>1. p.start = s \/ p.start + WindowMs <= s
        BY <1>6, <3>2
      <4>2. p.start \in Nat /\ p.start + WindowMs <= s + WindowMs
        BY <1>6, <3>2, <4>1
      <4> QED BY <1>2, <1>4, <3>2, <4>1, <4>2
    <3>3. CASE p \in passed /\ p.key # k
      <4>1. Start(p.key)' = Start(p.key) /\ buckets'[p.key] = buckets[p.key]
        BY <1>2, <1>4, <1>6, <3>3
      <4> QED BY <3>3, <4>1 DEF LimitIInv, Apart
    <3> QED BY <1>1, <3>1, <3>2, <3>3
  <2> QED BY <2>1, <2>2 DEF Apart
<1>8. /\ IsFiniteSet(passed')
      /\ Cardinality(InWindow(passed', k, s)) = Cardinality(InWindow(passed, k, s)) + 1
      /\ \A j, u : ~(j = k /\ u = s) => InWindow(passed', j, u) = InWindow(passed, j, u)
  BY <1>1, OneMore DEF LimitIInv
<1>9. Cardinality(InWindow(passed, k, s)) + 1 <= n
  <2>1. CASE s = Start(k) /\ n = buckets[k].count + 1
    <3>1. Cardinality(InWindow(passed, k, s)) <= buckets[k].count
      BY <2>1 DEF LimitIInv, Counted
    <3>2. InWindow(passed, k, s) \subseteq passed
      BY DEF InWindow
    <3>3. Cardinality(InWindow(passed, k, s)) \in Nat /\ buckets[k].count \in Nat
      BY <3>2, FS_Subset, FS_CardinalityType DEF LimitIInv, LimitTypeOK
    <3> QED BY <2>1, <3>1, <3>3
  <2>2. CASE n = 1 /\ buckets[k].resetsAt <= s
    <3>1. InWindow(passed, k, s) = {}
      BY <2>2, <1>6 DEF InWindow, LimitIInv, Apart, LimitTypeOK
    <3>2. Cardinality({}) = 0
      BY FS_EmptySet
    <3> QED BY <2>2, <3>1, <3>2
  <2> QED BY <2>1, <2>2
<1>10. Counted'
  <2> SUFFICES ASSUME NEW j \in Keys
               PROVE  /\ Cardinality(InWindow(passed', j, Start(j)')) <= buckets'[j].count
                      /\ buckets'[j].count <= Limit
                      /\ \A u \in Nat : Cardinality(InWindow(passed', j, u)) <= Limit
    BY DEF Counted
  <2>1. CASE j = k
    <3>1. Cardinality(InWindow(passed', k, s)) <= n
      BY <1>8, <1>9
    <3>2. ASSUME NEW u \in Nat PROVE Cardinality(InWindow(passed', k, u)) <= Limit
      <4>1. CASE u = s
        <5>1. InWindow(passed', k, s) \subseteq passed'
          BY DEF InWindow
        <5>2. Cardinality(InWindow(passed', k, s)) \in Nat
          BY <1>8, <5>1, FS_Subset, FS_CardinalityType
        <5> QED BY <3>1, <4>1, <5>2
      <4>2. CASE u # s
        BY <1>8, <4>2 DEF LimitIInv, Counted
      <4> QED BY <4>1, <4>2
    <3> QED BY <1>2, <1>4, <2>1, <3>1, <3>2
  <2>2. CASE j # k
    <3>1. \A u : InWindow(passed', j, u) = InWindow(passed, j, u)
      BY <1>8, <2>2
    <3> QED BY <1>2, <1>4, <2>2, <3>1 DEF LimitIInv, Counted
  <2> QED BY <2>1, <2>2
<1>11. Began'
  BY <1>2, <1>4 DEF LimitIInv, Began, LimitTypeOK
<1> QED BY <1>3, <1>5, <1>7, <1>8, <1>10, <1>11 DEF LimitIInv

LEMMA LimitInvariance ==
  ASSUME LimitIInv, Limit \in Nat \ {0}, WindowMs \in Nat \ {0}, [LimitNext]_limitVars
  PROVE  LimitIInv'
<1>1. ASSUME NEW k \in Keys, Opens(k) PROVE LimitIInv'
  <2>1. now \in Nat /\ now < now + WindowMs /\ buckets[k].resetsAt <= now
    BY <1>1 DEF Opens, Over, LimitIInv, LimitTypeOK
  <2>2. PICK s \in Nat : s = now
    BY <2>1
  <2>3. /\ Passes(k, s) /\ now' = now /\ s <= now /\ now < s + WindowMs
        /\ buckets[k].resetsAt <= s
        /\ buckets' = [buckets EXCEPT ![k] = [count |-> 1, resetsAt |-> s + WindowMs]]
    BY <1>1, <2>1, <2>2 DEF Opens
  <2>4. 1 \in Nat /\ 1 <= Limit
    OBVIOUS
  <2> QED BY <2>3, <2>4, Allowed
<1>2. ASSUME NEW k \in Keys, Counts(k) PROVE LimitIInv'
  <2>1. /\ now \in Nat /\ buckets[k].count \in Nat /\ buckets[k].resetsAt \in Nat
        /\ now < buckets[k].resetsAt /\ buckets[k].count < Limit
    BY <1>2 DEF Counts, Over, LimitIInv, LimitTypeOK
  <2>2. Start(k) \in Nat /\ Start(k) <= now /\ Start(k) + WindowMs = buckets[k].resetsAt
    BY <2>1 DEF Start, LimitIInv, Began
  <2>3. PICK s \in Nat : s = Start(k)
    BY <2>2
  <2>4. PICK n \in Nat : n = buckets[k].count + 1 /\ n <= Limit
    BY <2>1
  <2>5. buckets' = [buckets EXCEPT ![k] = [count |-> n, resetsAt |-> s + WindowMs]]
    BY <1>2, <2>2, <2>3, <2>4 DEF Counts
  <2>6. Passes(k, s) /\ now' = now /\ s <= now /\ now < s + WindowMs
    BY <1>2, <2>1, <2>2, <2>3 DEF Counts
  <2> QED BY <2>3, <2>4, <2>5, <2>6, Allowed
<1>3. ASSUME UNCHANGED limitVars PROVE LimitIInv'
  BY <1>3 DEF limitVars, LimitIInv, LimitTypeOK, Placed, Apart, Counted, Began, Start
<1>4. ASSUME Tick PROVE LimitIInv'
  BY <1>4 DEF Tick, LimitIInv, LimitTypeOK, Placed, Apart, Counted, Began, Start
<1>5. ASSUME NEW k \in Keys, Refuses(k) PROVE LimitIInv'
  BY <1>3, <1>5 DEF Refuses
<1> QED BY <1>1, <1>2, <1>3, <1>4, <1>5 DEF LimitNext

\* Two windows hold what any stretch of a window's length holds.
LEMMA TwoWindows ==
  ASSUME LimitIInv, Limit \in Nat \ {0}, WindowMs \in Nat \ {0}, NEW k \in Keys, NEW t \in Nat
  PROVE  Cardinality(Within(k, t)) <= 2 * Limit
<1>1. ASSUME NEW a \in Nat, NEW b \in Nat,
             Within(k, t) \subseteq InWindow(passed, k, a) \union InWindow(passed, k, b)
      PROVE  Cardinality(Within(k, t)) <= 2 * Limit
  <2> DEFINE A == InWindow(passed, k, a)
             B == InWindow(passed, k, b)
  <2>1. A \subseteq passed /\ B \subseteq passed
    BY DEF InWindow
  <2>2. IsFiniteSet(A) /\ IsFiniteSet(B) /\ Cardinality(A) \in Nat /\ Cardinality(B) \in Nat
    BY <2>1, FS_Subset, FS_CardinalityType DEF LimitIInv
  <2>3. Cardinality(A) <= Limit /\ Cardinality(B) <= Limit
    BY DEF LimitIInv, Counted
  <2>4. /\ IsFiniteSet(A \union B) /\ IsFiniteSet(A \cap B)
        /\ Cardinality(A \union B) = Cardinality(A) + Cardinality(B) - Cardinality(A \cap B)
    BY <2>2, FS_Union, FS_Intersection
  <2>5. Cardinality(A \cap B) \in Nat /\ Cardinality(A \union B) \in Nat
    BY <2>4, FS_CardinalityType
  <2>6. Cardinality(Within(k, t)) <= Cardinality(A \union B) /\ Cardinality(Within(k, t)) \in Nat
    BY <1>1, <2>4, FS_Subset, FS_CardinalityType
  <2> HIDE DEF A, B
  <2> QED BY <2>2, <2>3, <2>4, <2>5, <2>6
<1>2. \A p \in Within(k, t) :
        /\ p \in InWindow(passed, k, p.start) /\ p.start \in Nat /\ p.at \in Nat
        /\ p.start <= p.at /\ p.at < p.start + WindowMs /\ t <= p.at /\ p.at < t + WindowMs
  BY DEF Within, InWindow, LimitIInv, LimitTypeOK, Placed
<1>3. \A p, q \in Within(k, t) :
        p.start = q.start \/ p.start + WindowMs <= q.start \/ q.start + WindowMs <= p.start
  BY DEF Within, LimitIInv, Apart
<1>4. CASE \E p, q \in Within(k, t) : p.start # q.start
  <2>1. PICK p, q \in Within(k, t) : p.start # q.start
    BY <1>4
  <2>2. ASSUME NEW r \in Within(k, t) PROVE r.start = p.start \/ r.start = q.start
    BY <1>2, <1>3, <2>1
  <2> QED BY <1>1, <1>2, <2>2
<1>5. CASE \A p, q \in Within(k, t) : p.start = q.start
  <2>1. CASE Within(k, t) = {}
    <3>1. Cardinality({}) = 0
      BY FS_EmptySet
    <3> QED BY <2>1, <3>1
  <2>2. CASE Within(k, t) # {}
    <3>1. PICK p \in Within(k, t) : TRUE
      BY <2>2
    <3> QED BY <1>1, <1>2, <1>5, <3>1
  <2> QED BY <2>1, <2>2
<1> QED BY <1>4, <1>5

-----------------------------------------------------------------------------
\* Around the edge of two windows a key passes at most twice its limit
\* (checkRateLimit: resetsAt is set once for a window, and count never goes
\* past limit).
THEOREM AtMostTwiceTheLimit ==
  ASSUME Limit \in Nat \ {0}, WindowMs \in Nat \ {0}
  PROVE  LimitSpec => []AtMostTwice
<1>1. LimitInit => LimitIInv
  BY LimitInitHolds
<1>2. LimitIInv /\ [LimitNext]_limitVars => LimitIInv'
  BY LimitInvariance
<1>3. LimitIInv => AtMostTwice
  BY TwoWindows DEF AtMostTwice
<1> QED BY <1>1, <1>2, <1>3, PTL DEF LimitSpec
=============================================================================
