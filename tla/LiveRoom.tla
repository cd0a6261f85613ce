------------------------------- MODULE LiveRoom -------------------------------
(***************************************************************************)
(* How one player's browser page stays in step with a multiplayer room:    *)
(* the publications of the room service, the live hub and the WebSocket    *)
(* gateway of the one API process, and the page's useMultiplayerRoom hook. *)
(*                                                                         *)
(* A snapshot of the room is its roomVersion and its news: what the        *)
(* standings say at that version, because a resolved round is published    *)
(* without a new version.  The events of one publishRoomEvent burst are    *)
(* sent without an await in between, so a burst is its last event.         *)
(*                                                                         *)
(* Abstracted: the other pages of the room (their commits and their direct *)
(* events happen here, their sockets do not), the upgrade checks and rate  *)
(* limits, the audit log, the preview of a room one is not a member of,    *)
(* and the contents of snapshots beyond version and news.                  *)
(***************************************************************************)
EXTENDS Integers, FiniteSets, Sequences

CONSTANTS
  Publishers,   \* publications that may be under way at once
  MaxWork,      \* bound: changes of the room, calls of the page and direct
                \* events to others, together
  MaxFaults     \* bound: cuts, restarts, failed subscriptions, silent pages

ASSUME LiveAssumption ==
  /\ IsFiniteSet(Publishers)
  /\ {MaxWork, MaxFaults} \subseteq Nat

Sockets == 1..(MaxFaults + 1)   \* every fault costs at most one socket

VARIABLES
  room,    \* roomVersion and standings in the database
  conn,    \* connectionStatus of the player's row
  left,    \* leftAt of the player's row is set
  seq,     \* roomSequences of the hub for this room
  direct,  \* directSequence of the hub
  pub,     \* publishAuthoritativeRoomEvents calls under way
  link,    \* the page's sockets, as the API process sees them
  inbox,   \* what the API sent on a socket and the page has not handled
  page,    \* the hook: refs, timers, and whether the tab is still there
  shown,   \* version and news of the room state on the screen
  cursor,  \* eventCursorRef, and which of the three sources set it
  call,    \* the page's own HTTP call
  work,    \* how much of MaxWork was done
  faults   \* faults so far

rowVars == <<room, conn, left>>
hubVars == <<seq, direct>>
pageVars == <<page, shown, cursor>>
vars == <<rowVars, hubVars, pub, link, inbox, pageVars, call, work, faults>>

Snapshots == [version : 0..(1 + MaxWork), news : 0..MaxWork]
Blank == [version |-> 0, news |-> 0]
Idle == [step |-> "idle", at |-> Blank]

NoCall == [kind |-> "none", step |-> "none", at |-> Blank]

\* A socket nobody opened; job is the room.subscribe handler in flight.
Unused == [wire |-> "none", known |-> FALSE, tagged |-> FALSE,
           attached |-> FALSE, scanned |-> FALSE, failed |-> FALSE, job |-> "none", snap |-> Blank]

StartCursor == [version |-> 0, seq |-> 0, from |-> "none"]

TypeOK ==
  /\ room \in Snapshots
  /\ conn \in {"CONNECTED", "DISCONNECTED", "LEFT"}
  /\ left \in BOOLEAN
  /\ seq \in Nat /\ direct \in Nat
  /\ pub \in [Publishers -> [step : {"idle", "due", "loaded"}, at : Snapshots]]
  /\ link \in [Sockets ->
       [wire : {"none", "open", "closing", "down"}, known : BOOLEAN,
        tagged : BOOLEAN, attached : BOOLEAN, scanned : BOOLEAN,
        failed : BOOLEAN, job : {"none", "loaded", "marking"}, snap : Snapshots]]
  /\ page \in [up : BOOLEAN, member : BOOLEAN, timer : BOOLEAN,
               beats : BOOLEAN, sock : {0} \union Sockets]
  /\ shown \in Snapshots
  /\ cursor \in [version : 0..(1 + MaxWork), seq : Nat,
                 from : {"none", "http", "direct", "hub"}]
  /\ call \in [kind : {"none", "hydrate", "leave"},
               step : {"none", "asked", "reply"}, at : Snapshots]
  /\ \A s \in Sockets : \A i \in DOMAIN inbox[s] :
       inbox[s][i].at \in Snapshots

\* The page has just hydrated over HTTP.
Init ==
  /\ room = [version |-> 1, news |-> 0]
  /\ conn = "CONNECTED" /\ left = FALSE
  /\ seq = 0 /\ direct = 0
  /\ pub = [q \in Publishers |-> Idle]
  /\ link = [s \in Sockets |-> Unused]
  /\ inbox = [s \in Sockets |-> <<>>]
  /\ page = [up |-> TRUE, member |-> TRUE, timer |-> FALSE,
             beats |-> FALSE, sock |-> 0]
  /\ shown = room
  /\ cursor = [version |-> 1, seq |-> 0, from |-> "http"]
  /\ call = NoCall
  /\ work = 0 /\ faults = 0

-----------------------------------------------------------------------------
(***************************************************************************)
(* Hub.  A direct event carries the hub-wide number, a room event the      *)
(* room's own; both reach a socket only while it is open.                  *)
(***************************************************************************)
Event(kind, at, n) == [kind |-> kind, at |-> at, seq |-> n]

Posted(s, e) ==
  IF link[s].wire = "open" THEN [inbox EXCEPT ![s] = Append(@, e)] ELSE inbox

\* sendDirectEvent without an eventSequence of its own
SendDirect(s, kind, at) ==
  /\ direct' = direct + 1
  /\ inbox' = Posted(s, Event(kind, at, direct + 1))

\* attachConnectionToRoom looks the connection up before it adds it.
AttachAlways(s) == TRUE   \* mutant of AttachTo: a closed connection is added back
AttachTo(s) == link[s].known

\* unregisterLiveConnection, with detachConnectionFromRoom
Unregistered(c) == [c EXCEPT !.known = FALSE, !.attached = FALSE]

\* publishRoomEvent: what is sent to the room's connections
Published(e) ==
  [s \in Sockets |-> IF link[s].attached /\ link[s].wire = "open"
                     THEN Append(inbox[s], e) ELSE inbox[s]]

\* publishAuthoritativeRoomEvents starts; it loads the room later.
StartPublish(q) ==
  /\ pub[q].step = "idle"
  /\ pub' = [pub EXCEPT ![q].step = "due"]

PublishLoad(q) ==
  /\ pub[q].step = "due"
  /\ pub' = [pub EXCEPT ![q] = [step |-> "loaded", at |-> room]]
  /\ UNCHANGED <<rowVars, hubVars, link, inbox, pageVars, call, work, faults>>

PublishSend(q) ==
  /\ pub[q].step = "loaded"
  /\ pub' = [pub EXCEPT ![q] = Idle]
  /\ seq' = seq + 2   \* room.snapshot and room.standings
  /\ inbox' = Published(Event("room", pub[q].at, seq + 2))
  /\ UNCHANGED <<rowVars, direct, link, pageVars, call, work, faults>>

Works == page.up /\ work < MaxWork /\ work' = work + 1

\* Another player, or a timer, changes the room and publishes it.
OthersCommit(q) ==
  /\ Works
  /\ StartPublish(q)
  /\ room' = [room EXCEPT !.version = @ + 1]
  /\ UNCHANGED <<conn, left, hubVars, link, inbox, pageVars, call, faults>>

\* A round was resolved: notifyMultiplayerRoundResolved publishes new
\* standings at the version the room already has.
RoundResolved(q) ==
  /\ Works
  /\ StartPublish(q)
  /\ room' = [room EXCEPT !.news = @ + 1]
  /\ UNCHANGED <<conn, left, hubVars, link, inbox, pageVars, call, faults>>

\* The hub answers a page of somebody else, or acknowledges a heartbeat.
OthersDirect ==
  /\ Works
  /\ direct' = direct + 1
  /\ UNCHANGED <<rowVars, seq, pub, link, inbox, pageVars, call, faults>>

-----------------------------------------------------------------------------
(***************************************************************************)
(* Gateway.                                                                *)
(***************************************************************************)
\* room.subscribe: the snapshot is awaited before anything is registered.
SubscribeLoad(s) ==
  /\ link' = [link EXCEPT ![s].job = "loaded", ![s].snap = room]
  /\ inbox' = [inbox EXCEPT ![s] = Tail(@)]
  /\ UNCHANGED <<direct, faults>>

\* The load throws, for instance on a version conflict of the reconciliation;
\* the page cannot show the error, whose roomVersion is 0.
SubscribeFails(s) ==
  /\ faults < MaxFaults
  /\ faults' = faults + 1
  /\ link' = [link EXCEPT ![s].failed = TRUE]
  /\ direct' = direct + 1
  /\ inbox' = [inbox EXCEPT ![s] = Append(Tail(@), Event("error", Blank, direct + 1))]

\* Runs on with the snapshot even when the socket was closed meanwhile.
SubscribeAttach(s) ==
  /\ link[s].job = "loaded"
  /\ link' = [link EXCEPT ![s].job = "marking", ![s].tagged = TRUE,
                          ![s].attached = @ \/ AttachTo(s)]
  /\ UNCHANGED <<rowVars, hubVars, pub, inbox, pageVars, call, work, faults>>

SubscribeMark(s) ==
  /\ link[s].job = "marking"
  /\ link' = [link EXCEPT ![s].job = "none", ![s].snap = Blank]
  /\ conn' = "CONNECTED"
  /\ SendDirect(s, "snapshot", link[s].snap)
  /\ UNCHANGED <<room, left, seq, pub, pageVars, call, work, faults>>

\* the status a heartbeat writes
BeatenOnly == conn   \* mutant of Beaten: a heartbeat renews only its time
BeatenIdle == IF left THEN "LEFT" ELSE "IDLE"   \* mutant of Beaten
Beaten == IF left THEN "LEFT" ELSE "CONNECTED"

\* player.heartbeat and touchMultiplayerHeartbeat, one transaction (a beat
\* of a socket without a subscription is refused; the number its ack uses up
\* is one of OthersDirect).
Heartbeat(s) ==
  /\ page.beats /\ page.sock = s
  /\ link[s].wire = "open" /\ link[s].tagged
  /\ conn' = Beaten
  /\ UNCHANGED <<room, left, hubVars, pub, link, inbox, pageVars, call, work,
                 faults>>

\* scanForHeartbeatTimeouts finds a socket it has not heard of for 45 s (a page
\* in the background stops its timer): it awaits the row and its publication,
\* then closes the socket, whatever arrived on it meanwhile.
ScanMark(s, q) ==
  /\ faults < MaxFaults
  /\ faults' = faults + 1
  /\ link[s].known /\ link[s].tagged /\ ~link[s].scanned
  /\ StartPublish(q)
  /\ conn' = "DISCONNECTED"
  /\ link' = [link EXCEPT ![s].scanned = TRUE]
  /\ UNCHANGED <<room, left, hubVars, inbox, pageVars, call, work>>

ScanClose(s) ==
  /\ link[s].scanned /\ link[s].wire = "open"
  /\ link' = [link EXCEPT ![s].wire = "closing"]
  /\ UNCHANGED <<rowVars, hubVars, pub, inbox, pageVars, call, work, faults>>

\* handleConnectionClosed; the first half runs without an await.
HandleClosed(s) ==
  /\ link[s].known /\ link[s].wire \in {"closing", "down"}
  /\ link' = [link EXCEPT ![s] = [Unregistered(link[s]) EXCEPT !.scanned = link[s].tagged]]
  /\ UNCHANGED <<rowVars, hubVars, pub, inbox, pageVars, call, work, faults>>

\* The second half, for a socket that had subscribed (scanned stays set
\* until it ran): the row says DISCONNECTED, whoever is connected by now.
MarkDisconnected(s, q) ==
  /\ ~link[s].known /\ link[s].scanned
  /\ StartPublish(q)
  /\ conn' = "DISCONNECTED"
  /\ link' = [link EXCEPT ![s].scanned = FALSE]
  /\ UNCHANGED <<room, left, hubVars, inbox, pageVars, call, work, faults>>

\* The network loses the connection; each side notices in its own time.
Cut(s) ==
  /\ faults < MaxFaults
  /\ faults' = faults + 1
  /\ link[s].wire = "open"
  /\ link' = [link EXCEPT ![s].wire = "down"]
  /\ inbox' = [inbox EXCEPT ![s] = <<>>]
  /\ UNCHANGED <<rowVars, hubVars, pub, pageVars, call, work>>

\* The API process restarts: hub, gateway and every request in flight are gone.
Restart ==
  /\ faults < MaxFaults
  /\ faults' = faults + 1
  /\ seq' = 0 /\ direct' = 0
  /\ pub' = [q \in Publishers |-> Idle]
  /\ link' = [s \in Sockets |-> IF link[s].wire = "none" THEN Unused
                                ELSE [Unused EXCEPT !.wire = "down"]]
  /\ inbox' = [s \in Sockets |-> <<>>]
  /\ call' = NoCall
  /\ UNCHANGED <<rowVars, pageVars, work>>

-----------------------------------------------------------------------------
(***************************************************************************)
(* Page.                                                                   *)
(***************************************************************************)
Fresh == {s \in Sockets : link[s].wire = "none"}

\* The gateway registers the connection and says connection.ready.
Upgrade(s) ==
  /\ link' = [link EXCEPT ![s].wire = "open", ![s].known = TRUE]
  /\ direct' = direct + 1
  /\ inbox' = [inbox EXCEPT ![s] = <<Event("ready", Blank, direct + 1)>>]

\* connectSocket, from the effect or the reconnect timer
Connect(s) ==
  /\ page.up /\ page.member
  /\ page.sock = 0 \/ page.timer
  /\ s \in Fresh /\ \A t \in Fresh : s <= t
  /\ Upgrade(s)
  /\ page' = [page EXCEPT !.sock = s, !.timer = FALSE, !.beats = FALSE]
  /\ UNCHANGED <<rowVars, seq, pub, shown, cursor, call, work, faults>>

\* The page reconnects while it still has a room.
NoRetry == FALSE   \* mutant of Retry: a closed socket stays closed
Retry == page.member

\* The close event of the current socket.
SocketClosed(s) ==
  /\ page.up /\ page.sock = s /\ ~page.timer
  /\ \/ link[s].wire = "down"
     \/ link[s].wire = "closing" /\ inbox[s] = <<>>
  /\ page' = [page EXCEPT !.beats = FALSE, !.timer = Retry]
  /\ UNCHANGED <<rowVars, hubVars, pub, link, inbox, shown, cursor, call, work,
                 faults>>

\* connection.ready: the page starts its heartbeats and subscribes.
Greeted(s) ==
  /\ page' = [page EXCEPT !.beats = TRUE]
  /\ IF link[s].wire = "open" THEN SubscribeLoad(s) \/ SubscribeFails(s)
     ELSE inbox' = [inbox EXCEPT ![s] = Tail(@)] /\ UNCHANGED <<link, direct, faults>>
  /\ UNCHANGED <<shown, cursor>>

AcceptsBySequence(c, e) == e.seq > c.seq   \* mutant of Accepts: no versions

\* shouldAcceptRoomEvent (one room, so the room ids agree)
Accepts(c, e) ==
  \/ e.at.version > c.version
  \/ e.at.version = c.version /\ e.seq > c.seq

From(e) == IF e.kind = "room" THEN "hub" ELSE "direct"

\* A snapshot, standings or error event: commitRoomEvent, then the screen.
RoomEvent(s, e) ==
  /\ inbox' = [inbox EXCEPT ![s] = Tail(@)]
  /\ IF Accepts(cursor, e)
     THEN /\ cursor' = [version |-> e.at.version, seq |-> e.seq, from |-> From(e)]
          /\ shown' = IF e.kind = "error" THEN shown ELSE e.at
     ELSE UNCHANGED <<shown, cursor>>
  /\ UNCHANGED <<direct, link, page, faults>>

\* handleGatewayMessage
Deliver(s) ==
  /\ page.up /\ page.sock = s /\ link[s].wire \in {"open", "closing"}
  /\ inbox[s] # <<>>
  /\ IF Head(inbox[s]).kind = "ready" THEN Greeted(s)
     ELSE RoomEvent(s, Head(inbox[s]))
  /\ UNCHANGED <<rowVars, seq, pub, call, work>>

\* hydrateRoom and leave.  (toggleReady, startCountdown and resetToLobby are,
\* for the page, an OthersCommit and then the answer of a hydrate.)
Ask(kind) ==
  /\ page.up /\ call.step = "none"
  /\ Works
  /\ call' = [call EXCEPT !.kind = kind, !.step = "asked"]
  /\ UNCHANGED <<rowVars, hubVars, pub, link, inbox, pageVars, faults>>

\* getMultiplayerRoomByCode has loaded the answer.
Hydrated ==
  /\ call.step = "asked" /\ call.kind = "hydrate"
  /\ call' = [call EXCEPT !.step = "reply", !.at = room]
  /\ UNCHANGED <<rowVars, hubVars, pub, link, inbox, pageVars, work, faults>>

\* leaveMultiplayerRoom commits and publishes; its answer is not used.
Left(q) ==
  /\ call.step = "asked" /\ call.kind = "leave"
  /\ StartPublish(q)
  /\ room' = [room EXCEPT !.version = @ + 1]
  /\ left' = TRUE /\ conn' = "LEFT"
  /\ call' = [call EXCEPT !.step = "reply"]
  /\ UNCHANGED <<hubVars, link, inbox, pageVars, work, faults>>

\* The answer replaces the screen and restarts the cursor at sequence 0.
HydrateAnswered ==
  /\ page.up /\ call.step = "reply" /\ call.kind = "hydrate"
  /\ shown' = call.at
  /\ cursor' = [version |-> call.at.version, seq |-> 0, from |-> "http"]
  /\ page' = [page EXCEPT !.member = TRUE]
  /\ call' = NoCall
  /\ UNCHANGED <<rowVars, hubVars, pub, link, inbox, work, faults>>

\* disconnectSocket, seen from both ends
Dropped == [s \in Sockets |->
  IF s = page.sock /\ link[s].wire = "open"
  THEN [link[s] EXCEPT !.wire = "down"] ELSE link[s]]

\* The page goes: after a leave, or because the tab is closed.
PageGoes ==
  /\ page.up
  /\ page' = [page EXCEPT !.up = FALSE, !.member = FALSE, !.timer = FALSE,
                          !.beats = FALSE]
  /\ link' = Dropped
  /\ inbox' = [s \in Sockets |-> IF s = page.sock THEN <<>> ELSE inbox[s]]
  /\ shown' = Blank /\ cursor' = StartCursor
  /\ UNCHANGED <<rowVars, hubVars, pub, work>>

LeaveAnswered ==
  /\ call.step = "reply" /\ call.kind = "leave"
  /\ call' = NoCall
  /\ PageGoes
  /\ UNCHANGED faults

CloseTab ==
  /\ faults < MaxFaults
  /\ faults' = faults + 1
  /\ PageGoes
  /\ UNCHANGED call

-----------------------------------------------------------------------------
Gateway(s) ==
  \/ SubscribeAttach(s) \/ SubscribeMark(s) \/ ScanClose(s) \/ HandleClosed(s)
  \/ \E q \in Publishers : MarkDisconnected(s, q)

Publish(q) == PublishLoad(q) \/ PublishSend(q)

Hook(s) == Connect(s) \/ SocketClosed(s) \/ Deliver(s) \/ Heartbeat(s)

Fault ==
  \/ Restart \/ CloseTab
  \/ \E s \in Sockets : Cut(s) \/ \E q \in Publishers : ScanMark(s, q)

Next ==
  \/ \E s \in Sockets : Gateway(s) \/ Hook(s)
  \/ \E q \in Publishers :
       Publish(q) \/ OthersCommit(q) \/ RoundResolved(q) \/ Left(q)
  \/ \E k \in {"hydrate", "leave"} : Ask(k)
  \/ Hydrated \/ HydrateAnswered \/ LeaveAnswered
  \/ OthersDirect \/ Fault

Spec == Init /\ [][Next]_vars

\* What the process has accepted it finishes, the network delivers, and the
\* page's timers fire: nothing is assumed about players, calls or faults.
Fairness ==
  /\ \A q \in Publishers : WF_vars(Publish(q))
  /\ \A s \in Sockets :
       /\ WF_vars(SubscribeAttach(s) \/ SubscribeMark(s))
       /\ WF_vars(Heartbeat(s))
       /\ SF_vars(\E q \in Publishers : MarkDisconnected(s, q))
       /\ WF_vars(ScanClose(s)) /\ WF_vars(HandleClosed(s))
       /\ WF_vars(Connect(s)) /\ WF_vars(SocketClosed(s)) /\ WF_vars(Deliver(s))

FairSpec == Spec /\ Fairness

-----------------------------------------------------------------------------
(***************************************************************************)
(* Properties.                                                             *)
(***************************************************************************)
\* The hub keeps no socket the gateway has forgotten, even when a socket
\* closes while its room.subscribe is waiting for the snapshot.
NoGhostConnection ==
  \A s \in Sockets : link[s].attached => link[s].known /\ link[s].tagged

\* Pushed events never take the screen back to an older room version; only
\* the answer to a call of the page itself can.
PushNeverGoesBack ==
  [][shown'.version < shown.version => call'.step # call.step \/ ~page'.up]_vars

\* The page's socket carries live events.
Attached == page.sock # 0 /\ link[page.sock].attached
                          /\ link[page.sock].wire = "open"

Gone == ~page.up \/ ~page.member
Refused == page.sock # 0 /\ link[page.sock].failed

\* A version whose publication starts while the page is attached is shown,
\* unless the page loses its socket first.
CommittedReachesPage ==
  \A v \in 2..(1 + MaxWork) :
    (Attached /\ room.version = v /\ \E q \in Publishers : pub[q].step = "due")
      ~> (shown.version >= v \/ ~Attached)

\* Whatever is lost, a page that stays is attached again, unless the gateway
\* refused its subscription (the page never repeats it on the same socket).
Resubscribes == []<>(Attached \/ Gone \/ Refused)

\* A player whose page stays is CONNECTED again and again, although the close
\* of an old socket may mark the row after the new socket has subscribed.
LivePlayerIsConnected == []<>(conn = "CONNECTED" \/ Gone \/ Refused \/ left)

\* After a reconnect snapshot "ordering resets from there": an event the hub
\* sends later at the same room version is accepted.
ReconnectResetsOrdering ==
  \A s \in Sockets :
    page.sock = s /\ cursor.from = "direct" /\ inbox[s] # <<>> =>
      LET e == Head(inbox[s]) IN
      e.kind = "room" /\ e.at.version = cursor.version => Accepts(cursor, e)
=============================================================================
