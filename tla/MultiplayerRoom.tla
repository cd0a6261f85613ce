--------------------------- MODULE MultiplayerRoom ---------------------------
(***************************************************************************)
(* The lifecycle of one multiplayer room as                                *)
(* apps/api/src/services/multiplayer-service.ts runs it on Postgres.       *)
(*                                                                         *)
(* Every operation of the service is a transaction that loads the room,    *)
(* decides, and writes under a compare-and-swap on roomVersion, followed   *)
(* by one or two calls of reconcileMultiplayerRoom.  A request is a slot   *)
(* of Requests; each of its actions ends where the code awaits a load or   *)
(* a commit, because other requests run there (READ COMMITTED: every load  *)
(* of a transaction sees what is committed at that moment).  A slot        *)
(* remembers of its load only what its later writes use.                   *)
(*                                                                         *)
(* Abstracted: timestamps (readyAt, leftAt, countdownEndsAt become         *)
(* membership in a set or one of three values), the random choice of the   *)
(* next host and the order of the standings (any choice), challenge ids,   *)
(* connection status and heartbeats, the published events, and calls that  *)
(* end in an error before writing (they change nothing).                   *)
(***************************************************************************)
EXTENDS Integers, FiniteSets, Sequences

CONSTANTS
  Players,      \* people who may hold a membership row of the room
  Creator,      \* the one who creates the room
  NoPlayer,     \* a null player id
  Requests,     \* concurrent request slots of the API processes
  MaxPlayers,   \* MAX_MULTIPLAYER_PLAYERS
  MaxVersion,   \* bound: no new versioned request once roomVersion is here.  For
                \* liveness it is an assumption too: people come to rest at last
  MaxCrashes    \* bound: how many requests may die half way

ASSUME RoomAssumption ==
  /\ NoPlayer \notin Players
  /\ Creator \in Players
  /\ IsFiniteSet(Players)
  /\ MaxPlayers \in Nat \ {0}
  /\ MaxVersion \in Nat
  /\ MaxCrashes \in Nat

VARIABLES
  status,     \* MultiplayerMatch.status
  version,    \* MultiplayerMatch.roomVersion
  host,       \* MultiplayerMatch.hostPlayerId
  countdown,  \* countdownEndsAt: null, in the future, or reached
  joined,     \* players with a MultiplayerMatchPlayer row
  left,       \* rows whose leftAt is set
  ready,      \* rows whose readyAt is set
  place,      \* finalPlace of the row, 0 for null
  session,    \* status of the GameSession the row links
  req,        \* what every request slot is doing
  crashes     \* requests that have died half way

matchVars  == <<status, version, host, countdown>>
memberVars == <<joined, left, ready, place>>
vars == <<matchVars, memberVars, session, req, crashes>>

Statuses == {"PENDING", "COUNTDOWN", "ACTIVE", "COMPLETED", "CANCELLED"}
Terminal == {"COMPLETED", "ABANDONED"}
SessionStatuses == {"none", "PENDING", "ACTIVE"} \union Terminal

\* getActivePlayers
Active == joined \ left

\* canStartCountdown
EveryoneReady == Active \subseteq ready   \* mutant of CanStart: one player may race
CanStart == Cardinality(Active) >= 2 /\ EveryoneReady

\* isTerminalStatus of the linked session
IsDone(p) == session[p] \in Terminal

SomeDone == \E p \in Active : IsDone(p)   \* mutant of AllDone: the first finisher ends it
AllDone == Active # {} /\ \A p \in Active : IsDone(p)

InLobby == status \in {"PENDING", "COUNTDOWN"}

-----------------------------------------------------------------------------
(***************************************************************************)
(* Request slots.  step names the transaction in flight; todo counts the   *)
(* calls of reconcileMultiplayerRoom the handler still has to make.        *)
(***************************************************************************)
\* Transactions that end in updateRoomVersioned with the version loaded first.
Versioned ==
  {"join", "leave", "ready", "unready", "reset", "start",
   "repair", "cancel", "relobby", "race", "complete"}
Steps == Versioned \union {"idle", "reconcile", "activate", "places", "placing"}

Idle ==
  [step |-> "idle", player |-> NoPlayer, ver |-> 0, active |-> {},
   host |-> NoPlayer, order |-> <<>>, base |-> 0, todo |-> 0]

Loaded(step, p, todo) ==
  [Idle EXCEPT !.step = step, !.player = p, !.ver = version,
               !.active = Active, !.host = host, !.todo = todo]

\* A slot whose next step loads the room again and uses nothing older.
Reloading(step, n) == [Idle EXCEPT !.step = step, !.todo = n]

Reconciling(n) == IF n = 0 THEN Idle ELSE Reloading("reconcile", n)

At(r, step) == req[r].step = step

\* Opens a versioned transaction of a client; MaxVersion bounds the model.
Begin(r, step, p) ==
  /\ At(r, "idle")
  /\ version < MaxVersion
  /\ req' = [req EXCEPT ![r] = Loaded(step, p, 2)]
  /\ UNCHANGED <<matchVars, memberVars, session, crashes>>

\* updateRoomVersioned: the row is still at the version the load returned.
Fresh(r) == version = req[r].ver

Bump == version' = version + 1

Then(r, n) == req' = [req EXCEPT ![r] = Reconciling(n)]

\* Mutant of Commit: the update does not compare roomVersion.
CommitUnchecked(r, step) ==
  /\ At(r, step)
  /\ Bump
  /\ Then(r, req[r].todo)
  /\ UNCHANGED crashes

\* A client's transaction commits; the handler goes on to reconcile twice.
Commit(r, step) ==
  /\ At(r, step)
  /\ Fresh(r)
  /\ Bump
  /\ Then(r, req[r].todo)
  /\ UNCHANGED crashes

\* Mutants of CommitReconcile: no comparison of roomVersion; no increment of it.
CommitReconcileUnchecked(r, step) ==
  /\ At(r, step)
  /\ Bump
  /\ Then(r, req[r].todo - 1)
  /\ UNCHANGED crashes

CommitReconcileUncounted(r, step) ==
  /\ At(r, step)
  /\ Fresh(r)
  /\ Then(r, req[r].todo - 1)
  /\ UNCHANGED <<version, crashes>>

\* A transaction of reconcileMultiplayerRoom commits.
CommitReconcile(r, step) ==
  /\ At(r, step)
  /\ Fresh(r)
  /\ Bump
  /\ Then(r, req[r].todo - 1)
  /\ UNCHANGED crashes

\* "Room version conflict.": the transaction rolls back and the handler ends.
Conflict(r) ==
  /\ req[r].step \in Versioned
  /\ ~Fresh(r)
  /\ Then(r, 0)
  /\ UNCHANGED <<matchVars, memberVars, session, crashes>>

\* The process dies or the database drops the connection: the transaction
\* in flight rolls back and what the handler had left to do is lost.
Crash(r) ==
  /\ ~At(r, "idle")
  /\ crashes < MaxCrashes
  /\ crashes' = crashes + 1
  /\ Then(r, 0)
  /\ UNCHANGED <<matchVars, memberVars, session>>

-----------------------------------------------------------------------------
(* Client operations: the load with its checks, then the commit.           *)

JoinLoad(r, p) ==
  /\ p \notin joined
  /\ status = "PENDING"
  /\ Cardinality(Active) < MaxPlayers
  /\ Begin(r, "join", p)

JoinCommit(r) ==
  LET p == req[r].player IN
  /\ Commit(r, "join")
  /\ joined' = joined \union {p}
  /\ session' = [session EXCEPT ![p] = "PENDING"]
  /\ UNCHANGED <<status, host, countdown, left, ready, place>>

LeaveLoad(r, p) ==
  /\ p \in Active
  /\ Begin(r, "leave", p)

\* chooseNextHostId picks one of the remaining players, null if none is left.
NextHosts(remaining) == IF remaining = {} THEN {NoPlayer} ELSE remaining

LeaveWrites(r, p, hosts, sessionStatus) ==
  /\ Commit(r, "leave")
  /\ left' = left \union {p}
  /\ ready' = ready \ {p}
  /\ session' = [session EXCEPT ![p] = sessionStatus]
  /\ host' \in hosts
  /\ UNCHANGED <<status, countdown, joined, place>>

HostsAfterLeave(r) ==
  IF req[r].host = req[r].player
  THEN NextHosts(req[r].active \ {req[r].player})
  ELSE {host}

\* Mutant of LeaveCommit: the session is not stopped.
LeaveKeepsSession(r) ==
  LeaveWrites(r, req[r].player, HostsAfterLeave(r), session[req[r].player])

LeaveCommit(r) == LeaveWrites(r, req[r].player, HostsAfterLeave(r), "ABANDONED")

\* Mutant of ReadyLoad: the check of leftAt is missing.
ReadyLoadAnyMember(r, p) ==
  /\ InLobby
  /\ p \in joined
  /\ Begin(r, "ready", p)

ReadyLoad(r, p) ==
  /\ InLobby
  /\ p \in Active
  /\ \/ Begin(r, "ready", p)
     \/ Begin(r, "unready", p)

ReadyCommit(r) ==
  /\ Commit(r, "ready")
  /\ ready' = ready \union {req[r].player}
  /\ UNCHANGED <<status, host, countdown, joined, left, place, session>>

UnreadyCommit(r) ==
  /\ Commit(r, "unready")
  /\ ready' = ready \ {req[r].player}
  /\ UNCHANGED <<status, host, countdown, joined, left, place, session>>

\* The host check passes for any member while the room has no host.
MayAdminister(p) == p \in joined /\ host \in {NoPlayer, p}

StartLoad(r, p) ==
  /\ MayAdminister(p)
  /\ InLobby
  /\ CanStart
  /\ countdown = "none"
  /\ Begin(r, "start", p)

StartCommit(r) ==
  /\ Commit(r, "start")
  /\ status' = "COUNTDOWN"
  /\ countdown' = "running"
  /\ UNCHANGED <<host, memberVars, session>>

ResetLoad(r, p) ==
  /\ MayAdminister(p)
  /\ status = "COMPLETED"
  /\ Active # {}
  /\ Begin(r, "reset", p)

ResetCommit(r) ==
  LET kept == req[r].active IN
  /\ Commit(r, "reset")
  /\ session' = [p \in Players |-> IF p \in kept THEN "PENDING" ELSE session[p]]
  /\ place' = [p \in Players |-> IF p \in kept THEN 0 ELSE place[p]]
  /\ ready' = ready \ kept
  /\ status' = "PENDING"
  /\ countdown' = "none"
  /\ UNCHANGED <<host, joined, left>>

\* A GET of the room (one reconcile), or an operation that returns early: a
\* member joins or leaves again, readiness or a start outside the lobby, a
\* start of a countdown that runs already (two).
Visit(r) ==
  /\ At(r, "idle")
  /\ \E n \in {1, 2} : Then(r, n)
  /\ UNCHANGED <<matchVars, memberVars, session, crashes>>

\* finishGameSession on the linked session, whatever its status, or its
\* expiry noticed by a poll; then syncMultiplayerSessionState reconciles.
EndSession(r, p) ==
  /\ At(r, "idle")
  /\ p \in joined
  /\ session' = [session EXCEPT ![p] = "COMPLETED"]
  /\ Then(r, 1)
  /\ UNCHANGED <<matchVars, memberVars, crashes>>

-----------------------------------------------------------------------------
(* reconcileMultiplayerRoom: the first load selects one branch.            *)

\* cancels: statuses an empty room is cancelled from; races: statuses in which
\* places are given.
BranchBy(cancels, races) ==
  IF host \notin Active /\ Active # {}                  THEN "repair"
  ELSE IF Active = {} /\ status \in cancels             THEN "cancel"
  ELSE IF InLobby /\ ~CanStart /\ countdown # "none"    THEN "relobby"
  ELSE IF InLobby /\ countdown = "due"                  THEN "activate"
  ELSE IF status \in races                              THEN "places"
  ELSE "idle"

\* Mutants of Branch: an empty lobby is forgotten; places are given only once
\* the room is completed; a completed room is settled.
BranchForgetsLobby == BranchBy(Statuses \ {"PENDING", "CANCELLED"}, {"ACTIVE", "COMPLETED"})
BranchWaitsForEnd  == BranchBy(Statuses \ {"CANCELLED"}, {"COMPLETED"})
BranchStopsAtEnd   == BranchBy(Statuses \ {"CANCELLED"}, {"ACTIVE"})

Branch == BranchBy(Statuses \ {"CANCELLED"}, {"ACTIVE", "COMPLETED"})

ReconcileLoad(r) ==
  /\ At(r, "reconcile")
  /\ IF Branch = "idle"
     THEN Then(r, req[r].todo - 1)
     ELSE req' = [req EXCEPT ![r] =
                    IF Branch \in Versioned
                    THEN Loaded(Branch, NoPlayer, req[r].todo)
                    ELSE Reloading(Branch, req[r].todo)]
  /\ UNCHANGED <<matchVars, memberVars, session, crashes>>

RepairCommit(r) ==
  /\ CommitReconcile(r, "repair")
  /\ host' \in NextHosts(req[r].active)
  /\ UNCHANGED <<status, countdown, memberVars, session>>

CancelCommit(r) ==
  /\ CommitReconcile(r, "cancel")
  /\ status' = "CANCELLED"
  /\ countdown' = "none"
  /\ UNCHANGED <<host, memberVars, session>>

RelobbyCommit(r) ==
  /\ CommitReconcile(r, "relobby")
  /\ status' = "PENDING"
  /\ countdown' = "none"
  /\ UNCHANGED <<host, memberVars, session>>

\* activateCountdownStart checked the room the branch loaded; it loads the
\* room again and takes version and players from that load.
ActivateReload(r) ==
  /\ At(r, "activate")
  /\ req' = [req EXCEPT ![r] = Loaded("race", NoPlayer, req[r].todo)]
  /\ UNCHANGED <<matchVars, memberVars, session, crashes>>

RaceWrites(r, countdownAfter) ==
  /\ CommitReconcile(r, "race")
  /\ status' = "ACTIVE"
  /\ countdown' = countdownAfter
  /\ session' = [p \in Players |-> IF p \in req[r].active THEN "ACTIVE" ELSE session[p]]
  /\ UNCHANGED <<host, memberVars>>

RaceKeepsCountdown(r) == RaceWrites(r, countdown)   \* mutant of RaceCommit

RaceCommit(r) == RaceWrites(r, "none")

\* finalizePlacementsInTransaction, second load: who is placed already, and
\* in which order the players who are done and unplaced will be.
Placed == {p \in joined : place[p] # 0}

\* Mutants of Unplaced: players who are placed already are not skipped; who is
\* placed first is taken for the whole race.
EveryoneDone == {p \in joined : IsDone(p)}
FirstOnly    == {p \in joined : Placed = {} /\ IsDone(p)}

Unplaced == {p \in joined : place[p] = 0 /\ IsDone(p)}

Orders(S) ==
  {s \in [1 .. Cardinality(S) -> S] : \A i, j \in DOMAIN s : s[i] = s[j] => i = j}

PlacesLoad(r) ==
  /\ At(r, "places")
  /\ \E s \in Orders(Unplaced) :
       req' = [req EXCEPT ![r].step = "placing", ![r].order = s,
                          ![r].base = Cardinality(Placed)]
  /\ UNCHANGED <<matchVars, memberVars, session, crashes>>

\* The place a slot has planned for p, 0 if it plans none.
Planned(r, p) ==
  LET mine == {i \in DOMAIN req[r].order : req[r].order[i] = p} IN
  IF mine = {} THEN 0 ELSE req[r].base + (CHOOSE i \in mine : TRUE)

\* @@unique([matchId, finalPlace]): one of the updates, made in order, takes a
\* place that a row not yet rewritten holds.
Clash(r) ==
  LET order == req[r].order IN
  \E i \in DOMAIN order : \E q \in joined :
    /\ place[q] = req[r].base + i
    /\ \A j \in 1 .. i : order[j] # q

PlacesWritten(r) ==
  place' = [p \in Players |-> IF Planned(r, p) # 0 THEN Planned(r, p) ELSE place[p]]

RaceIsOver == status = "ACTIVE" /\ AllDone

\* The updates and the third load, which finds no race to complete: the
\* transaction commits without looking at the version.
PlacesCommit(r) ==
  /\ At(r, "placing")
  /\ ~Clash(r)
  /\ ~RaceIsOver
  /\ PlacesWritten(r)
  /\ Then(r, req[r].todo - 1)
  /\ UNCHANGED <<matchVars, joined, left, ready, session, crashes>>

\* The third load finds the race over.  The updates are not committed yet:
\* they hold their rows, and nobody sees them before CompleteCommit.
CompleteLoad(r) ==
  /\ At(r, "placing")
  /\ ~Clash(r)
  /\ RaceIsOver
  /\ req' = [req EXCEPT ![r].step = "complete", ![r].ver = version]
  /\ UNCHANGED <<matchVars, memberVars, session, crashes>>

CompleteCommit(r) ==
  /\ CommitReconcile(r, "complete")
  /\ PlacesWritten(r)
  /\ status' = "COMPLETED"
  /\ UNCHANGED <<host, countdown, joined, left, ready, session>>

\* The unique index refuses an update: the transaction rolls back, the handler ends.
PlacesClash(r) ==
  /\ At(r, "placing")
  /\ Clash(r)
  /\ Then(r, 0)
  /\ UNCHANGED <<matchVars, memberVars, session, crashes>>

\* countdownEndsAt passes.
CountdownEnds ==
  /\ countdown = "running"
  /\ countdown' = "due"
  /\ UNCHANGED <<status, version, host, memberVars, session, req, crashes>>

-----------------------------------------------------------------------------
\* createMultiplayerRoom has committed: its creator is host and only member.
Init ==
  /\ status = "PENDING"
  /\ version = 2
  /\ host = Creator
  /\ countdown = "none"
  /\ joined = {Creator}
  /\ left = {}
  /\ ready = {}
  /\ place = [p \in Players |-> 0]
  /\ session = [p \in Players |-> IF p = Creator THEN "PENDING" ELSE "none"]
  /\ req = [r \in Requests |-> Idle]
  /\ crashes = 0

ClientLoad(r) ==
  \E p \in Players :
    \/ JoinLoad(r, p)  \/ LeaveLoad(r, p) \/ ReadyLoad(r, p)
    \/ StartLoad(r, p) \/ ResetLoad(r, p) \/ EndSession(r, p)

\* What a request does on its own once it is under way.
Proceed(r) ==
  \/ JoinCommit(r)   \/ LeaveCommit(r)    \/ ReadyCommit(r)   \/ UnreadyCommit(r)
  \/ StartCommit(r)  \/ ResetCommit(r)    \/ ReconcileLoad(r) \/ RepairCommit(r)
  \/ CancelCommit(r) \/ RelobbyCommit(r)  \/ ActivateReload(r) \/ RaceCommit(r)
  \/ PlacesLoad(r)   \/ PlacesCommit(r)   \/ PlacesClash(r)
  \/ CompleteLoad(r) \/ CompleteCommit(r) \/ Conflict(r)

Next ==
  \/ \E r \in Requests : ClientLoad(r) \/ Visit(r) \/ Proceed(r) \/ Crash(r)
  \/ CountdownEnds

Spec == Init /\ [][Next]_vars

\* Requests under way run on, time passes, and somebody comes back to the room
\* again and again: no job of the server would look after it otherwise.
Fairness ==
  /\ \A r \in Requests : WF_vars(Proceed(r))
  /\ WF_vars(CountdownEnds)
  /\ WF_vars(\E r \in Requests : Visit(r))

FairSpec == Spec /\ Fairness

-----------------------------------------------------------------------------
(* What holds of the room.                                                 *)

RequestType ==
  [step : Steps, player : Players \union {NoPlayer}, ver : Nat, active : SUBSET Players,
   host : Players \union {NoPlayer}, order : Seq(Players), base : Nat, todo : 0 .. 2]

\* Every variable keeps its type, and a request is idle exactly when no
\* reconciliation is left for it to make.
TypeOK ==
  /\ status \in Statuses
  /\ version \in Nat
  /\ host \in Players \union {NoPlayer}
  /\ countdown \in {"none", "running", "due"}
  /\ joined \in SUBSET Players
  /\ left \in SUBSET joined
  /\ ready \in SUBSET Active
  /\ place \in [Players -> Nat]
  /\ session \in [Players -> SessionStatuses]
  /\ req \in [Requests -> RequestType]
  /\ \A r \in Requests : At(r, "idle") <=> req[r].todo = 0
  /\ crashes \in Nat

\* Two joins that both saw the last free seat never both get it.
Capacity == Cardinality(Active) <= MaxPlayers

\* Whoever the room names as its host has not left it: a leave and the choice
\* of the next host are one transaction, and no other can slip in between.
HostIsPresent == host # NoPlayer => host \in Active

\* A cancelled room stays empty: a join that loaded the room before it was
\* cancelled cannot enter it.
CancelledIsEmpty == status = "CANCELLED" => Active = {}

\* A session runs only in a room that races, and only for a player who is
\* still in it: leaving, cancelling, completing and reopening stop or replace
\* the sessions they must, in every order of requests.
RunsOnlyInRace ==
  \A p \in Players : session[p] = "ACTIVE" => status = "ACTIVE" /\ p \in Active

\* Nobody who is in a racing room still waits for a session to start: a join
\* that overlaps the start of the race is either in it or refused.
NobodyWaitsInRace == status = "ACTIVE" => \A p \in Active : session[p] # "PENDING"

\* The room is completed only when every session of a present player is over.
CompletedIsDone == status = "COMPLETED" => \A p \in Active : IsDone(p)

\* The countdown time is set exactly while the room counts down; clients show
\* it and the reconciliation branches on it.
CountdownMatchesStatus == countdown # "none" <=> status = "COUNTDOWN"

\* Snapshots of one roomVersion agree on who is in the room, who is host, who is
\* ready, its status and whether it counts down; a page drops what has an older
\* version, so a change of these that did not raise it by one could be shown and
\* then overwritten by what was there before.  Two things move on within a
\* version, and only forward: sessions end and places are given.  (Scores and
\* connection status, which a snapshot shows too, are not in this module.)
OnlyProgressIsUnversioned ==
  [][ /\ version' \in {version, version + 1}
      /\ version' = version =>
           /\ UNCHANGED <<status, host, joined, left, ready>>
           /\ (countdown' = "none") <=> (countdown = "none")
           /\ \A p \in Players : /\ session'[p] \in {session[p], "COMPLETED"}
                                 /\ place[p] # 0 => place'[p] # 0 ]_vars

\* What the load of a join or of a start checked still holds when it commits:
\* players enter only an open lobby with a free seat, and a countdown starts
\* only with two players or more, all ready.
ChecksHoldAtCommit ==
  [][ /\ joined' # joined => status = "PENDING" /\ Cardinality(Active) < MaxPlayers
      /\ status' = "COUNTDOWN" /\ status # "COUNTDOWN" => InLobby /\ CanStart ]_vars

\* A final place, once given, is only ever taken back by reopening the lobby of
\* a completed room; no later finalization rewrites it.
PlacesStand ==
  [][ \A p \in Players :
        place[p] # 0 /\ place'[p] # place[p] => place'[p] = 0 /\ status = "COMPLETED" ]_vars

\* The places a finalization has planned are free: the unique index on
\* (matchId, finalPlace) never has to refuse one.
NoPlaceClash == \A r \in Requests : At(r, "placing") => ~Clash(r)

\* A race starts with two active players or more.
StartsWithTwo ==
  [][ status' = "ACTIVE" /\ status # "ACTIVE" => Cardinality(Active) >= 2 ]_vars

\* One request at a time, the room is the abstract room: no status is skipped
\* or revisited, starting needs everybody, and the race ends when nobody runs.
Lifecycle ==
  INSTANCE RoomLifecycle WITH
    Seats <- MaxPlayers, phase <- status, roster <- Active, gone <- left,
    owner <- host, willing <- ready,
    racing <- {p \in Players : session[p] = "ACTIVE"}

KeepsLifecycle == Lifecycle!LifeSpec

\* Overlapping requests break that promise in one place only: the activation
\* that repeats its checks on the room it loaded first.  Whatever they do else
\* is a step of the abstract room.
OnlyActivationIsLate == Lifecycle!LooseSpec

\* A countdown that has run out becomes a race or goes back to the lobby.
CountdownResolves == countdown = "due" ~> countdown # "due"

\* A place that a finalization would give is taken, by a player who left after an
\* earlier race or by one a concurrent finalization has placed: the unique index
\* refuses it (NoPlaceClash does not hold).
PlacesTaken ==
  LET first == Cardinality(Placed) + 1 IN
  \E q \in Placed : place[q] \in first .. (first + Cardinality(Unplaced) - 1)

\* Once no session of a present player runs, the race ends, whoever leaves
\* meanwhile and whatever crashes, unless a second start that overlapped the
\* first sets the sessions going again or the index refuses the places.
DoneRaceEnds == status = "ACTIVE" /\ AllDone ~> status # "ACTIVE" \/ ~AllDone \/ PlacesTaken

\* Everybody in a completed room gets a place, unless the index refuses it, the
\* player leaves or the room is reopened.
FinishersGetPlaces ==
  \A p \in Players :
    status = "COMPLETED" /\ p \in Active ~>
      place[p] # 0 \/ status # "COMPLETED" \/ p \in left \/ PlacesTaken

\* A room that everybody has left is cancelled, unless a join that the
\* reconciliation did not outrun has moved in.
EmptyRoomCloses == Active = {} ~> status = "CANCELLED" \/ Active # {}

=============================================================================
