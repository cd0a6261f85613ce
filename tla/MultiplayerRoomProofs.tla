------------------------ MODULE MultiplayerRoomProofs ------------------------
(***************************************************************************)
(* The safety of MultiplayerRoom for every set of players and of request   *)
(* slots.  The key is optimistic locking: while the version a transaction  *)
(* loaded is still the room's version, everything its load checked still   *)
(* holds, because whoever changes one of those facts raises the version.   *)
(***************************************************************************)
EXTENDS MultiplayerRoom, FiniteSetTheorems, TLAPS

\* What the load of a versioned transaction established.
LoadHolds(r) ==
  LET q == req[r] IN
  /\ q.step # "complete" => q.active = Active /\ q.host = host
  /\ q.step = "join" => /\ q.player \in Players \ joined
                        /\ status = "PENDING"
                        /\ Cardinality(Active) < MaxPlayers
  /\ q.step \in {"leave", "ready", "unready"} => q.player \in Active
  /\ q.step \in {"ready", "unready"} => InLobby
  /\ q.step = "start" => InLobby /\ CanStart /\ countdown = "none"
  /\ q.step = "reset" => status = "COMPLETED" /\ Active # {}
  /\ q.step = "repair" => host \notin Active /\ Active # {}
  /\ q.step = "cancel" => Active = {} /\ status # "CANCELLED"
  /\ q.step = "relobby" => InLobby /\ ~CanStart /\ countdown # "none"
  /\ q.step = "complete" => RaceIsOver

\* A transaction never loads a version that is still to come, and what it
\* loaded holds as long as the version stands.
Optimistic ==
  \A r \in Requests : req[r].step \in Versioned =>
    /\ req[r].ver <= version
    /\ Fresh(r) => LoadHolds(r)

Safety ==
  /\ Capacity
  /\ HostIsPresent
  /\ CancelledIsEmpty
  /\ RunsOnlyInRace
  /\ NobodyWaitsInRace
  /\ CompletedIsDone
  /\ CountdownMatchesStatus

IInv == TypeOK /\ Optimistic /\ Safety

-----------------------------------------------------------------------------
(* Request records.                                                        *)

LEMMA IdleFields ==
  /\ Idle \in RequestType
  /\ Idle.step = "idle" /\ Idle.todo = 0
BY RoomAssumption DEF Idle, RequestType, Steps

LEMMA ReloadingFields ==
  ASSUME NEW step \in Steps, NEW n \in 0 .. 2
  PROVE  /\ Reloading(step, n) \in RequestType
         /\ Reloading(step, n).step = step /\ Reloading(step, n).todo = n
BY IdleFields DEF Reloading, Idle, RequestType

\* What is left of a request after a commit is idle or about to reconcile.
LEMMA ReconcilingFields ==
  ASSUME NEW n \in 0 .. 2
  PROVE  /\ Reconciling(n) \in RequestType
         /\ Reconciling(n).step \in {"idle", "reconcile"}
         /\ Reconciling(n).step = "idle" <=> Reconciling(n).todo = 0
         /\ Reconciling(n).step \notin Versioned
BY IdleFields DEF Reconciling, Reloading, Idle, RequestType, Steps, Versioned

\* What a load leaves in its slot.
LEMMA LoadedFields ==
  ASSUME TypeOK, NEW step \in Steps, NEW p \in Players \union {NoPlayer}, NEW n \in 0 .. 2
  PROVE  /\ Loaded(step, p, n) \in RequestType
         /\ Loaded(step, p, n).step = step
         /\ Loaded(step, p, n).player = p
         /\ Loaded(step, p, n).ver = version
         /\ Loaded(step, p, n).active = Active
         /\ Loaded(step, p, n).host = host
         /\ Loaded(step, p, n).todo = n
BY IdleFields DEF Loaded, Idle, RequestType, TypeOK, Active

LEMMA ActiveFinite ==
  ASSUME TypeOK
  PROVE  IsFiniteSet(Active) /\ Cardinality(Active) \in Nat
<1>1. Active \in SUBSET Players
  BY DEF TypeOK, Active
<1>2. QED
  BY <1>1, RoomAssumption, FS_Subset, FS_CardinalityType

-----------------------------------------------------------------------------
(* Optimistic locking.                                                     *)

\* Once the version is raised, no other transaction in flight is fresh.
LEMMA BumpKeepsOptimistic ==
  ASSUME TypeOK, Optimistic, Bump,
         NEW r \in Requests, NEW n \in 0 .. 2, Then(r, n)
  PROVE  Optimistic'
<1> SUFFICES ASSUME NEW s \in Requests, req'[s].step \in Versioned
             PROVE  /\ req'[s].ver <= version'
                    /\ ~Fresh(s)'
  BY DEF Optimistic
<1>1. s # r
  BY ReconcilingFields DEF Then, TypeOK
<1>2. req'[s] = req[s]
  BY <1>1 DEF Then, TypeOK
<1>3. req[s].ver \in Nat /\ version \in Nat /\ req[s].ver <= version
  BY <1>2 DEF Optimistic, TypeOK, RequestType
<1>4. QED
  BY <1>2, <1>3 DEF Bump, Fresh

\* A slot that ends its transaction disturbs no other, provided no finished
\* session is set going again.
LEMMA ThenKeepsOptimistic ==
  ASSUME TypeOK, Optimistic, UNCHANGED <<matchVars, joined, left, ready>>,
         \A p \in Players : IsDone(p) => IsDone(p)',
         NEW r \in Requests, NEW n \in 0 .. 2, Then(r, n)
  PROVE  Optimistic'
<1> SUFFICES ASSUME NEW s \in Requests, req'[s].step \in Versioned
             PROVE  /\ req'[s].ver <= version'
                    /\ Fresh(s)' => LoadHolds(s)'
  BY DEF Optimistic
<1>1. s # r
  BY ReconcilingFields DEF Then, TypeOK
<1>2. req'[s] = req[s]
  BY <1>1 DEF Then, TypeOK
<1>3. QED
  BY <1>2 DEF TypeOK, Optimistic, Fresh, LoadHolds, matchVars, Active, InLobby, CanStart,
              EveryoneReady, RaceIsOver, AllDone

\* Ending a transaction keeps the slots well typed.
LEMMA ThenKeepsRequests ==
  ASSUME TypeOK, NEW r \in Requests, NEW n \in 0 .. 2, Then(r, n)
  PROVE  /\ req' \in [Requests -> RequestType]
         /\ \A s \in Requests : At(s, "idle")' <=> req'[s].todo = 0
BY ReconcilingFields DEF TypeOK, Then, At

\* A load keeps them well typed too, and every transaction's facts: its own
\* must hold where it loads.
LEMMA LoadKeepsInvariant ==
  ASSUME IInv, UNCHANGED <<matchVars, memberVars, session, crashes>>,
         NEW r \in Requests, NEW step \in Steps \ {"idle"},
         NEW p \in Players \union {NoPlayer}, NEW n \in 1 .. 2,
         req' = [req EXCEPT ![r] = Loaded(step, p, n)],
         step \in Versioned => LoadHolds(r)'
  PROVE  IInv'
<1>1. req'[r] = Loaded(step, p, n) /\ \A s \in Requests \ {r} : req'[s] = req[s]
  BY DEF IInv, TypeOK
<1>2. TypeOK'
  BY <1>1, LoadedFields DEF IInv, TypeOK, At, matchVars, memberVars, Active
<1>3. Optimistic'
  <2> SUFFICES ASSUME NEW s \in Requests, req'[s].step \in Versioned
               PROVE  /\ req'[s].ver <= version'
                      /\ Fresh(s)' => LoadHolds(s)'
    BY DEF Optimistic
  <2>1. CASE s = r
    BY <1>1, <2>1, LoadedFields DEF IInv, TypeOK, matchVars
  <2>2. CASE s # r
    BY <1>1, <2>2 DEF IInv, Optimistic, Fresh, LoadHolds, matchVars, memberVars, Active,
                      InLobby, CanStart, EveryoneReady, RaceIsOver, AllDone, IsDone
  <2>3. QED
    BY <2>1, <2>2
<1>4. Safety'
  BY DEF IInv, Safety, Capacity, HostIsPresent, CancelledIsEmpty, RunsOnlyInRace,
         NobodyWaitsInRace, CompletedIsDone, CountdownMatchesStatus, Active, IsDone,
         matchVars, memberVars
<1>5. QED
  BY <1>2, <1>3, <1>4 DEF IInv

-----------------------------------------------------------------------------
(* Commits under the compare-and-swap.                                     *)

\* The part of TypeOK that concerns the rows of the room.
RowType ==
  /\ status \in Statuses
  /\ host \in Players \union {NoPlayer}
  /\ countdown \in {"none", "running", "due"}
  /\ joined \in SUBSET Players
  /\ left \in SUBSET joined
  /\ ready \in SUBSET Active
  /\ place \in [Players -> Nat]
  /\ session \in [Players -> SessionStatuses]

\* A commit may rely on what its load checked, and raises the version.
LEMMA CommitFacts ==
  ASSUME IInv, NEW r \in Requests, NEW step \in Versioned,
         Commit(r, step) \/ CommitReconcile(r, step)
  PROVE  /\ req[r] \in RequestType
         /\ req[r].step = step
         /\ LoadHolds(r)
         /\ Bump
         /\ UNCHANGED crashes
         /\ \E n \in 0 .. 2 : Then(r, n)
<1>1. req[r] \in RequestType /\ req[r].step = step /\ Fresh(r) /\ Bump /\ UNCHANGED crashes
  BY DEF Commit, CommitReconcile, At, IInv, TypeOK
<1>2. LoadHolds(r)
  BY <1>1 DEF IInv, Optimistic
<1>3. req[r].todo \in 1 .. 2
  BY <1>1 DEF IInv, TypeOK, At, RequestType, Versioned
<1>4. \E n \in 0 .. 2 : Then(r, n)
  BY <1>3 DEF Commit, CommitReconcile
<1>5. QED
  BY <1>1, <1>2, <1>4

\* It keeps the invariant when the rows it leaves are well typed and safe.
LEMMA CommitKeepsInvariant ==
  ASSUME IInv, NEW r \in Requests, NEW step \in Versioned,
         Commit(r, step) \/ CommitReconcile(r, step), RowType', Safety'
  PROVE  IInv'
<1>1. PICK n \in 0 .. 2 : Then(r, n)
  BY CommitFacts
<1>2. Bump /\ UNCHANGED crashes
  BY CommitFacts
<1>3. Optimistic'
  BY <1>1, <1>2, BumpKeepsOptimistic DEF IInv
<1>4. TypeOK'
  BY <1>1, <1>2, ThenKeepsRequests DEF IInv, TypeOK, RowType, Bump
<1>5. QED
  BY <1>3, <1>4 DEF IInv

LEMMA JoinKeepsInvariant ==
  ASSUME IInv, NEW r \in Requests, JoinCommit(r)
  PROVE  IInv'
<1> DEFINE p == req[r].player
<1>1. Commit(r, "join") /\ "join" \in Versioned
  BY DEF JoinCommit, Versioned
<1>2. LoadHolds(r) /\ req[r].step = "join"
  BY <1>1, CommitFacts
<1>3. p \in Players \ joined /\ status = "PENDING" /\ Cardinality(Active) < MaxPlayers
  BY <1>2 DEF LoadHolds
<1>4. Active' = Active \union {p} /\ p \notin Active
  BY <1>3 DEF JoinCommit, Active, IInv, TypeOK
<1>5. RowType'
  BY <1>3, <1>4 DEF JoinCommit, RowType, IInv, TypeOK, SessionStatuses
<1>6. Capacity'
  <2>1. Cardinality(Active') = Cardinality(Active) + 1
    BY <1>4, ActiveFinite, FS_AddElement DEF IInv
  <2>2. QED
    BY <2>1, <1>3, ActiveFinite, RoomAssumption DEF Capacity, IInv
<1>7. (HostIsPresent /\ CancelledIsEmpty /\ RunsOnlyInRace /\ NobodyWaitsInRace
       /\ CompletedIsDone /\ CountdownMatchesStatus)'
  BY <1>3, <1>4 DEF JoinCommit, IInv, TypeOK, Safety, HostIsPresent, CancelledIsEmpty,
     RunsOnlyInRace, NobodyWaitsInRace, CompletedIsDone, CountdownMatchesStatus
<1>8. QED
  BY <1>1, <1>5, <1>6, <1>7, CommitKeepsInvariant DEF Safety

LEMMA LeaveKeepsInvariant ==
  ASSUME IInv, NEW r \in Requests, LeaveCommit(r)
  PROVE  IInv'
<1> DEFINE p == req[r].player
<1>1. Commit(r, "leave") /\ "leave" \in Versioned
  BY DEF LeaveCommit, LeaveWrites, Versioned
<1>2. LoadHolds(r) /\ req[r].step = "leave"
  BY <1>1, CommitFacts
<1>3. p \in Active /\ req[r].active = Active /\ req[r].host = host
  BY <1>2 DEF LoadHolds
<1>4. Active' = Active \ {p} /\ Active \in SUBSET Players
  BY <1>3 DEF LeaveCommit, LeaveWrites, Active, IInv, TypeOK
<1>5. host' # NoPlayer => host' \in Active \ {p}
  BY <1>3, RoomAssumption DEF LeaveCommit, LeaveWrites, HostsAfterLeave, NextHosts,
     IInv, Safety, HostIsPresent
<1>6. session' = [session EXCEPT ![p] = "ABANDONED"]
  BY DEF LeaveCommit, LeaveWrites
<1>7. RowType'
  BY <1>3, <1>4, <1>5, <1>6 DEF LeaveCommit, LeaveWrites, RowType, IInv, TypeOK,
     SessionStatuses, Terminal, Active
<1>8. Capacity'
  BY <1>4, ActiveFinite, FS_Subset, FS_RemoveElement, <1>3, RoomAssumption
     DEF Capacity, IInv, Safety
<1>9. (HostIsPresent /\ CancelledIsEmpty /\ RunsOnlyInRace /\ NobodyWaitsInRace
       /\ CompletedIsDone /\ CountdownMatchesStatus)'
  BY <1>3, <1>4, <1>5, <1>6 DEF LeaveCommit, LeaveWrites, IInv, TypeOK, Safety,
     HostIsPresent, CancelledIsEmpty, RunsOnlyInRace, NobodyWaitsInRace, CompletedIsDone,
     CountdownMatchesStatus, IsDone
<1>10. QED
  BY <1>1, <1>7, <1>8, <1>9, CommitKeepsInvariant DEF Safety

\* Readiness, a start, and the reconciliations that change only the match row
\* leave rows and sessions as they are.
LEMMA ReadinessKeepsInvariant ==
  ASSUME IInv, NEW r \in Requests, ReadyCommit(r) \/ UnreadyCommit(r)
  PROVE  IInv'
<1>1. PICK step \in {"ready", "unready"} : Commit(r, step)
  BY DEF ReadyCommit, UnreadyCommit
<1>2. step \in Versioned
  BY DEF Versioned
<1>3. LoadHolds(r) /\ req[r].step = step
  BY <1>1, <1>2, CommitFacts
<1>4. req[r].player \in Active
  BY <1>3 DEF LoadHolds
<1>5. UNCHANGED <<status, host, countdown, joined, left, place, session>>
  BY DEF ReadyCommit, UnreadyCommit
<1>6. RowType'
  BY <1>4, <1>5 DEF ReadyCommit, UnreadyCommit, RowType, IInv, TypeOK, Active
<1>7. Safety'
  BY <1>5 DEF IInv, Safety, Capacity, HostIsPresent, CancelledIsEmpty, RunsOnlyInRace,
     NobodyWaitsInRace, CompletedIsDone, CountdownMatchesStatus, Active, IsDone
<1>8. QED
  BY <1>1, <1>2, <1>6, <1>7, CommitKeepsInvariant

LEMMA StartKeepsInvariant ==
  ASSUME IInv, NEW r \in Requests, StartCommit(r)
  PROVE  IInv'
<1>1. Commit(r, "start") /\ "start" \in Versioned
  BY DEF StartCommit, Versioned
<1>2. LoadHolds(r) /\ req[r].step = "start"
  BY <1>1, CommitFacts
<1>3. InLobby
  BY <1>2 DEF LoadHolds
<1>4. status' = "COUNTDOWN" /\ countdown' = "running"
      /\ UNCHANGED <<host, joined, left, ready, place, session>>
  BY DEF StartCommit, memberVars
<1>5. RowType'
  BY <1>4 DEF RowType, IInv, TypeOK, Active, Statuses
<1>6. Safety'
  BY <1>3, <1>4 DEF IInv, Safety, Capacity, HostIsPresent, CancelledIsEmpty, RunsOnlyInRace,
     NobodyWaitsInRace, CompletedIsDone, CountdownMatchesStatus, Active, IsDone, InLobby
<1>7. QED
  BY <1>1, <1>5, <1>6, CommitKeepsInvariant

\* Reopening: only the sessions of present players are replaced, none of them runs.
LEMMA ResetKeepsInvariant ==
  ASSUME IInv, NEW r \in Requests, ResetCommit(r)
  PROVE  IInv'
<1>1. Commit(r, "reset") /\ "reset" \in Versioned
  BY DEF ResetCommit, Versioned
<1>2. LoadHolds(r) /\ req[r].step = "reset"
  BY <1>1, CommitFacts
<1>3. req[r].active = Active /\ status = "COMPLETED"
  BY <1>2 DEF LoadHolds
<1>4. /\ session' = [p \in Players |-> IF p \in Active THEN "PENDING" ELSE session[p]]
      /\ place' = [p \in Players |-> IF p \in Active THEN 0 ELSE place[p]]
      /\ ready' = ready \ Active
      /\ status' = "PENDING" /\ countdown' = "none"
      /\ UNCHANGED <<host, joined, left>>
  BY <1>3 DEF ResetCommit
<1>5. RowType'
  BY <1>4 DEF RowType, IInv, TypeOK, Active, Statuses, SessionStatuses
<1>6. Safety'
  BY <1>3, <1>4 DEF IInv, TypeOK, Safety, Capacity, HostIsPresent, CancelledIsEmpty,
     RunsOnlyInRace, NobodyWaitsInRace, CompletedIsDone, CountdownMatchesStatus, Active, IsDone
<1>7. QED
  BY <1>1, <1>5, <1>6, CommitKeepsInvariant

LEMMA RepairKeepsInvariant ==
  ASSUME IInv, NEW r \in Requests, RepairCommit(r)
  PROVE  IInv'
<1>1. CommitReconcile(r, "repair") /\ "repair" \in Versioned
  BY DEF RepairCommit, Versioned
<1>2. LoadHolds(r) /\ req[r].step = "repair"
  BY <1>1, CommitFacts
<1>3. host' \in Active
  BY <1>2 DEF LoadHolds, RepairCommit, NextHosts
<1>4. UNCHANGED <<status, countdown, joined, left, ready, place, session>>
  BY DEF RepairCommit, memberVars
<1>5. RowType'
  BY <1>3, <1>4 DEF RowType, IInv, TypeOK, Active
<1>6. Safety'
  BY <1>3, <1>4 DEF IInv, Safety, Capacity, HostIsPresent, CancelledIsEmpty, RunsOnlyInRace,
     NobodyWaitsInRace, CompletedIsDone, CountdownMatchesStatus, Active, IsDone
<1>7. QED
  BY <1>1, <1>5, <1>6, CommitKeepsInvariant

\* Cancelling: the room was empty, so no session of it runs.
LEMMA CancelKeepsInvariant ==
  ASSUME IInv, NEW r \in Requests, CancelCommit(r)
  PROVE  IInv'
<1>1. CommitReconcile(r, "cancel") /\ "cancel" \in Versioned
  BY DEF CancelCommit, Versioned
<1>2. LoadHolds(r) /\ req[r].step = "cancel"
  BY <1>1, CommitFacts
<1>3. Active = {}
  BY <1>2 DEF LoadHolds
<1>4. status' = "CANCELLED" /\ countdown' = "none"
      /\ UNCHANGED <<host, joined, left, ready, place, session>>
  BY DEF CancelCommit, memberVars
<1>5. RowType'
  BY <1>4 DEF RowType, IInv, TypeOK, Active, Statuses
<1>6. Safety'
  BY <1>3, <1>4 DEF IInv, Safety, Capacity, HostIsPresent, CancelledIsEmpty, RunsOnlyInRace,
     NobodyWaitsInRace, CompletedIsDone, CountdownMatchesStatus, Active, IsDone
<1>7. QED
  BY <1>1, <1>5, <1>6, CommitKeepsInvariant

LEMMA RelobbyKeepsInvariant ==
  ASSUME IInv, NEW r \in Requests, RelobbyCommit(r)
  PROVE  IInv'
<1>1. CommitReconcile(r, "relobby") /\ "relobby" \in Versioned
  BY DEF RelobbyCommit, Versioned
<1>2. LoadHolds(r) /\ req[r].step = "relobby"
  BY <1>1, CommitFacts
<1>3. InLobby
  BY <1>2 DEF LoadHolds
<1>4. status' = "PENDING" /\ countdown' = "none"
      /\ UNCHANGED <<host, joined, left, ready, place, session>>
  BY DEF RelobbyCommit, memberVars
<1>5. RowType'
  BY <1>4 DEF RowType, IInv, TypeOK, Active, Statuses
<1>6. Safety'
  BY <1>3, <1>4 DEF IInv, Safety, Capacity, HostIsPresent, CancelledIsEmpty, RunsOnlyInRace,
     NobodyWaitsInRace, CompletedIsDone, CountdownMatchesStatus, Active, IsDone, InLobby
<1>7. QED
  BY <1>1, <1>5, <1>6, CommitKeepsInvariant

\* The race: however stale the check before the reload was, everybody present
\* at the commit gets a running session, and nobody else has one.
LEMMA RaceKeepsInvariant ==
  ASSUME IInv, NEW r \in Requests, RaceCommit(r)
  PROVE  IInv'
<1>1. CommitReconcile(r, "race") /\ "race" \in Versioned
  BY DEF RaceCommit, RaceWrites, Versioned
<1>2. LoadHolds(r) /\ req[r].step = "race"
  BY <1>1, CommitFacts
<1>3. status' = "ACTIVE" /\ countdown' = "none"
      /\ session' = [p \in Players |-> IF p \in Active THEN "ACTIVE" ELSE session[p]]
      /\ UNCHANGED <<host, joined, left, ready, place>>
  BY <1>2 DEF RaceCommit, RaceWrites, LoadHolds, memberVars
<1>4. RowType'
  BY <1>3 DEF RowType, IInv, TypeOK, Active, Statuses, SessionStatuses
<1>5. Safety'
  BY <1>3 DEF IInv, TypeOK, Safety, Capacity, HostIsPresent, CancelledIsEmpty, RunsOnlyInRace,
     NobodyWaitsInRace, CompletedIsDone, CountdownMatchesStatus, Active, IsDone
<1>6. QED
  BY <1>1, <1>4, <1>5, CommitKeepsInvariant

-----------------------------------------------------------------------------
(* Steps that leave the version alone.                                     *)

\* A slot moves on or gives up, and no row that a version guards has changed.
LEMMA QuietKeepsInvariant ==
  ASSUME IInv, NEW r \in Requests, NEW n \in 0 .. 2, Then(r, n),
         UNCHANGED <<matchVars, joined, left, ready>>,
         \A p \in Players : IsDone(p) => IsDone(p)',
         place' \in [Players -> Nat], session' \in [Players -> SessionStatuses],
         crashes' \in Nat, Safety'
  PROVE  IInv'
<1>1. Optimistic'
  BY ThenKeepsOptimistic DEF IInv
<1>2. TypeOK'
  BY ThenKeepsRequests DEF IInv, TypeOK, matchVars, Active
<1>3. QED
  BY <1>1, <1>2 DEF IInv

\* A conflict, a crash, a refused place, a visit: nothing but the slot changes.
LEMMA EndingKeepsInvariant ==
  ASSUME IInv, NEW r \in Requests, NEW n \in 0 .. 2, Then(r, n),
         UNCHANGED <<matchVars, memberVars, session>>, crashes' \in Nat
  PROVE  IInv'
<1>1. Safety'
  BY DEF IInv, Safety, Capacity, HostIsPresent, CancelledIsEmpty, RunsOnlyInRace,
         NobodyWaitsInRace, CompletedIsDone, CountdownMatchesStatus, Active, IsDone,
         matchVars, memberVars
<1>2. QED
  BY <1>1, QuietKeepsInvariant DEF IInv, TypeOK, matchVars, memberVars, IsDone

LEMMA EndSessionKeepsInvariant ==
  ASSUME IInv, NEW r \in Requests, NEW p \in Players, EndSession(r, p)
  PROVE  IInv'
<1>1. session' = [session EXCEPT ![p] = "COMPLETED"]
      /\ UNCHANGED <<matchVars, joined, left, ready, place, crashes>> /\ Then(r, 1)
  BY DEF EndSession, memberVars
<1>2. session' \in [Players -> SessionStatuses]
  BY <1>1 DEF IInv, TypeOK, SessionStatuses, Terminal
<1>3. Safety'
  BY <1>1 DEF IInv, TypeOK, Safety, Capacity, HostIsPresent, CancelledIsEmpty, RunsOnlyInRace,
     NobodyWaitsInRace, CompletedIsDone, CountdownMatchesStatus, Active, IsDone, matchVars, Terminal
<1>4. \A q \in Players : IsDone(q) => IsDone(q)'
  BY <1>1 DEF IsDone, Terminal, IInv, TypeOK
<1>5. QED
  BY <1>1, <1>2, <1>3, <1>4, QuietKeepsInvariant DEF IInv, TypeOK

\* Every load of a client has checked what its commit relies on.
LEMMA ClientKeepsInvariant ==
  ASSUME IInv, NEW r \in Requests, ClientLoad(r)
  PROVE  IInv'
<1>1. PICK p \in Players :
        \/ JoinLoad(r, p)  \/ LeaveLoad(r, p) \/ ReadyLoad(r, p)
        \/ StartLoad(r, p) \/ ResetLoad(r, p) \/ EndSession(r, p)
  BY DEF ClientLoad
<1>2. ASSUME NEW step \in Versioned, Begin(r, step, p)
      PROVE  /\ LoadHolds(r)' => IInv'
             /\ req'[r] = Loaded(step, p, 2)
             /\ UNCHANGED <<matchVars, memberVars, session, crashes>>
  <2>1. step \in Steps \ {"idle"}
    BY DEF Steps, Versioned
  <2>2. /\ req' = [req EXCEPT ![r] = Loaded(step, p, 2)]
        /\ UNCHANGED <<matchVars, memberVars, session, crashes>>
    BY <1>2 DEF Begin
  <2>3. req'[r] = Loaded(step, p, 2)
    BY <2>2 DEF IInv, TypeOK
  <2>4. ASSUME LoadHolds(r)' PROVE IInv'
    <3>1. p \in Players \union {NoPlayer} /\ 2 \in 1 .. 2
      OBVIOUS
    <3>2. QED
      BY <2>1, <2>2, <2>4, <3>1, LoadKeepsInvariant
  <2>5. QED
    BY <2>2, <2>3, <2>4
<1>3. ASSUME NEW step \in Versioned, Begin(r, step, p)
      PROVE  /\ req'[r].step = step /\ req'[r].player = p
             /\ req'[r].active = Active' /\ req'[r].host = host'
  <2>1. step \in Steps
    BY DEF Steps
  <2>2. Active' = Active /\ host' = host
    BY <1>2, <1>3 DEF Active, matchVars, memberVars
  <2>3. QED
    BY <1>2, <1>3, <2>1, <2>2, LoadedFields DEF IInv
<1>4. CASE JoinLoad(r, p)
  <2>1. Begin(r, "join", p) /\ "join" \in Versioned
    BY <1>4 DEF JoinLoad, Versioned
  <2>2. LoadHolds(r)'
    BY <1>2, <1>3, <1>4, <2>1 DEF JoinLoad, LoadHolds, matchVars, memberVars, Active
  <2>3. QED
    BY <1>2, <2>1, <2>2
<1>5. CASE LeaveLoad(r, p)
  <2>1. Begin(r, "leave", p) /\ "leave" \in Versioned
    BY <1>5 DEF LeaveLoad, Versioned
  <2>2. LoadHolds(r)'
    BY <1>2, <1>3, <1>5, <2>1 DEF LeaveLoad, LoadHolds, matchVars, memberVars, Active
  <2>3. QED
    BY <1>2, <2>1, <2>2
<1>6. CASE ReadyLoad(r, p)
  <2>1. PICK step \in {"ready", "unready"} : Begin(r, step, p)
    BY <1>6 DEF ReadyLoad
  <2>2. step \in Versioned
    BY DEF Versioned
  <2>3. LoadHolds(r)'
    BY <1>2, <1>3, <1>6, <2>1, <2>2
       DEF ReadyLoad, LoadHolds, matchVars, memberVars, Active, InLobby
  <2>4. QED
    BY <1>2, <2>1, <2>2, <2>3
<1>7. CASE StartLoad(r, p)
  <2>1. Begin(r, "start", p) /\ "start" \in Versioned
    BY <1>7 DEF StartLoad, Versioned
  <2>2. LoadHolds(r)'
    BY <1>2, <1>3, <1>7, <2>1 DEF StartLoad, LoadHolds, matchVars, memberVars, Active,
       InLobby, CanStart, EveryoneReady
  <2>3. QED
    BY <1>2, <2>1, <2>2
<1>8. CASE ResetLoad(r, p)
  <2>1. Begin(r, "reset", p) /\ "reset" \in Versioned
    BY <1>8 DEF ResetLoad, Versioned
  <2>2. LoadHolds(r)'
    BY <1>2, <1>3, <1>8, <2>1 DEF ResetLoad, LoadHolds, matchVars, memberVars, Active
  <2>3. QED
    BY <1>2, <2>1, <2>2
<1>9. QED
  BY <1>1, <1>4, <1>5, <1>6, <1>7, <1>8, EndSessionKeepsInvariant

-----------------------------------------------------------------------------
(* Reconciliation.                                                         *)

\* A slot that will load again loses what it had loaded and nothing else.
LEMMA ReloadKeepsInvariant ==
  ASSUME IInv, UNCHANGED <<matchVars, memberVars, session, crashes>>,
         NEW r \in Requests, NEW step \in Steps \ (Versioned \union {"idle"}), NEW s \in RequestType,
         s.step = step, s.todo \in 1 .. 2,
         req' = [req EXCEPT ![r] = s]
  PROVE  IInv'
<1>1. req'[r] = s /\ \A q \in Requests \ {r} : req'[q] = req[q]
  BY DEF IInv, TypeOK
<1>2. TypeOK'
  BY <1>1 DEF IInv, TypeOK, At, matchVars, memberVars, Active
<1>3. Optimistic'
  <2>1. r \in Requests /\ req'[r].step \notin Versioned
    BY <1>1
  <2>2. ASSUME NEW q \in Requests, q # r
        PROVE  /\ req'[q] = req[q] /\ version' = version
               /\ LoadHolds(q)' = LoadHolds(q)
    BY <1>1, <2>2 DEF LoadHolds, matchVars, memberVars, Active, InLobby, CanStart,
       EveryoneReady, RaceIsOver, AllDone, IsDone
  <2>3. QED
    BY <2>1, <2>2 DEF IInv, Optimistic, Fresh
<1>4. Safety'
  BY DEF IInv, Safety, Capacity, HostIsPresent, CancelledIsEmpty, RunsOnlyInRace,
     NobodyWaitsInRace, CompletedIsDone, CountdownMatchesStatus, Active, IsDone,
     matchVars, memberVars
<1>5. QED
  BY <1>2, <1>3, <1>4 DEF IInv

\* The first load of a reconciliation selects a branch, and what selected it
\* is what the branch's commit relies on.
LEMMA ReconcileLoadKeepsInvariant ==
  ASSUME IInv, NEW r \in Requests, ReconcileLoad(r)
  PROVE  IInv'
<1>1. At(r, "reconcile") /\ UNCHANGED <<matchVars, memberVars, session, crashes>>
  BY DEF ReconcileLoad
<1>2. req[r].todo \in 1 .. 2
  BY <1>1 DEF At, IInv, TypeOK, RequestType
<1>3. CASE Branch = "idle"
  <2>1. req[r].todo - 1 \in 0 .. 2 /\ Then(r, req[r].todo - 1)
    BY <1>2, <1>3 DEF ReconcileLoad
  <2>2. QED
    BY <1>1, <2>1, EndingKeepsInvariant DEF IInv, TypeOK
<1>4. CASE Branch # "idle"
  <2>1. Branch \in {"repair", "cancel", "relobby", "activate", "places"}
    BY <1>4 DEF Branch, BranchBy
  <2>2. /\ Branch = "repair" => host \notin Active /\ Active # {}
        /\ Branch = "cancel" => Active = {} /\ status # "CANCELLED"
        /\ Branch = "relobby" => InLobby /\ ~CanStart /\ countdown # "none"
    BY DEF Branch, BranchBy, Statuses
  <2>3. Branch \in Steps \ {"idle"}
    BY <2>1 DEF Steps, Versioned
  <2>4. CASE Branch \in Versioned
    <3>1. req' = [req EXCEPT ![r] = Loaded(Branch, NoPlayer, req[r].todo)]
      BY <1>4, <2>4 DEF ReconcileLoad
    <3>2. req'[r].step = Branch /\ req'[r].active = Active /\ req'[r].host = host
      BY <1>2, <2>3, <3>1, LoadedFields DEF IInv, TypeOK
    <3>3. LoadHolds(r)'
      BY <1>1, <2>1, <2>2, <3>2 DEF LoadHolds, Active, InLobby, CanStart, EveryoneReady,
         matchVars, memberVars
    <3> HIDE DEF Branch
    <3>4. QED
      BY <1>1, <1>2, <2>3, <3>1, <3>3, LoadKeepsInvariant
  <2>5. CASE Branch \notin Versioned
    <3> DEFINE s == Reloading(Branch, req[r].todo)
    <3>1. req' = [req EXCEPT ![r] = s]
      BY <1>4, <2>5 DEF ReconcileLoad
    <3>2. s \in RequestType /\ s.step = Branch /\ s.todo = req[r].todo
      <4>1. Branch \in Steps /\ req[r].todo \in 0 .. 2
        BY <1>2, <2>3
      <4> HIDE DEF Branch
      <4>2. QED
        BY <4>1, ReloadingFields
    <3> HIDE DEF s
    <3>3. QED
      BY <1>1, <1>2, <2>3, <2>5, <3>1, <3>2, ReloadKeepsInvariant
  <2>6. QED
    BY <2>4, <2>5
<1>5. QED
  BY <1>3, <1>4

LEMMA ActivateReloadKeepsInvariant ==
  ASSUME IInv, NEW r \in Requests, ActivateReload(r)
  PROVE  IInv'
<1>1. /\ At(r, "activate") /\ UNCHANGED <<matchVars, memberVars, session, crashes>>
      /\ req' = [req EXCEPT ![r] = Loaded("race", NoPlayer, req[r].todo)]
  BY DEF ActivateReload
<1>2. req[r].todo \in 1 .. 2
  BY <1>1 DEF At, IInv, TypeOK, RequestType
<1>3. "race" \in Steps \ {"idle"}
  BY DEF Steps, Versioned
<1>4. req'[r].step = "race" /\ req'[r].active = Active /\ req'[r].host = host
  BY <1>1, <1>2, <1>3, LoadedFields DEF IInv, TypeOK
<1>5. LoadHolds(r)'
  BY <1>1, <1>4 DEF LoadHolds, Active, matchVars, memberVars
<1>6. QED
  BY <1>1, <1>2, <1>3, <1>5, LoadKeepsInvariant

\* Planning the places fills in two fields of the slot.
LEMMA PlacesLoadKeepsInvariant ==
  ASSUME IInv, NEW r \in Requests, PlacesLoad(r)
  PROVE  IInv'
<1>1. At(r, "places") /\ UNCHANGED <<matchVars, memberVars, session, crashes>>
  BY DEF PlacesLoad
<1>2. PICK s \in Orders(Unplaced) :
        req' = [req EXCEPT ![r].step = "placing", ![r].order = s,
                           ![r].base = Cardinality(Placed)]
  BY DEF PlacesLoad
<1>3. Unplaced \in SUBSET Players /\ Placed \in SUBSET Players
  BY DEF Unplaced, Placed, IInv, TypeOK
<1>4. Cardinality(Unplaced) \in Nat /\ Cardinality(Placed) \in Nat
  BY <1>3, RoomAssumption, FS_Subset, FS_CardinalityType
<1>5. s \in Seq(Players)
  BY <1>3, <1>4 DEF Orders
<1> DEFINE q == [req[r] EXCEPT !.step = "placing", !.order = s, !.base = Cardinality(Placed)]
<1>6. req' = [req EXCEPT ![r] = q]
  BY <1>2
<1>7. q \in RequestType /\ q.step = "placing" /\ q.todo \in 1 .. 2
  <2>1. req[r] \in RequestType /\ req[r].todo \in 1 .. 2
    BY <1>1 DEF IInv, TypeOK, At, RequestType
  <2>2. "placing" \in Steps
    BY DEF Steps
  <2>3. QED
    BY <1>4, <1>5, <2>1, <2>2 DEF RequestType
<1>8. "placing" \in Steps \ (Versioned \union {"idle"})
  BY DEF Steps, Versioned
<1> HIDE DEF q
<1>9. QED
  BY <1>1, <1>6, <1>7, <1>8, ReloadKeepsInvariant

LEMMA PlannedIsNat ==
  ASSUME TypeOK, NEW r \in Requests, NEW p \in Players
  PROVE  Planned(r, p) \in Nat
<1> DEFINE mine == {i \in DOMAIN req[r].order : req[r].order[i] = p}
<1>1. req[r].base \in Nat /\ DOMAIN req[r].order \in SUBSET Nat
  BY DEF TypeOK, RequestType
<1>2. CASE mine = {}
  BY <1>2 DEF Planned
<1>3. CASE mine # {}
  <2>1. (CHOOSE i \in mine : TRUE) \in mine
    BY <1>3
  <2>2. QED
    BY <1>1, <1>3, <2>1 DEF Planned
<1>4. QED
  BY <1>2, <1>3

LEMMA PlacesCommitKeepsInvariant ==
  ASSUME IInv, NEW r \in Requests, PlacesCommit(r)
  PROVE  IInv'
<1>1. req[r].todo - 1 \in 0 .. 2 /\ Then(r, req[r].todo - 1)
  BY DEF PlacesCommit, At, IInv, TypeOK, RequestType
<1>2. UNCHANGED <<matchVars, joined, left, ready, session, crashes>>
  BY DEF PlacesCommit
<1>3. place' \in [Players -> Nat]
  BY PlannedIsNat DEF PlacesCommit, PlacesWritten, IInv, TypeOK
<1>4. Safety'
  BY <1>2 DEF IInv, Safety, Capacity, HostIsPresent, CancelledIsEmpty, RunsOnlyInRace,
     NobodyWaitsInRace, CompletedIsDone, CountdownMatchesStatus, Active, IsDone, matchVars
<1>5. QED
  BY <1>1, <1>2, <1>3, <1>4, QuietKeepsInvariant DEF IInv, TypeOK, IsDone

\* The load that finds the race over: finished sessions stay finished while
\* the version stands, so the race is still over at the commit.
LEMMA CompleteLoadKeepsInvariant ==
  ASSUME IInv, NEW r \in Requests, CompleteLoad(r)
  PROVE  IInv'
<1>1. At(r, "placing") /\ RaceIsOver /\ UNCHANGED <<matchVars, memberVars, session, crashes>>
  BY DEF CompleteLoad
<1> DEFINE q == [req[r] EXCEPT !.step = "complete", !.ver = version]
<1>2. req' = [req EXCEPT ![r] = q]
  BY DEF CompleteLoad
<1>3. q \in RequestType /\ q.step = "complete" /\ q.ver = version /\ q.todo \in 1 .. 2
  <2>1. req[r] \in RequestType /\ req[r].todo \in 1 .. 2
    BY <1>1 DEF IInv, TypeOK, At, RequestType
  <2>2. "complete" \in Steps /\ version \in Nat
    BY DEF Steps, Versioned, IInv, TypeOK
  <2>3. QED
    BY <2>1, <2>2 DEF RequestType
<1> HIDE DEF q
<1>4. req'[r] = q /\ \A s \in Requests \ {r} : req'[s] = req[s]
  BY <1>2 DEF IInv, TypeOK
<1>5. TypeOK'
  BY <1>1, <1>2, <1>3, <1>4 DEF IInv, TypeOK, At, matchVars, memberVars, Active
<1>6. Optimistic'
  <2> SUFFICES ASSUME NEW s \in Requests, req'[s].step \in Versioned
               PROVE  /\ req'[s].ver <= version'
                      /\ Fresh(s)' => LoadHolds(s)'
    BY DEF Optimistic
  <2>1. CASE s = r
    BY <1>1, <1>3, <1>4, <2>1 DEF LoadHolds, RaceIsOver, AllDone, IsDone, Active,
       IInv, TypeOK, matchVars, memberVars
  <2>2. CASE s # r
    BY <1>1, <1>4, <2>2 DEF IInv, Optimistic, Fresh, LoadHolds, matchVars, memberVars, Active,
       InLobby, CanStart, EveryoneReady, RaceIsOver, AllDone, IsDone
  <2>3. QED
    BY <2>1, <2>2
<1>7. Safety'
  BY <1>1 DEF IInv, Safety, Capacity, HostIsPresent, CancelledIsEmpty, RunsOnlyInRace,
     NobodyWaitsInRace, CompletedIsDone, CountdownMatchesStatus, Active, IsDone,
     matchVars, memberVars
<1>8. QED
  BY <1>5, <1>6, <1>7 DEF IInv

LEMMA CompleteKeepsInvariant ==
  ASSUME IInv, NEW r \in Requests, CompleteCommit(r)
  PROVE  IInv'
<1>1. CommitReconcile(r, "complete") /\ "complete" \in Versioned
  BY DEF CompleteCommit, Versioned
<1>2. LoadHolds(r) /\ req[r].step = "complete"
  BY <1>1, CommitFacts
<1>3. RaceIsOver
  BY <1>2 DEF LoadHolds
<1>4. status' = "COMPLETED" /\ UNCHANGED <<host, countdown, joined, left, ready, session>>
  BY DEF CompleteCommit
<1>5. place' \in [Players -> Nat]
  BY PlannedIsNat DEF CompleteCommit, PlacesWritten, IInv, TypeOK
<1>6. RowType'
  BY <1>4, <1>5 DEF RowType, IInv, TypeOK, Active, Statuses
<1>7. Safety'
  BY <1>3, <1>4 DEF IInv, TypeOK, Safety, Capacity, HostIsPresent, CancelledIsEmpty,
     RunsOnlyInRace, NobodyWaitsInRace, CompletedIsDone, CountdownMatchesStatus, Active,
     RaceIsOver, AllDone, IsDone, Terminal
<1>8. QED
  BY <1>1, <1>6, <1>7, CommitKeepsInvariant

LEMMA CountdownEndsKeepsInvariant ==
  ASSUME IInv, CountdownEnds
  PROVE  IInv'
<1>1. countdown = "running" /\ countdown' = "due"
      /\ UNCHANGED <<status, version, host, joined, left, ready, place, session, req, crashes>>
  BY DEF CountdownEnds, memberVars
<1>2. TypeOK'
  BY <1>1 DEF IInv, TypeOK, Active, At
<1>3. Optimistic'
  BY <1>1 DEF IInv, Optimistic, Fresh, LoadHolds, Active, InLobby, CanStart, EveryoneReady,
     RaceIsOver, AllDone, IsDone
<1>4. Safety'
  BY <1>1 DEF IInv, Safety, Capacity, HostIsPresent, CancelledIsEmpty, RunsOnlyInRace,
     NobodyWaitsInRace, CompletedIsDone, CountdownMatchesStatus, Active, IsDone
<1>5. QED
  BY <1>2, <1>3, <1>4 DEF IInv

-----------------------------------------------------------------------------
(* The theorems.                                                           *)

LEMMA InitEstablishesInvariant ==
  ASSUME Init
  PROVE  IInv
<1>1. Active = {Creator} /\ Cardinality(Active) = 1
  BY FS_Singleton DEF Init, Active
<1>2. \A r \in Requests : req[r] \in RequestType /\ req[r].step = "idle" /\ req[r].todo = 0
  BY IdleFields DEF Init
<1>3. TypeOK
  BY <1>1, <1>2, RoomAssumption DEF Init, TypeOK, At, Statuses, SessionStatuses
<1>4. Optimistic
  BY <1>2 DEF Optimistic, Versioned
<1>5. Safety
  BY <1>1, RoomAssumption DEF Init, Safety, Capacity, HostIsPresent, CancelledIsEmpty,
     RunsOnlyInRace, NobodyWaitsInRace, CompletedIsDone, CountdownMatchesStatus
<1>6. QED
  BY <1>3, <1>4, <1>5 DEF IInv

LEMMA ProceedKeepsInvariant ==
  ASSUME IInv, NEW r \in Requests, Proceed(r)
  PROVE  IInv'
<1>1. ASSUME Conflict(r) \/ PlacesClash(r) PROVE IInv'
  <2>1. 0 \in 0 .. 2 /\ Then(r, 0) /\ UNCHANGED <<matchVars, memberVars, session, crashes>>
    BY <1>1 DEF Conflict, PlacesClash
  <2>2. QED
    BY <2>1, EndingKeepsInvariant DEF IInv, TypeOK
<1>2. QED
  BY <1>1, JoinKeepsInvariant, LeaveKeepsInvariant, ReadinessKeepsInvariant,
     StartKeepsInvariant, ResetKeepsInvariant, RepairKeepsInvariant, CancelKeepsInvariant,
     RelobbyKeepsInvariant, RaceKeepsInvariant, ReconcileLoadKeepsInvariant,
     ActivateReloadKeepsInvariant, PlacesLoadKeepsInvariant, PlacesCommitKeepsInvariant,
     CompleteLoadKeepsInvariant, CompleteKeepsInvariant
     DEF Proceed

LEMMA NextKeepsInvariant ==
  ASSUME IInv, [Next]_vars
  PROVE  IInv'
<1>1. ASSUME NEW r \in Requests, Visit(r) PROVE IInv'
  <2>1. PICK n \in {1, 2} : Then(r, n)
    BY <1>1 DEF Visit
  <2>2. n \in 0 .. 2 /\ UNCHANGED <<matchVars, memberVars, session, crashes>>
    BY <1>1 DEF Visit
  <2>3. QED
    BY <2>1, <2>2, EndingKeepsInvariant DEF IInv, TypeOK
<1>2. ASSUME NEW r \in Requests, Crash(r) PROVE IInv'
  <2>1. 0 \in 0 .. 2 /\ Then(r, 0) /\ UNCHANGED <<matchVars, memberVars, session>>
    BY <1>2 DEF Crash
  <2>2. crashes' \in Nat
    BY <1>2 DEF Crash, IInv, TypeOK
  <2>3. QED
    BY <2>1, <2>2, EndingKeepsInvariant
<1>3. CASE UNCHANGED vars
  <2>1. TypeOK'
    BY <1>3 DEF vars, matchVars, memberVars, IInv, TypeOK, At, Active
  <2>2. Optimistic'
    BY <1>3 DEF vars, matchVars, memberVars, IInv, Optimistic, Fresh, LoadHolds, Active,
       IsDone, InLobby, CanStart, EveryoneReady, RaceIsOver, AllDone
  <2>3. Safety'
    BY <1>3 DEF vars, matchVars, memberVars, IInv, Safety, Capacity, HostIsPresent,
       CancelledIsEmpty, RunsOnlyInRace, NobodyWaitsInRace, CompletedIsDone,
       CountdownMatchesStatus, Active, IsDone
  <2>4. QED
    BY <2>1, <2>2, <2>3 DEF IInv
<1>4. QED
  BY <1>1, <1>2, <1>3, ClientKeepsInvariant, ProceedKeepsInvariant, CountdownEndsKeepsInvariant
     DEF Next

\* In every reachable state the rows are well typed, loads whose version stands
\* are still true, and the room is safe.
THEOREM InvariantHolds == Spec => []IInv
<1>1. Init => IInv
  BY InitEstablishesInvariant
<1>2. IInv /\ [Next]_vars => IInv'
  BY NextKeepsInvariant
<1>3. QED
  BY <1>1, <1>2, PTL DEF Spec

\* Every variable keeps its type, whatever the requests do.
THEOREM TypeCorrect == Spec => []TypeOK
<1>1. IInv => TypeOK
  BY DEF IInv
<1>2. QED
  BY <1>1, InvariantHolds, PTL

\* Joins never overbook the room, however many of them overlap.
THEOREM NeverOverbooked == Spec => []Capacity
<1>1. IInv => Capacity
  BY DEF IInv, Safety
<1>2. QED
  BY <1>1, InvariantHolds, PTL

\* The host the room names is in the room (leaveMultiplayerRoom and the repair of
\* reconcileMultiplayerRoom choose the next one).
THEOREM HostStays == Spec => []HostIsPresent
<1>1. IInv => HostIsPresent
  BY DEF IInv, Safety
<1>2. QED
  BY <1>1, InvariantHolds, PTL

\* reconcileMultiplayerRoom only cancels a room that is empty when it commits.
THEOREM CancelledRoomsAreEmpty == Spec => []CancelledIsEmpty
<1>1. IInv => CancelledIsEmpty
  BY DEF IInv, Safety
<1>2. QED
  BY <1>1, InvariantHolds, PTL

\* Sessions run in a race only, and for present players only.
THEOREM SessionsRunInRaces == Spec => []RunsOnlyInRace
<1>1. IInv => RunsOnlyInRace
  BY DEF IInv, Safety
<1>2. QED
  BY <1>1, InvariantHolds, PTL

\* In a race nobody waits for a session to start (activateCountdownStart).
THEOREM EveryoneRaces == Spec => []NobodyWaitsInRace
<1>1. IInv => NobodyWaitsInRace
  BY DEF IInv, Safety
<1>2. QED
  BY <1>1, InvariantHolds, PTL

\* A completed room has no session left to finish.
THEOREM CompletionIsFinal == Spec => []CompletedIsDone
<1>1. IInv => CompletedIsDone
  BY DEF IInv, Safety
<1>2. QED
  BY <1>1, InvariantHolds, PTL

\* The countdown time is set exactly while the room counts down.
THEOREM CountdownFollowsStatus == Spec => []CountdownMatchesStatus
<1>1. IInv => CountdownMatchesStatus
  BY DEF IInv, Safety
<1>2. QED
  BY <1>1, InvariantHolds, PTL

\* No join or start commits on a check that has ceased to hold.
THEOREM ChecksHold == Spec => ChecksHoldAtCommit
<1> DEFINE Checked ==
      /\ joined' # joined => status = "PENDING" /\ Cardinality(Active) < MaxPlayers
      /\ status' = "COUNTDOWN" /\ status # "COUNTDOWN" => InLobby /\ CanStart
<1>1. ASSUME IInv, NEW r \in Requests, JoinCommit(r) PROVE Checked
  <2>1. Commit(r, "join") /\ "join" \in Versioned /\ status' = status
    BY <1>1 DEF JoinCommit, Versioned
  <2>2. LoadHolds(r) /\ req[r].step = "join"
    BY <1>1, <2>1, CommitFacts
  <2>3. QED
    BY <2>1, <2>2 DEF LoadHolds
<1>2. ASSUME IInv, NEW r \in Requests, StartCommit(r) PROVE Checked
  <2>1. Commit(r, "start") /\ "start" \in Versioned /\ joined' = joined
    BY <1>2 DEF StartCommit, Versioned, memberVars
  <2>2. LoadHolds(r) /\ req[r].step = "start"
    BY <1>2, <2>1, CommitFacts
  <2>3. QED
    BY <2>1, <2>2 DEF LoadHolds
<1>3. ASSUME NEW r \in Requests, Proceed(r), ~JoinCommit(r), ~StartCommit(r) PROVE Checked
  BY <1>3 DEF Proceed, LeaveCommit, LeaveWrites, ReadyCommit, UnreadyCommit, ResetCommit,
     ReconcileLoad, RepairCommit, CancelCommit, RelobbyCommit, ActivateReload, RaceCommit,
     RaceWrites, PlacesLoad, PlacesCommit, PlacesClash, CompleteLoad, CompleteCommit, Conflict,
     matchVars, memberVars
<1>4. ASSUME NEW r \in Requests, ClientLoad(r) \/ Visit(r) \/ Crash(r) PROVE Checked
  BY <1>4 DEF ClientLoad, JoinLoad, LeaveLoad, ReadyLoad, StartLoad, ResetLoad, Begin,
     EndSession, Visit, Crash, matchVars, memberVars
<1>5. ASSUME CountdownEnds \/ UNCHANGED vars PROVE Checked
  BY <1>5 DEF CountdownEnds, vars, matchVars, memberVars
<1>6. IInv /\ [Next]_vars => [Checked]_vars
  BY <1>1, <1>2, <1>3, <1>4, <1>5 DEF Next
<1>7. QED
  BY <1>6, InvariantHolds, PTL DEF Spec, ChecksHoldAtCommit

\* Snapshots of one version agree on who is in the room, host, ready, on its status
\* and on whether it counts down: whatever commits without raising the version only
\* ends sessions and gives places.
THEOREM SnapshotsAgree == Spec => OnlyProgressIsUnversioned
<1> DEFINE Stays == /\ version' = version
                    /\ UNCHANGED <<status, host, joined, left, ready>>
                    /\ (countdown' = "none") <=> (countdown = "none")
           Forward == \A p \in Players : /\ session'[p] \in {session[p], "COMPLETED"}
                                         /\ place[p] # 0 => place'[p] # 0
           Agrees == /\ version' \in {version, version + 1}
                     /\ version' = version => Stays /\ Forward
<1>1. ASSUME NEW r \in Requests, Proceed(r) PROVE Bump \/ (Stays /\ Forward)
  <2>1. CASE PlacesCommit(r)
    <3>1. \A p \in Players : place[p] # 0 => place'[p] # 0
      BY <2>1 DEF PlacesCommit, PlacesWritten
    <3>2. QED
      BY <2>1, <3>1 DEF PlacesCommit, matchVars
  <2>2. CASE \/ ReconcileLoad(r) \/ ActivateReload(r) \/ PlacesLoad(r)
             \/ PlacesClash(r) \/ CompleteLoad(r) \/ Conflict(r)
    BY <2>2 DEF ReconcileLoad, ActivateReload, PlacesLoad, PlacesClash, CompleteLoad,
       Conflict, matchVars, memberVars
  <2>3. QED
    BY <1>1, <2>1, <2>2 DEF Proceed, JoinCommit, LeaveCommit, LeaveWrites, ReadyCommit,
       UnreadyCommit, StartCommit, ResetCommit, RepairCommit, CancelCommit, RelobbyCommit,
       RaceCommit, RaceWrites, CompleteCommit, Commit, CommitReconcile
<1>2. ASSUME IInv, NEW r \in Requests, NEW p \in Players, EndSession(r, p)
      PROVE  Stays /\ Forward
  BY <1>2 DEF EndSession, matchVars, memberVars, IInv, TypeOK
<1>3. ASSUME IInv, NEW r \in Requests, ClientLoad(r) \/ Visit(r) \/ Crash(r)
      PROVE  Stays /\ Forward
  BY <1>2, <1>3 DEF ClientLoad, JoinLoad, LeaveLoad, ReadyLoad, StartLoad, ResetLoad, Begin,
     Visit, Crash, matchVars, memberVars
<1>4. ASSUME CountdownEnds PROVE Stays /\ Forward
  BY <1>4 DEF CountdownEnds, memberVars
<1>5. IInv => version \in Nat
  BY DEF IInv, TypeOK
<1> HIDE DEF Stays, Forward
<1>6. ASSUME IInv, Next PROVE Bump \/ (Stays /\ Forward)
  BY <1>1, <1>3, <1>4, <1>6 DEF Next
<1>7. ASSUME IInv, Bump \/ (Stays /\ Forward) PROVE Agrees
  BY <1>5, <1>7 DEF Bump, Stays
<1>8. IInv /\ [Next]_vars => [Agrees]_vars
  BY <1>6, <1>7
<1>9. QED
  BY <1>8, InvariantHolds, PTL DEF Spec, OnlyProgressIsUnversioned, Stays, Forward

-----------------------------------------------------------------------------
(***************************************************************************)
(* The abstract room.  A commit is the abstract step its load was made     *)
(* for; everything else a request does leaves the abstract room alone.     *)
(***************************************************************************)
Racing == {p \in Players : session[p] = "ACTIVE"}

\* The abstract room stands still.
Still == UNCHANGED <<status, Active, left, host, ready, Racing>>

LEMMA StillIsStutter ==
  ASSUME Still PROVE UNCHANGED Lifecycle!lifeVars
BY DEF Still, Racing, Lifecycle!lifeVars

\* Both modules count with the same operator, under two names.
LEMMA SameCardinality == \A S : Lifecycle!Cardinality(S) = Cardinality(S)
BY DEF Cardinality, Lifecycle!Cardinality

LEMMA JoinEnters ==
  ASSUME IInv, NEW r \in Requests, JoinCommit(r)
  PROVE  Lifecycle!LifeNext
<1> DEFINE p == req[r].player
<1>1. Commit(r, "join") /\ "join" \in Versioned
  BY DEF JoinCommit, Versioned
<1>2. LoadHolds(r) /\ req[r].step = "join"
  BY <1>1, CommitFacts
<1>3. p \in Players \ joined /\ status = "PENDING" /\ Cardinality(Active) < MaxPlayers
  BY <1>2 DEF LoadHolds
<1>4. Active' = Active \union {p} /\ p \notin Active \union left
  BY <1>3 DEF JoinCommit, Active, IInv, TypeOK
<1>5. Racing' = Racing
  BY <1>3 DEF JoinCommit, Racing, IInv, TypeOK, Safety, RunsOnlyInRace, Active
<1>6. Lifecycle!Enter(p)
  BY <1>3, <1>4, <1>5, SameCardinality DEF JoinCommit, Lifecycle!Enter, Racing
<1>7. QED
  BY <1>3, <1>6 DEF Lifecycle!LifeNext

LEMMA LeaveQuits ==
  ASSUME IInv, NEW r \in Requests, LeaveCommit(r)
  PROVE  Lifecycle!LifeNext
<1>1. Commit(r, "leave") /\ "leave" \in Versioned
  BY DEF LeaveCommit, LeaveWrites, Versioned
<1>2. LoadHolds(r) /\ req[r].step = "leave"
  BY <1>1, CommitFacts
<1>3. PICK p \in Players : p = req[r].player
  BY <1>2 DEF LoadHolds, Active, IInv, TypeOK
<1>4. p \in Active /\ req[r].active = Active /\ req[r].host = host
  BY <1>2, <1>3 DEF LoadHolds
<1>5. Active' = Active \ {p}
  BY <1>3, <1>4 DEF LeaveCommit, LeaveWrites, Active, IInv, TypeOK
<1>6. Racing' = Racing \ {p}
  BY <1>3 DEF LeaveCommit, LeaveWrites, Racing, IInv, TypeOK
<1>7. host' \in IF host # p THEN {host}
                 ELSE IF Active = {p} THEN {NoPlayer} ELSE Active \ {p}
  BY <1>3, <1>4 DEF LeaveCommit, LeaveWrites, HostsAfterLeave, NextHosts
<1>8. Lifecycle!Quit(p)
  BY <1>3, <1>4, <1>5, <1>6, <1>7 DEF LeaveCommit, LeaveWrites, Lifecycle!Quit, Racing
<1>9. QED
  BY <1>8 DEF Lifecycle!LifeNext

LEMMA ReadinessIsAChangeOfMind ==
  ASSUME IInv, NEW r \in Requests, ReadyCommit(r) \/ UnreadyCommit(r)
  PROVE  Lifecycle!LifeNext
<1> DEFINE p == req[r].player
<1>1. PICK step \in {"ready", "unready"} : Commit(r, step)
  BY DEF ReadyCommit, UnreadyCommit
<1>2. step \in Versioned
  BY DEF Versioned
<1>3. LoadHolds(r) /\ req[r].step = step
  BY <1>1, <1>2, CommitFacts
<1>4. p \in Active /\ InLobby /\ p \in Players
  BY <1>3 DEF LoadHolds, Active, IInv, TypeOK
<1>5. Active' = Active /\ Racing' = Racing /\ ready' \in {ready \union {p}, ready \ {p}}
  BY DEF ReadyCommit, UnreadyCommit, Active, Racing
<1>6. Lifecycle!ChangeMind(p)
  BY <1>4, <1>5 DEF ReadyCommit, UnreadyCommit, Lifecycle!ChangeMind, Racing, InLobby
<1>7. QED
  BY <1>4, <1>6 DEF Lifecycle!LifeNext

\* What the abstract room calls a quorum is canStartCountdown.
LEMMA QuorumIsCanStart ==
  ASSUME TypeOK
  PROVE  Lifecycle!Quorate <=> CanStart
BY SameCardinality DEF TypeOK, Lifecycle!Quorate, CanStart, EveryoneReady

LEMMA StartCountsDown ==
  ASSUME IInv, NEW r \in Requests, StartCommit(r)
  PROVE  Lifecycle!LifeNext
<1>1. Commit(r, "start") /\ "start" \in Versioned
  BY DEF StartCommit, Versioned
<1>2. LoadHolds(r) /\ req[r].step = "start"
  BY <1>1, CommitFacts
<1>3. status = "PENDING" /\ Lifecycle!Quorate
  BY <1>2, QuorumIsCanStart DEF LoadHolds, InLobby, IInv, Safety, CountdownMatchesStatus
<1>4. Active' = Active /\ Racing' = Racing
  BY DEF StartCommit, memberVars, Active, Racing
<1>5. Lifecycle!CountDown
  BY <1>3, <1>4 DEF StartCommit, memberVars, Lifecycle!CountDown, Lifecycle!Move, Racing
<1>6. QED
  BY <1>5 DEF Lifecycle!LifeNext

LEMMA ResetReopens ==
  ASSUME IInv, NEW r \in Requests, ResetCommit(r)
  PROVE  Lifecycle!LifeNext
<1>1. Commit(r, "reset") /\ "reset" \in Versioned
  BY DEF ResetCommit, Versioned
<1>2. LoadHolds(r) /\ req[r].step = "reset"
  BY <1>1, CommitFacts
<1>3. status = "COMPLETED" /\ Active # {} /\ req[r].active = Active
  BY <1>2 DEF LoadHolds
<1>4. Active' = Active /\ ready' = {}
  BY <1>3 DEF ResetCommit, Active, IInv, TypeOK
<1>5. Racing' = Racing
  BY <1>3 DEF ResetCommit, Racing, IInv, TypeOK, Safety, RunsOnlyInRace
<1>6. Lifecycle!Reopen
  BY <1>3, <1>4, <1>5 DEF ResetCommit, Lifecycle!Reopen, Lifecycle!Move, Racing
<1>7. QED
  BY <1>6 DEF Lifecycle!LifeNext

LEMMA RepairElects ==
  ASSUME IInv, NEW r \in Requests, RepairCommit(r)
  PROVE  Lifecycle!LifeNext
<1>1. CommitReconcile(r, "repair") /\ "repair" \in Versioned
  BY DEF RepairCommit, Versioned
<1>2. LoadHolds(r) /\ req[r].step = "repair"
  BY <1>1, CommitFacts
<1>3. host = NoPlayer /\ Active # {} /\ host' \in Active
  BY <1>2 DEF LoadHolds, RepairCommit, NextHosts, IInv, Safety, HostIsPresent
<1>4. Active' = Active /\ Racing' = Racing
  BY DEF RepairCommit, memberVars, Active, Racing
<1>5. Lifecycle!Elect
  BY <1>3, <1>4 DEF RepairCommit, memberVars, Lifecycle!Elect, Racing
<1>6. QED
  BY <1>5 DEF Lifecycle!LifeNext

LEMMA CancelCloses ==
  ASSUME IInv, NEW r \in Requests, CancelCommit(r)
  PROVE  Lifecycle!LifeNext
<1>1. CommitReconcile(r, "cancel") /\ "cancel" \in Versioned
  BY DEF CancelCommit, Versioned
<1>2. LoadHolds(r) /\ req[r].step = "cancel"
  BY <1>1, CommitFacts
<1>3. Active = {} /\ status \in {"PENDING", "COUNTDOWN", "ACTIVE", "COMPLETED"}
  BY <1>2 DEF LoadHolds, IInv, TypeOK, Statuses
<1>4. Active' = Active /\ Racing' = Racing
  BY DEF CancelCommit, memberVars, Active, Racing
<1>5. Lifecycle!Close
  BY <1>3, <1>4 DEF CancelCommit, memberVars, Lifecycle!Close, Lifecycle!Move, Racing
<1>6. QED
  BY <1>5 DEF Lifecycle!LifeNext

LEMMA RelobbyCallsOff ==
  ASSUME IInv, NEW r \in Requests, RelobbyCommit(r)
  PROVE  Lifecycle!LifeNext
<1>1. CommitReconcile(r, "relobby") /\ "relobby" \in Versioned
  BY DEF RelobbyCommit, Versioned
<1>2. LoadHolds(r) /\ req[r].step = "relobby"
  BY <1>1, CommitFacts
<1>3. status = "COUNTDOWN" /\ ~Lifecycle!Quorate
  BY <1>2, QuorumIsCanStart DEF LoadHolds, IInv, Safety, CountdownMatchesStatus
<1>4. Active' = Active /\ Racing' = Racing
  BY DEF RelobbyCommit, memberVars, Active, Racing
<1>5. Lifecycle!CallOff
  BY <1>3, <1>4 DEF RelobbyCommit, memberVars, Lifecycle!CallOff, Lifecycle!Move, Racing
<1>6. QED
  BY <1>5 DEF Lifecycle!LifeNext

\* Every session of a present player is over, and nobody else's runs.
LEMMA CompleteFinishes ==
  ASSUME IInv, NEW r \in Requests, CompleteCommit(r)
  PROVE  Lifecycle!LifeNext
<1>1. CommitReconcile(r, "complete") /\ "complete" \in Versioned
  BY DEF CompleteCommit, Versioned
<1>2. LoadHolds(r) /\ req[r].step = "complete"
  BY <1>1, CommitFacts
<1>3. status = "ACTIVE" /\ Active # {} /\ \A p \in Active : session[p] # "ACTIVE"
  BY <1>2 DEF LoadHolds, RaceIsOver, AllDone, IsDone, Terminal
<1>4. Racing = {}
  BY <1>3 DEF Racing, IInv, Safety, RunsOnlyInRace
<1>5. Active' = Active /\ Racing' = Racing
  BY DEF CompleteCommit, Active, Racing
<1>6. Lifecycle!Finish
  BY <1>3, <1>4, <1>5 DEF CompleteCommit, Lifecycle!Finish, Lifecycle!Move, Racing
<1>7. QED
  BY <1>6 DEF Lifecycle!LifeNext

\* The activation commits on the room of its second load, whatever that is.
LEMMA RaceIsLateGo ==
  ASSUME IInv, NEW r \in Requests, RaceCommit(r)
  PROVE  Lifecycle!LateGo
<1>1. CommitReconcile(r, "race") /\ "race" \in Versioned
  BY DEF RaceCommit, RaceWrites, Versioned
<1>2. LoadHolds(r) /\ req[r].step = "race"
  BY <1>1, CommitFacts
<1>3. req[r].active = Active /\ Active \subseteq Players
  BY <1>2 DEF LoadHolds, Active, IInv, TypeOK
<1>4. Active' = Active
  BY DEF RaceCommit, RaceWrites, memberVars, Active
<1>5. Racing' = Active
  BY <1>3 DEF RaceCommit, RaceWrites, Racing, IInv, TypeOK, Safety, RunsOnlyInRace
<1>6. QED
  BY <1>4, <1>5 DEF RaceCommit, RaceWrites, memberVars, Lifecycle!LateGo, Racing

\* A session ends: its player crosses the line, or had crossed it before.
LEMMA EndingCrossesLine ==
  ASSUME IInv, NEW r \in Requests, NEW p \in Players, EndSession(r, p)
  PROVE  Lifecycle!LifeNext \/ Still
<1>1. Active' = Active /\ Racing' = Racing \ {p}
  BY DEF EndSession, memberVars, Active, Racing, IInv, TypeOK
<1>2. CASE p \in Racing
  <2>1. Lifecycle!CrossLine(p)
    BY <1>1, <1>2 DEF EndSession, matchVars, memberVars, Lifecycle!CrossLine, Racing
  <2>2. QED
    BY <2>1 DEF Lifecycle!LifeNext
<1>3. CASE p \notin Racing
  BY <1>1, <1>3 DEF EndSession, matchVars, memberVars, Still
<1>4. QED
  BY <1>2, <1>3

LEMMA LoadsAreStill ==
  ASSUME NEW r \in Requests,
         \/ \E p \in Players : \/ JoinLoad(r, p) \/ LeaveLoad(r, p) \/ ReadyLoad(r, p)
                             \/ StartLoad(r, p) \/ ResetLoad(r, p)
         \/ Visit(r) \/ Crash(r) \/ ReconcileLoad(r) \/ ActivateReload(r) \/ PlacesLoad(r)
         \/ PlacesCommit(r) \/ PlacesClash(r) \/ CompleteLoad(r) \/ Conflict(r)
  PROVE  Still
BY DEF JoinLoad, LeaveLoad, ReadyLoad, StartLoad, ResetLoad, Begin, Visit, Crash,
   ReconcileLoad, ActivateReload, PlacesLoad, PlacesCommit, PlacesClash, CompleteLoad,
   Conflict, Still, Active, Racing, matchVars, memberVars

\* Every step is a step of the abstract room, stands still, or activates.
LEMMA StepMapsToLifecycle ==
  ASSUME IInv, [Next]_vars
  PROVE  Lifecycle!LifeNext \/ Still \/ \E r \in Requests : RaceCommit(r)
<1>1. ASSUME NEW r \in Requests, ClientLoad(r)
      PROVE  Lifecycle!LifeNext \/ Still
  BY <1>1, LoadsAreStill, EndingCrossesLine DEF ClientLoad
<1>2. ASSUME NEW r \in Requests, Proceed(r)
      PROVE  Lifecycle!LifeNext \/ Still \/ RaceCommit(r)
  BY <1>2, JoinEnters, LeaveQuits, ReadinessIsAChangeOfMind, StartCountsDown, ResetReopens,
     RepairElects, CancelCloses, RelobbyCallsOff, CompleteFinishes, LoadsAreStill DEF Proceed
<1>3. ASSUME CountdownEnds \/ UNCHANGED vars
      PROVE  Still
  BY <1>3 DEF CountdownEnds, vars, matchVars, memberVars, Still, Active, Racing
<1>4. QED
  BY <1>1, <1>2, <1>3, LoadsAreStill DEF Next

LEMMA InitMapsToLifecycle == Init => Lifecycle!LifeInit
<1> SUFFICES ASSUME Init PROVE Lifecycle!LifeInit
  OBVIOUS
<1>1. Active = {Creator} /\ Racing = {}
  BY RoomAssumption DEF Init, Active, Racing
<1>2. QED
  BY <1>1, RoomAssumption DEF Init, Lifecycle!LifeInit, Racing

\* However requests overlap, crash and conflict, the room goes through the steps of
\* the abstract room, but for activations that come late.
THEOREM LooseRefinement == Spec => OnlyActivationIsLate
<1>1. IInv /\ [Next]_vars => [Lifecycle!LifeNext \/ Lifecycle!LateGo]_(Lifecycle!lifeVars)
  BY StepMapsToLifecycle, StillIsStutter, RaceIsLateGo
<1>2. QED
  BY <1>1, InitMapsToLifecycle, InvariantHolds, PTL
     DEF Spec, OnlyActivationIsLate, Lifecycle!LooseSpec

\* The activation commits though what it was decided on does not hold any more.
LateStart(r) == RaceCommit(r) /\ ~(status = "COUNTDOWN" /\ CanStart)

\* An activation that is not late starts a race as the abstract room does.
LEMMA TimelyRaceIsGo ==
  ASSUME IInv, NEW r \in Requests, RaceCommit(r), ~LateStart(r)
  PROVE  Lifecycle!LifeNext
<1>1. status = "COUNTDOWN" /\ Lifecycle!Quorate
  BY QuorumIsCanStart DEF LateStart, IInv
<1>2. Lifecycle!LateGo
  BY RaceIsLateGo
<1>3. Lifecycle!Go
  BY <1>1, <1>2 DEF Lifecycle!Go, Lifecycle!Move, Lifecycle!LateGo
<1>4. QED
  BY <1>3 DEF Lifecycle!LifeNext

\* However requests overlap, every step is one of the abstract room's own, but for
\* an activation that commits when the room does not count down with everybody
\* ready: wherever none does, the room keeps its lifecycle.
THEOREM Refinement ==
  Spec => [][(\A r \in Requests : ~LateStart(r))
               => [Lifecycle!LifeNext]_(Lifecycle!lifeVars)]_vars
<1> DEFINE Kept == (\A r \in Requests : ~LateStart(r))
                     => [Lifecycle!LifeNext]_(Lifecycle!lifeVars)
<1>1. IInv /\ [Next]_vars => [Kept]_vars
  BY StepMapsToLifecycle, StillIsStutter, TimelyRaceIsGo
<1>2. QED
  BY <1>1, InvariantHolds, PTL DEF Spec

=============================================================================
