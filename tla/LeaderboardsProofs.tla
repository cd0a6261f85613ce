--------------------------- MODULE LeaderboardsProofs ---------------------------
(***************************************************************************)
(* Leaderboards for any limit, cap of candidates and number of requests:   *)
(* what a query lists (for every finite set of rows), and what the cache   *)
(* serves of it while the rows change.                                     *)
(***************************************************************************)
EXTENDS Leaderboards, FiniteSetTheorems, TLAPS

\* No two rows with one id.
Distinct(rows) == \A a, b \in rows : a.id = b.id => a = b

\* What a list of a request or an entry is.
Single(list) == \A a, b \in list : Identity(a) = Identity(b) => a = b
OfDay(list, t) == \A a \in list : a.day = Day[t]
OfPlayer(list, user, guest) ==
  \A a \in list : IF user # None THEN a.user = user ELSE a.guest = guest

\* the same of a request or an entry e of key k
Sound(e, k) ==
  /\ k.scope = "daily" => Single(e.best) /\ OfDay(e.best, e.at)
  /\ k.scope \in {"current", "run"} =>
       OfPlayer(e.best, e.user, e.guest) /\ OfPlayer(e.recent, e.user, e.guest)

RowsOK == runs \subseteq Run /\ IsFiniteSet(runs) /\ Distinct(runs)

\* A request at "owner" has read nothing; one of personal-current is its key's.
ReqOK(q) ==
  /\ Sound(q, q.key)
  /\ q.step = "owner" => q.best = {} /\ q.recent = {} /\ q.key.scope = "run"
  /\ q.key.scope = "current" => q.user = q.key.user /\ q.guest = q.key.guest

EntryOK(k) ==
  /\ Sound(cache[k], k)
  /\ k.scope = "current" /\ cache[k] # NoEntry =>
       cache[k].user = k.user /\ cache[k].guest = k.guest

IInv ==
  /\ TypeOK
  /\ RowsOK
  /\ \A r \in Requests : reqs[r].step # "none" => ReqOK(reqs[r])
  /\ \A k \in Keys : EntryOK(k)

-----------------------------------------------------------------------------
(***************************************************************************)
(* Orders and lists.                                                       *)
(***************************************************************************)
LEMMA AboveTransitive ==
  ASSUME NEW a \in Run, NEW b \in Run, NEW c \in Run, Above(a, b), Above(b, c)
  PROVE  Above(a, c)
  BY DEF Run, Above

LEMMA AboveTotal ==
  ASSUME NEW a \in Run, NEW b \in Run, ~Above(a, b), ~Above(b, a)
  PROVE  a.id = b.id
  BY DEF Run, Above

\* Nothing above a listed run is left out: a board has no gap.
LEMMA NothingAboveIsLeftOut ==
  ASSUME NEW rows \in SUBSET Run, IsFiniteSet(rows), NEW n \in Nat,
         NEW a \in Top(rows, n), NEW b \in rows, Above(b, a)
  PROVE  b \in Top(rows, n)
<1> DEFINE over(x) == {c \in rows : Above(c, x)}
<1>1. over(b) \subseteq over(a)
  <2> SUFFICES ASSUME NEW c \in over(b) PROVE c \in over(a)
    OBVIOUS
  <2>1. c \in rows /\ Above(c, b)
    OBVIOUS
  <2>2. a \in rows
    BY DEF Top
  <2> QED BY <2>1, <2>2, AboveTransitive
<1>2. IsFiniteSet(over(a)) /\ IsFiniteSet(over(b))
  BY FS_Subset, over(a) \subseteq rows, over(b) \subseteq rows
<1>3. Cardinality(over(b)) <= Cardinality(over(a))
  BY <1>1, <1>2, FS_Subset
<1>4. Cardinality(over(a)) < n
  BY DEF Top
<1>5. Cardinality(over(a)) \in Nat /\ Cardinality(over(b)) \in Nat
  BY <1>2, FS_CardinalityType
<1> HIDE DEF over
<1>6. Cardinality(over(b)) < n
  BY <1>3, <1>4, <1>5
<1> QED BY <1>6 DEF Top, over

\* getDailyBestSessions reads only the first Candidates runs of the day, and
\* still no player is listed with less than his best run of the day.
THEOREM DailyBestIsBest ==
  ASSUME NEW rows \in SUBSET Run, IsFiniteSet(rows), Candidates \in Nat,
         NEW a \in DailyBest(rows), NEW b \in rows, Identity(b) = Identity(a)
  PROVE  ~Above(b, a)
<1> SUFFICES ASSUME Above(b, a) PROVE FALSE
  OBVIOUS
<1>1. a \in Firsts(Top(rows, Candidates))
  BY DEF DailyBest, Top
<1>2. a \in Top(rows, Candidates)
  BY <1>1 DEF Firsts
<1>3. b \in Top(rows, Candidates)
  BY <1>2, NothingAboveIsLeftOut
<1> QED BY <1>1, <1>3 DEF Firsts

LEMMA DailySingle ==
  ASSUME NEW rows \in SUBSET Run, Distinct(rows)
  PROVE  DailyBest(rows) \subseteq rows /\ Single(DailyBest(rows))
<1>1. DailyBest(rows) \subseteq Firsts(Top(rows, Candidates)) /\ Top(rows, Candidates) \subseteq rows
  BY DEF DailyBest, Top
<1>2. DailyBest(rows) \subseteq rows
  BY <1>1 DEF Firsts
<1>3. ASSUME NEW a \in DailyBest(rows), NEW b \in DailyBest(rows), Identity(a) = Identity(b)
      PROVE  a = b
  <2>1. ~Above(a, b) /\ ~Above(b, a)
    BY <1>1, <1>3 DEF Firsts
  <2>2. a.id = b.id
    BY <1>2, <2>1, AboveTotal
  <2> QED BY <1>2, <2>2 DEF Distinct
<1> QED BY <1>2, <1>3 DEF Single

\* What a request may read is sound.
LEMMA BestSound ==
  ASSUME RowsOK, NEW q
  PROVE  /\ Best(q) \in SUBSET Run
         /\ q.key.scope = "daily" => Single(Best(q)) /\ OfDay(Best(q), q.at)
         /\ q.key.scope \in {"current", "run"} => OfPlayer(Best(q), q.user, q.guest)
<1>1. Asked(q) \in SUBSET Run /\ Distinct(Asked(q))
  BY DEF RowsOK, Asked, Window, Mine, Distinct
<1>2. CASE q.key.scope = "daily"
  <2>1. Best(q) = DailyBest(Asked(q))
    BY <1>2 DEF Best
  <2>2. OfDay(Asked(q), q.at)
    BY <1>2 DEF Asked, Window, OfDay, Shared
  <2> QED BY <1>1, <1>2, <2>1, <2>2, DailySingle DEF OfDay
<1>3. CASE q.key.scope # "daily"
  <2>1. Best(q) \subseteq Asked(q)
    BY <1>3 DEF Best, Top
  <2>2. q.key.scope \in {"current", "run"} => OfPlayer(Asked(q), q.user, q.guest)
    BY DEF Asked, Mine, Shared, OfPlayer
  <2> QED BY <1>1, <1>3, <2>1, <2>2 DEF OfPlayer
<1> QED BY <1>2, <1>3

LEMMA RecentSound ==
  ASSUME RowsOK, NEW q
  PROVE  /\ Last(Asked(q), Limit) \in SUBSET Run
         /\ q.key.scope \in {"current", "run"} =>
              OfPlayer(Last(Asked(q), Limit), q.user, q.guest)
  BY DEF RowsOK, Asked, Window, Mine, Last, Shared, OfPlayer

LEMMA EmptySound ==
  ASSUME NEW e, e.best = {}, e.recent = {}, NEW k
  PROVE  Sound(e, k)
  BY DEF Sound, Single, OfDay, OfPlayer

-----------------------------------------------------------------------------
(***************************************************************************)
(* Every step.                                                             *)
(***************************************************************************)
LEMMA KeyOfEmpty ==
  /\ Key("global", None, None, 0) \in Keys
  /\ NoEntry \in Entries
  /\ NoRequest \in InFlight
  BY DEF Key, Keys, NoEntry, Entries, NoRequest, InFlight, Shared

LEMMA InitHolds == Init => IInv
<1> SUFFICES ASSUME Init PROVE IInv
  OBVIOUS
<1>1. TypeOK
  BY KeyOfEmpty DEF Init, TypeOK
<1>2. RowsOK
  BY FS_EmptySet DEF Init, RowsOK, Distinct
<1>3. \A r \in Requests : reqs[r].step = "none"
  BY DEF Init, NoRequest
<1>4. ASSUME NEW k \in Keys PROVE EntryOK(k)
  <2>1. cache[k] = NoEntry
    BY DEF Init
  <2> QED BY <2>1, EmptySound DEF EntryOK, NoEntry
<1> QED BY <1>1, <1>2, <1>3, <1>4 DEF IInv

\* A request is replaced by a sound one, the rest stays.
LEMMA RequestStep ==
  ASSUME IInv, NEW r \in Requests, NEW q \in InFlight,
         reqs' = [reqs EXCEPT ![r] = q], UNCHANGED <<now, runs>>,
         q.step # "none" => ReqOK(q)
  PROVE  /\ now' \in Nat /\ reqs' \in [Requests -> InFlight]
         /\ RowsOK'
         /\ \A p \in Requests : reqs'[p].step # "none" => ReqOK(reqs'[p])
<1> USE DEF IInv, TypeOK
<1>1. now' \in Nat /\ reqs' \in [Requests -> InFlight]
  OBVIOUS
<1>2. RowsOK'
  BY DEF RowsOK
<1>3. ASSUME NEW p \in Requests, reqs'[p].step # "none" PROVE ReqOK(reqs'[p])
  <2>1. CASE p = r
    BY <1>3, <2>1
  <2>2. CASE p # r
    BY <1>3, <2>2
  <2> QED BY <2>1, <2>2
<1> QED BY <1>1, <1>2, <1>3

\* An entry is replaced by a sound one.
LEMMA EntryStep ==
  ASSUME IInv, NEW k \in Keys, NEW e \in Entries,
         cache' = [cache EXCEPT ![k] = e],
         Sound(e, k), k.scope = "current" /\ e # NoEntry => e.user = k.user /\ e.guest = k.guest
  PROVE  /\ cache' \in [Keys -> Entries]
         /\ \A i \in Keys : EntryOK(i)'
<1> USE DEF IInv, TypeOK
<1>1. cache' \in [Keys -> Entries]
  OBVIOUS
<1>2. ASSUME NEW i \in Keys PROVE EntryOK(i)'
  <2>1. CASE i = k
    <3>1. cache'[i] = e
      BY <2>1
    <3> QED BY <2>1, <3>1 DEF EntryOK
  <2>2. CASE i # k
    <3>1. cache'[i] = cache[i]
      BY <2>2
    <3> QED BY <3>1 DEF EntryOK
  <2> QED BY <2>1, <2>2
<1> QED BY <1>1, <1>2

LEMMA SameEntries ==
  ASSUME IInv, cache' = cache
  PROVE  cache' \in [Keys -> Entries] /\ \A i \in Keys : EntryOK(i)'
  BY DEF IInv, TypeOK, EntryOK

LEMMA MissHolds ==
  ASSUME IInv, NEW r \in Requests, NEW k \in Keys, Miss(r, k)
  PROVE  IInv'
<1> DEFINE q == Asks(k)
<1>2. k.user \in Users \union {None} /\ k.guest \in Guests \union {None} /\ now \in Nat
  BY DEF Keys, IInv, TypeOK
<1>3. Queries(k) \in SUBSET {"best", "recent"}
  BY DEF Queries
<1>4. q \in InFlight
  BY <1>2, <1>3 DEF InFlight, Asks
<1>5. /\ q.best = {} /\ q.recent = {} /\ q.key = k /\ q.user = k.user /\ q.guest = k.guest
      /\ q.step = "owner" => q.key.scope = "run"
  BY DEF Asks
<1> HIDE DEF q
<1>6. ReqOK(q)
  BY <1>5, EmptySound DEF ReqOK
<1>7. reqs' = [reqs EXCEPT ![r] = q] /\ cache' = [cache EXCEPT ![k] = NoEntry] /\ UNCHANGED <<now, runs>>
  BY DEF Miss, q
<1>8. Sound(NoEntry, k)
  BY EmptySound DEF NoEntry
<1> QED BY <1>4, <1>6, <1>7, <1>8, KeyOfEmpty, RequestStep, EntryStep DEF IInv, TypeOK

\* The fields of a request under way.
LEMMA Fields ==
  ASSUME IInv, NEW r \in Requests, reqs[r].step # "none"
  PROVE  /\ reqs[r] \in InFlight /\ ReqOK(reqs[r])
         /\ reqs[r].key \in Keys /\ reqs[r].user \in Users \union {None}
         /\ reqs[r].guest \in Guests \union {None} /\ reqs[r].at \in Nat
         /\ reqs[r].best \in SUBSET Run /\ reqs[r].recent \in SUBSET Run
         /\ reqs[r].unread \in SUBSET {"best", "recent"}
  BY DEF IInv, TypeOK, InFlight

LEMMA OwnerHolds ==
  ASSUME IInv, NEW r \in Requests, NEW u \in Users \union {None}, NEW g \in Guests,
         Owner(r, u, g)
  PROVE  IInv'
<1> DEFINE q == [reqs[r] EXCEPT !.step = "read", !.user = u, !.guest = g]
<1>1. reqs[r].step = "owner" /\ cache' = cache /\ UNCHANGED <<now, runs>>
  BY DEF Owner
<1>2. reqs' = [reqs EXCEPT ![r] = q]
  BY DEF Owner, IInv, TypeOK
<1>3. reqs[r] \in InFlight /\ ReqOK(reqs[r])
  BY <1>1, Fields
<1>4. q \in InFlight /\ q.best = reqs[r].best /\ q.recent = reqs[r].recent
      /\ q.key = reqs[r].key
  BY <1>3 DEF InFlight
<1>5. q.best = {} /\ q.recent = {}
  BY <1>1, <1>3, <1>4 DEF ReqOK
<1>6. q.user = u /\ q.guest = g
  BY <1>3 DEF InFlight
<1>7. q.step = "read"
  BY <1>3 DEF InFlight
<1>8. q.key.scope # "current"
  BY <1>1, <1>3, <1>4 DEF ReqOK
<1> HIDE DEF q
<1>9. ReqOK(q)
  BY <1>5, <1>7, <1>8, EmptySound DEF ReqOK
<1> QED BY <1>1, <1>2, <1>4, <1>9, RequestStep, SameEntries DEF IInv, TypeOK

LEMMA NoOwnerHolds == ASSUME IInv, TTL \in Nat, NEW r \in Requests, NoOwner(r) PROVE IInv'
<1> DEFINE k == reqs[r].key
           e == [NoEntry EXCEPT !.at = reqs[r].at, !.expires = now + TTL]
<1>1. reqs[r].step = "owner" /\ ReqOK(reqs[r]) /\ k \in Keys /\ reqs[r].at \in Nat
  BY Fields DEF NoOwner
<1>2. now + TTL \in Nat
  BY DEF IInv, TypeOK
<1>3. e \in Entries /\ e.best = {} /\ e.recent = {}
  BY <1>1, <1>2 DEF NoEntry, Entries
<1>4. k.scope # "current"
  BY <1>1 DEF ReqOK
<1>5. /\ cache' = [cache EXCEPT ![k] = e] /\ reqs' = [reqs EXCEPT ![r] = NoRequest]
      /\ UNCHANGED <<now, runs>>
  BY DEF NoOwner
<1>6. NoRequest.step = "none"
  BY DEF NoRequest
<1> HIDE DEF k, e
<1>7. Sound(e, k)
  BY <1>3, EmptySound
<1> QED BY <1>1, <1>3, <1>4, <1>5, <1>6, <1>7, KeyOfEmpty, RequestStep, EntryStep DEF IInv, TypeOK

LEMMA ReadHolds ==
  ASSUME IInv, NEW r \in Requests, ReadBest(r) \/ ReadRecent(r)
  PROVE  IInv'
<1>1. reqs[r].step = "read" /\ cache' = cache /\ UNCHANGED <<now, runs>>
  BY DEF ReadBest, ReadRecent
<1>2. reqs[r] \in InFlight /\ ReqOK(reqs[r])
  BY <1>1, Fields
<1>3. RowsOK
  BY DEF IInv
<1>4. CASE ReadBest(r)
  <2> DEFINE b == Best(reqs[r])
             q == [reqs[r] EXCEPT !.best = b, !.unread = @ \ {"best"}]
  <2>1. reqs' = [reqs EXCEPT ![r] = q]
    BY <1>4 DEF ReadBest, IInv, TypeOK
  <2>2. /\ b \in SUBSET Run
        /\ reqs[r].key.scope = "daily" => Single(b) /\ OfDay(b, reqs[r].at)
        /\ reqs[r].key.scope \in {"current", "run"} => OfPlayer(b, reqs[r].user, reqs[r].guest)
    BY <1>3, BestSound
  <2> HIDE DEF b
  <2>3. /\ q \in InFlight /\ q.best = b /\ q.recent = reqs[r].recent /\ q.step = "read"
        /\ q.key = reqs[r].key /\ q.user = reqs[r].user /\ q.guest = reqs[r].guest
        /\ q.at = reqs[r].at
    BY <1>1, <1>2, <2>2 DEF InFlight
  <2> HIDE DEF q
  <2>4. ReqOK(q)
    BY <1>1, <1>2, <2>2, <2>3 DEF ReqOK, Sound
  <2> QED BY <1>1, <2>1, <2>3, <2>4, RequestStep, SameEntries DEF IInv, TypeOK
<1>5. CASE ReadRecent(r)
  <2> DEFINE l == Last(Asked(reqs[r]), Limit)
             q == [reqs[r] EXCEPT !.recent = l, !.unread = @ \ {"recent"}]
  <2>1. reqs' = [reqs EXCEPT ![r] = q]
    BY <1>5 DEF ReadRecent, IInv, TypeOK
  <2>2. /\ l \in SUBSET Run
        /\ reqs[r].key.scope \in {"current", "run"} => OfPlayer(l, reqs[r].user, reqs[r].guest)
    BY <1>3, RecentSound
  <2> HIDE DEF l
  <2>3. /\ q \in InFlight /\ q.recent = l /\ q.best = reqs[r].best /\ q.step = "read"
        /\ q.key = reqs[r].key /\ q.user = reqs[r].user /\ q.guest = reqs[r].guest
        /\ q.at = reqs[r].at
    BY <1>1, <1>2, <2>2 DEF InFlight
  <2> HIDE DEF q
  <2>4. ReqOK(q)
    BY <1>1, <1>2, <2>2, <2>3 DEF ReqOK, Sound
  <2> QED BY <1>1, <2>1, <2>3, <2>4, RequestStep, SameEntries DEF IInv, TypeOK
<1> QED BY <1>4, <1>5

LEMMA StoreHolds == ASSUME IInv, TTL \in Nat, NEW r \in Requests, Store(r) PROVE IInv'
<1> DEFINE q == reqs[r]
           e == [best |-> q.best, recent |-> q.recent, user |-> q.user,
                 guest |-> q.guest, at |-> q.at, expires |-> now + TTL]
<1>1. q.step = "read" /\ cache' = [cache EXCEPT ![q.key] = e]
      /\ reqs' = [reqs EXCEPT ![r] = NoRequest] /\ UNCHANGED <<now, runs>>
  BY DEF Store
<1>2. /\ ReqOK(q) /\ q.key \in Keys /\ q.user \in Users \union {None}
      /\ q.guest \in Guests \union {None} /\ q.at \in Nat
      /\ q.best \in SUBSET Run /\ q.recent \in SUBSET Run
  BY <1>1, Fields
<1>3. now + TTL \in Nat
  BY DEF IInv, TypeOK
<1>4. e \in Entries
  BY <1>2, <1>3 DEF Entries
<1>5. Sound(e, q.key)
  BY <1>2 DEF ReqOK, Sound
<1>6. q.key.scope = "current" => e.user = q.key.user /\ e.guest = q.key.guest
  BY <1>2 DEF ReqOK
<1>7. NoRequest.step = "none"
  BY DEF NoRequest
<1> HIDE DEF e, q
<1> QED BY <1>1, <1>2, <1>4, <1>5, <1>6, <1>7, KeyOfEmpty, RequestStep, EntryStep DEF IInv, TypeOK

LEMMA FailHolds == ASSUME IInv, NEW r \in Requests, Fail(r) PROVE IInv'
<1>1. NoRequest.step = "none"
  BY DEF NoRequest
<1>2. reqs' = [reqs EXCEPT ![r] = NoRequest] /\ cache' = cache /\ UNCHANGED <<now, runs>>
  BY DEF Fail
<1> QED BY <1>1, <1>2, KeyOfEmpty, RequestStep, SameEntries DEF IInv, TypeOK

\* Requests and entries keep copies: what changes the rows leaves them alone.
LEMMA RowsStep ==
  ASSUME IInv, now' \in Nat, RowsOK', UNCHANGED <<cache, reqs>>
  PROVE  IInv'
  BY DEF IInv, TypeOK, EntryOK

LEMMA EndsHolds == ASSUME IInv, NEW a \in Run, Ends(a) PROVE IInv'
<1>1. RowsOK'
  <2>1. runs' = runs \union {a} /\ \A b \in runs : a.id # b.id
    BY DEF Ends
  <2>2. IsFiniteSet(runs')
    BY <2>1, FS_AddElement DEF IInv, RowsOK
  <2>3. Distinct(runs)'
    BY <2>1 DEF IInv, RowsOK, Distinct
  <2> QED BY <2>1, <2>2, <2>3 DEF IInv, RowsOK
<1> QED BY <1>1, RowsStep DEF Ends, IInv, TypeOK

LEMMA ChangedHolds ==
  ASSUME IInv, NEW a \in runs, NEW s \in Nat, NEW u \in Users \union {None}, Changed(a, s, u)
  PROVE  IInv'
<1> DEFINE b == [a EXCEPT !.score = s, !.user = u]
<1>1. RowsOK'
  <2>1. runs' = (runs \ {a}) \union {b}
    BY DEF Changed
  <2>2. a \in Run
    BY DEF IInv, RowsOK
  <2>3. b \in Run /\ b.id = a.id
    BY <2>2 DEF Run
  <2> HIDE DEF b
  <2>4. IsFiniteSet(runs \ {a})
    BY FS_Subset, runs \ {a} \subseteq runs DEF IInv, RowsOK
  <2>5. IsFiniteSet(runs')
    BY <2>1, <2>4, FS_AddElement
  <2>6. Distinct(runs)'
    BY <2>1, <2>3 DEF IInv, RowsOK, Distinct
  <2> QED BY <2>1, <2>3, <2>5, <2>6 DEF IInv, RowsOK
<1> QED BY <1>1, RowsStep DEF Changed, IInv, TypeOK

LEMMA TickHolds == ASSUME IInv, Tick PROVE IInv'
  BY RowsStep DEF Tick, IInv, TypeOK, RowsOK

LEMMA StutterHolds == ASSUME IInv, UNCHANGED vars PROVE IInv'
  BY RowsStep DEF vars, IInv, TypeOK, RowsOK

LEMMA Invariance == ASSUME TTL \in Nat PROVE Spec => []IInv
<1>1. IInv /\ [Next]_vars => IInv'
  BY MissHolds, OwnerHolds, NoOwnerHolds, ReadHolds, StoreHolds, FailHolds, EndsHolds,
     ChangedHolds, TickHolds, StutterHolds DEF Next
<1> QED BY <1>1, InitHolds, PTL DEF Spec

-----------------------------------------------------------------------------
\* Clock, cache and requests keep their types.
THEOREM Typed == ASSUME TTL \in Nat PROVE Spec => []TypeOK
<1>1. IInv => TypeOK
  BY DEF IInv
<1> QED BY <1>1, Invariance, PTL

\* A daily board, cached or not, lists a player once and only runs of the day
\* it was asked for, whatever ended, was credited or was promoted while its
\* query was under way or since (getLeaderboard, getDailyBestSessions).
THEOREM DailyBoards == ASSUME TTL \in Nat PROVE Spec => [](OnePerPlayer /\ OneDay)
<1>1. IInv => OnePerPlayer /\ OneDay
  BY DEF IInv, EntryOK, Sound, Single, OfDay, OnePerPlayer, OneDay
<1> QED BY <1>1, Invariance, PTL

\* A personal board lists runs of one player, and under a key that names a
\* player those of that player, although the queries of a board are answered
\* one by one and requests overwrite each other's entries.
THEOREM PersonalBoards == ASSUME TTL \in Nat PROVE Spec => []OwnRunsOnly
<1>1. IInv => OwnRunsOnly
  BY DEF IInv, EntryOK, Sound, OfPlayer, OwnRunsOnly
<1> QED BY <1>1, Invariance, PTL
=============================================================================
