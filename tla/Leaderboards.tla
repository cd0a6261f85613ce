------------------------------ MODULE Leaderboards ------------------------------
(***************************************************************************)
(* The boards of apps/api/src/services/leaderboard-service.ts: which runs  *)
(* a board lists, and the in-process cache between the routes and the      *)
(* database.  Requests wait for their queries while runs end, are credited *)
(* late or promoted to a user, and while other requests fill the cache.    *)
(*                                                                         *)
(* A board is the set of runs it lists, as they were read; its order is    *)
(* Above.                                                                  *)
(*                                                                         *)
(* Abstracted: labels, accuracy and dates as shown, the limit of a board   *)
(* (one for each key), the rate limit of the routes, and the creation of   *)
(* the day's challenge, which is in PlayerRuns.                            *)
(***************************************************************************)
EXTENDS Integers, FiniteSets

CONSTANTS
  Requests,              \* requests in flight
  Users, Guests, None,   \* users, player sessions, no user
  Day, Week,             \* Day[t], Week[t]: the day and the week of a time
  Limit,                 \* safeLimit
  Candidates,            \* Math.max(limit * 8, 50)
  TTL                    \* CACHE_TTL_MS

VARIABLES
  now,     \* Date.now()
  runs,    \* GameSession rows that are COMPLETED
  cache,   \* cache: the entry of each key, or NoEntry
  reqs     \* requests in flight

vars == <<now, runs, cache, reqs>>

\* id stands for the order in which the database returns what else ties.
Run == [id : Nat, user : Users \union {None}, guest : Guests, score : Nat,
        ended : Nat, began : Nat, daily : BOOLEAN, day : Nat]

Shared == {"global", "daily", "weekly"}

\* The keys of shared boards, of personal-current and of personal.
Key(scope, user, guest, run) == [scope |-> scope, user |-> user, guest |-> guest, run |-> run]
Keys == [scope : Shared \union {"current", "run"}, user : Users \union {None},
         guest : Guests \union {None}, run : Nat]

\* An entry: the lists, whose they are, when they were asked for.
NoEntry == [best |-> {}, recent |-> {}, user |-> None, guest |-> None, at |-> 0, expires |-> 0]
NoRequest == [step |-> "none", key |-> Key("global", None, None, 0), user |-> None,
              guest |-> None, at |-> 0, best |-> {}, recent |-> {},
              unread |-> {}]

Entries == [best : SUBSET Run, recent : SUBSET Run, user : Users \union {None},
            guest : Guests \union {None}, at : Nat, expires : Nat]
InFlight == [step : {"none", "owner", "read"}, key : Keys, user : Users \union {None},
            guest : Guests \union {None}, at : Nat, best : SUBSET Run,
            recent : SUBSET Run, unread : SUBSET {"best", "recent"}]

TypeOK ==
  /\ now \in Nat
  /\ cache \in [Keys -> Entries]
  /\ reqs \in [Requests -> InFlight]

Init ==
  /\ now \in Nat
  /\ runs = {}
  /\ cache = [k \in Keys |-> NoEntry]
  /\ reqs = [r \in Requests |-> NoRequest]

-----------------------------------------------------------------------------
(***************************************************************************)
(* Queries.                                                                *)
(***************************************************************************)
\* orderBy totalScore desc, endedAt asc, startedAt asc
Above(a, b) ==
  \/ a.score > b.score
  \/ a.score = b.score /\ a.ended < b.ended
  \/ a.score = b.score /\ a.ended = b.ended /\ a.began < b.began
  \/ a.score = b.score /\ a.ended = b.ended /\ a.began = b.began /\ a.id < b.id

\* orderBy endedAt desc, startedAt desc
Later(a, b) ==
  \/ a.ended > b.ended
  \/ a.ended = b.ended /\ a.began > b.began
  \/ a.ended = b.ended /\ a.began = b.began /\ a.id < b.id

\* findMany with such an order, take n
Top(rows, n) == {a \in rows : Cardinality({b \in rows : Above(b, a)}) < n}
Last(rows, n) == {a \in rows : Cardinality({b \in rows : Later(b, a)}) < n}

\* buildScopeWindow at time t
Window(scope, rows, t) ==
  CASE scope = "daily" -> {a \in rows : a.daily /\ a.day = Day[t]}
    [] scope = "weekly" -> {a \in rows : Week[a.ended] = Week[t]}
    [] OTHER -> rows

Identity(a) == IF a.user # None THEN <<"user", a.user>> ELSE <<"guest", a.guest>>

\* getDailyBestSessions: each player's first of the candidates
Firsts(rows) == {a \in rows : \A b \in rows : Identity(b) = Identity(a) => ~Above(b, a)}
DailyBest(rows) == Top(Firsts(Top(rows, Candidates)), Limit)

\* the where of the personal boards
Mine(rows, user, guest) ==
  {a \in rows : IF user # None THEN a.user = user ELSE a.guest = guest}

\* the rows a request asks for
Asked(q) ==
  IF q.key.scope \in Shared THEN Window(q.key.scope, runs, q.at)
  ELSE Mine(runs, q.user, q.guest)

Best(q) == IF q.key.scope = "daily" THEN DailyBest(Asked(q)) ELSE Top(Asked(q), Limit)

-----------------------------------------------------------------------------
(***************************************************************************)
(* Requests.                                                               *)
(***************************************************************************)
\* getCached: a hit answers with the entry and changes nothing.
Cached(key) == now < cache[key].expires

\* What is left to read: personal boards have a second query.
Queries(key) == IF key.scope \in Shared THEN {"best"} ELSE {"best", "recent"}

\* personal has a run to look up; the window is that of now.
Asks(key) ==
  [step |-> IF key.scope = "run" THEN "owner" ELSE "read", key |-> key,
   user |-> key.user, guest |-> key.guest, at |-> now, best |-> {}, recent |-> {},
   unread |-> Queries(key)]

\* An entry that is over is deleted.
Miss(r, key) ==
  /\ reqs[r].step = "none" /\ ~Cached(key)
  /\ cache' = [cache EXCEPT ![key] = NoEntry]
  /\ reqs' = [reqs EXCEPT ![r] = Asks(key)]
  /\ UNCHANGED <<now, runs>>

\* getPersonalLeaderboards looks the run up first (it need not be completed):
Owner(r, user, guest) ==
  /\ reqs[r].step = "owner"
  /\ \A a \in runs : a.id = reqs[r].key.run => a.user = user /\ a.guest = guest
  /\ reqs' = [reqs EXCEPT ![r].step = "read", ![r].user = user, ![r].guest = guest]
  /\ UNCHANGED <<now, runs, cache>>

\* ... no such run: null is cached, too.
NoOwner(r) ==
  /\ reqs[r].step = "owner"
  /\ \A a \in runs : a.id # reqs[r].key.run
  /\ cache' = [cache EXCEPT ![reqs[r].key] = [NoEntry EXCEPT !.at = reqs[r].at, !.expires = now + TTL]]
  /\ reqs' = [reqs EXCEPT ![r] = NoRequest]
  /\ UNCHANGED <<now, runs>>

\* The queries of Promise.all answer in any order.
ReadBest(r) ==
  /\ reqs[r].step = "read" /\ "best" \in reqs[r].unread
  /\ reqs' = [reqs EXCEPT ![r].best = Best(reqs[r]), ![r].unread = @ \ {"best"}]
  /\ UNCHANGED <<now, runs, cache>>

ReadRecent(r) ==
  /\ reqs[r].step = "read" /\ "recent" \in reqs[r].unread
  /\ reqs' = [reqs EXCEPT ![r].recent = Last(Asked(reqs[r]), Limit), ![r].unread = @ \ {"recent"}]
  /\ UNCHANGED <<now, runs, cache>>

\* setCached, whatever another request stored meanwhile
Store(r) ==
  /\ reqs[r].step = "read" /\ reqs[r].unread = {}
  /\ cache' = [cache EXCEPT ![reqs[r].key] =
       [best |-> reqs[r].best, recent |-> reqs[r].recent, user |-> reqs[r].user,
        guest |-> reqs[r].guest, at |-> reqs[r].at, expires |-> now + TTL]]
  /\ reqs' = [reqs EXCEPT ![r] = NoRequest]
  /\ UNCHANGED <<now, runs>>

\* A query fails: nothing is stored.
Fail(r) ==
  /\ reqs[r].step # "none"
  /\ reqs' = [reqs EXCEPT ![r] = NoRequest]
  /\ UNCHANGED <<now, runs, cache>>

-----------------------------------------------------------------------------
(***************************************************************************)
(* What goes on meanwhile.                                                 *)
(***************************************************************************)
Tick == now' = now + 1 /\ UNCHANGED <<runs, cache, reqs>>

\* A run ends.
Ends(a) ==
  /\ \A b \in runs : a.id # b.id
  /\ runs' = runs \union {a}
  /\ UNCHANGED <<now, cache, reqs>>

\* A completed run is credited late, or promoted to a user.
Changed(a, score, user) ==
  /\ a \in runs
  /\ a.score <= score
  /\ user = a.user \/ a.user = None
  /\ runs' = (runs \ {a}) \union {[a EXCEPT !.score = score, !.user = user]}
  /\ UNCHANGED <<now, cache, reqs>>

Next ==
  \/ \E r \in Requests :
       \/ \E k \in Keys : Miss(r, k)
       \/ \E u \in Users \union {None}, g \in Guests : Owner(r, u, g)
       \/ NoOwner(r) \/ ReadBest(r) \/ ReadRecent(r) \/ Store(r) \/ Fail(r)
  \/ Tick
  \/ \E a \in Run : Ends(a)
  \/ \E a \in runs, s \in Nat, u \in Users \union {None} : Changed(a, s, u)

Spec == Init /\ [][Next]_vars

-----------------------------------------------------------------------------
\* A daily board lists a player once, whatever changed since it was read.
OnePerPlayer ==
  \A k \in Keys : k.scope = "daily" =>
    \A a, b \in cache[k].best : Identity(a) = Identity(b) => a = b

\* A daily board lists only runs of the day of the request that read it.
OneDay ==
  \A k \in Keys : k.scope = "daily" =>
    \A a \in cache[k].best : a.day = Day[cache[k].at]

\* A personal board lists runs of one player, its key's if the key names one.
OwnRunsOnly ==
  \A k \in Keys : k.scope \in {"current", "run"} =>
    /\ k.scope = "current" /\ cache[k] # NoEntry =>
         cache[k].user = k.user /\ cache[k].guest = k.guest
    /\ \A a \in cache[k].best \union cache[k].recent :
         IF cache[k].user # None THEN a.user = cache[k].user ELSE a.guest = cache[k].guest
=============================================================================
