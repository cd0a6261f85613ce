--------------------------- MODULE ChallengeStream ---------------------------
(***************************************************************************)
(* The challenges of one race: the list of the room, the copy of it in     *)
(* every player's session, and the rounds drawn from them, from the start  *)
(* of the race on.  Players get to the end of the list at their own pace,  *)
(* and whoever is there first extends it for all of them                   *)
(* (apps/api/src/services/multiplayer-service.ts,                          *)
(* session-progression-service.ts).                                        *)
(*                                                                         *)
(* A transaction is a load and a commit.  The catalogue does not change    *)
(* during a race.  Abstracted: the hash that sorts it, verdicts and times, *)
(* what else the start of a race does (MultiplayerRoom), and the steps of  *)
(* a progression that SessionPlay has.                                     *)
(***************************************************************************)
EXTENDS Integers, Sequences

CONSTANTS
  Sessions,     \* the players' sessions
  Requests,     \* requests in flight
  Challenges,   \* the catalogue
  Size,         \* how many there are
  Order         \* Order[k]: the catalogue as the seed sorts it for cycle k

VARIABLES
  stream,   \* challengeIds of the room
  lists,    \* challengeIds in the metadata of each session
  status,   \* status of each session
  rounds,   \* the challenge of each round of a session, by position
  open,     \* the last round of a session is not resolved
  starts,   \* how often the race was started
  req       \* requests in flight

rowVars == <<stream, lists>>
playVars == <<status, rounds, open>>
vars == <<rowVars, playVars, starts, req>>

Idle == [step |-> "idle"]
Lists == Seq(Challenges)

Kinds == [step : {"idle", "due"}]
  \union [step : {"start"}, list : Lists, starts : Nat]
  \union [step : {"loaded", "ready"}, session : Sessions, next : Nat, list : Lists]
  \union [step : {"extend"}, session : Sessions, next : Nat, list : Lists, cycle : Lists]

TypeOK ==
  /\ stream \in Lists
  /\ lists \in [Sessions -> Lists]
  /\ status \in [Sessions -> {"PENDING", "ACTIVE", "COMPLETED"}]
  /\ rounds \in [Sessions -> Lists]
  /\ open \in [Sessions -> BOOLEAN]
  /\ starts \in Nat
  /\ req \in [Requests -> Kinds]

\* buildSharedChallengeSequence, when the room was made or reopened
Init ==
  /\ stream = Order[0]
  /\ lists = [s \in Sessions |-> stream]
  /\ status = [s \in Sessions |-> "PENDING"]
  /\ rounds = [s \in Sessions |-> <<>>]
  /\ open = [s \in Sessions |-> FALSE]
  /\ starts = 0
  /\ req = [r \in Requests |-> Idle]

At(r, step) == req[r].step = step
Becomes(r, q) == req' = [req EXCEPT ![r] = q]

-----------------------------------------------------------------------------
(***************************************************************************)
(* Start.                                                                  *)
(***************************************************************************)
\* reconcileMultiplayerRoom has found the countdown over.
Due(r) ==
  /\ At(r, "idle") /\ starts = 0
  /\ Becomes(r, [step |-> "due"])
  /\ UNCHANGED <<rowVars, playVars, starts>>

\* activateCountdownStart loads the room again; another request may have
\* started the race by now.
StartLoad(r) ==
  /\ At(r, "due")
  /\ Becomes(r, [step |-> "start", list |-> stream, starts |-> starts])
  /\ UNCHANGED <<rowVars, playVars, starts>>

\* ... and starts it for the players who are there, unless the version of the
\* room has changed.  A first round that exists stays.
StartCommit(r, present) ==
  /\ At(r, "start") /\ req[r].starts = starts
  /\ starts' = starts + 1
  /\ lists' = [s \in Sessions |-> IF s \in present THEN req[r].list ELSE lists[s]]
  /\ status' = [s \in Sessions |-> IF s \in present THEN "ACTIVE" ELSE status[s]]
  /\ rounds' = [s \in Sessions |-> IF s \in present /\ rounds[s] = <<>>
                                   THEN <<Head(req[r].list)>> ELSE rounds[s]]
  /\ open' = [s \in Sessions |-> open[s] \/ (s \in present /\ rounds[s] = <<>>)]
  /\ Becomes(r, Idle)
  /\ UNCHANGED stream

-----------------------------------------------------------------------------
(***************************************************************************)
(* Progression.                                                            *)
(***************************************************************************)
\* ensureSessionProgression
Progress(r, s) ==
  /\ At(r, "idle")
  /\ status[s] = "ACTIVE" /\ rounds[s] # <<>> /\ ~open[s]
  /\ Becomes(r, [step |-> "loaded", session |-> s, next |-> Len(rounds[s]),
                 list |-> lists[s]])
  /\ UNCHANGED <<rowVars, playVars, starts>>

Ready(r, list) ==
  Becomes(r, [step |-> "ready", session |-> req[r].session, next |-> req[r].next,
              list |-> list])

Exhausted(r) == req[r].next >= Len(req[r].list)

\* The list in the session still has the next challenge.
InList(r) ==
  /\ At(r, "loaded") /\ ~Exhausted(r)
  /\ Ready(r, req[r].list)
  /\ UNCHANGED <<rowVars, playVars, starts>>

\* buildNextSharedChallengeCycle: the first of a cycle trades places when it
\* would repeat the last of the list.
NextCycle(list) ==
  LET cycle == Order[Len(list) \div Size + 1] IN
  IF Size > 1 /\ cycle[1] = list[Len(list)] THEN Append(Tail(cycle), cycle[1]) ELSE cycle

\* extendMultiplayerChallengeIds: somebody was here before,
Extended(r) ==
  /\ At(r, "loaded") /\ Exhausted(r)
  /\ Len(stream) > Len(req[r].list)
  /\ Ready(r, stream)
  /\ UNCHANGED <<rowVars, playVars, starts>>

\* ... or nobody whose commit can be seen, although others may be at it.
ExtendLoad(r) ==
  /\ At(r, "loaded") /\ Exhausted(r)
  /\ Len(stream) <= Len(req[r].list)
  /\ Becomes(r, [step |-> "extend", session |-> req[r].session, next |-> req[r].next,
                 list |-> req[r].list, cycle |-> NextCycle(stream)])
  /\ UNCHANGED <<rowVars, playVars, starts>>

\* Room and sessions get the new list, whatever they have by now: one that was
\* held up shortens it again.
ExtendCommit(r) ==
  /\ At(r, "extend")
  /\ LET list == req[r].list \o req[r].cycle IN
     /\ stream' = list
     /\ lists' = [s \in Sessions |-> list]
     /\ Ready(r, list)
  /\ UNCHANGED <<playVars, starts>>

\* ensureRoundExists, or completeSession when there is no challenge left
Draw(r) ==
  /\ At(r, "ready")
  /\ LET s == req[r].session
         isNew == Len(rounds[s]) = req[r].next IN
     IF Exhausted(r)
     THEN /\ status' = [status EXCEPT ![s] = "COMPLETED"]
          /\ UNCHANGED <<rounds, open>>
     ELSE /\ rounds' = IF isNew THEN [rounds EXCEPT ![s] = Append(@, req[r].list[req[r].next + 1])]
                       ELSE rounds
          /\ open' = IF isNew THEN [open EXCEPT ![s] = TRUE] ELSE open
          /\ UNCHANGED status
  /\ Becomes(r, Idle)
  /\ UNCHANGED <<rowVars, starts>>

\* The request dies, or its transaction is rolled back.
Fails(r) ==
  /\ ~At(r, "idle")
  /\ Becomes(r, Idle)
  /\ UNCHANGED <<rowVars, playVars, starts>>

-----------------------------------------------------------------------------
\* A round is solved, skipped or failed.
Resolve(s) ==
  /\ open[s]
  /\ open' = [open EXCEPT ![s] = FALSE]
  /\ UNCHANGED <<rowVars, status, rounds, starts, req>>

\* A session is finished or its time is over.
End(s) ==
  /\ status[s] = "ACTIVE"
  /\ status' = [status EXCEPT ![s] = "COMPLETED"]
  /\ UNCHANGED <<rowVars, rounds, open, starts, req>>

Next ==
  \/ \E r \in Requests :
       \/ Due(r) \/ StartLoad(r) \/ (\E present \in SUBSET Sessions : StartCommit(r, present))
       \/ (\E s \in Sessions : Progress(r, s)) \/ InList(r)
       \/ Extended(r) \/ ExtendLoad(r) \/ ExtendCommit(r) \/ Draw(r) \/ Fails(r)
  \/ \E s \in Sessions : Resolve(s) \/ End(s)

Spec == Init /\ [][Next]_vars

\* Not in the code, and so not in Spec: no transaction (Prisma gives one up after
\* five seconds) lasts as long as a player takes for a whole cycle.  Whoever begins
\* an extension finds none under way of a shorter list, and no start of the race.
BeginsInTime ==
  \A r, q \in Requests :
    ExtendLoad(r) => /\ req[q].step \notin {"due", "start"}
                     /\ At(q, "extend") => Len(req[q].list) >= Len(stream)

Prompt == [][BeginsInTime]_vars

-----------------------------------------------------------------------------
\* Players who get as far see the same challenge in every round, although
\* each of them may extend the list at the same time as the others.
SameOrder ==
  \A s, t \in Sessions : \A p \in DOMAIN rounds[s] \intersect DOMAIN rounds[t] :
    rounds[s][p] = rounds[t][p]

\* No challenge is asked twice in a row, also from one cycle to the next.
NeverTwiceInARow ==
  Size > 1 => \A s \in Sessions : \A p \in 1..(Len(rounds[s]) - 1) :
    rounds[s][p] # rounds[s][p + 1]

Begins(a, b) == Len(a) <= Len(b) /\ \A i \in 1..Len(a) : a[i] = b[i]

\* What is assumed of the catalogue: it is not empty, and every cycle is an
\* order of it.
Catalogue ==
  /\ Size \in Nat \ {0}
  /\ Order \in [Nat -> Lists]
  /\ \A k \in Nat : /\ Len(Order[k]) = Size
                     /\ \A i, j \in 1..Size : Order[k][i] = Order[k][j] => i = j
=============================================================================
