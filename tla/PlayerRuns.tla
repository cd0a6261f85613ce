------------------------------ MODULE PlayerRuns ------------------------------
(***************************************************************************)
(* Who a request is, and whose run it works on: the cookies of one         *)
(* browser, player sessions, auth sessions, the promotion of a guest's     *)
(* history at a login, and the handlers that create, read, answer, skip    *)
(* and finish daily runs (apps/api/src/lib/auth.ts, routes/auth-routes.ts, *)
(* routes/game-session-routes.ts, services/game-service.ts).               *)
(*                                                                         *)
(* A request keeps the identity and the rows it loaded while others run:   *)
(* each action is one query that changes a row, with the reads before it   *)
(* that nothing here can come between.                                     *)
(*                                                                         *)
(* Abstracted: tokens and passwords (a cookie is the row it names, a login *)
(* names its user), rate limits, expiry of cookies, lastSeenAt, points,    *)
(* verdicts other than correct or not, and what SessionPlay already says   *)
(* of a round: here a credit and the step to the next round are one.       *)
(***************************************************************************)
EXTENDS Integers, FiniteSets, Sequences

CONSTANTS
  Users,      \* registered users
  None,       \* no user: a guest
  Requests,   \* requests in flight
  Rounds,     \* challenges of the day
  MaxCalls,   \* bound: calls other than polls and creations
  MaxFaults   \* bound: requests that die, or whose answer is lost

ASSUME PlayerAssumption ==
  /\ None \notin Users
  /\ IsFiniteSet(Requests)
  /\ Rounds \in Nat \ {0}
  /\ {MaxCalls, MaxFaults} \subseteq Nat

VARIABLES
  jar,      \* the browser's guest and auth cookies; 0 is none
  players,  \* PlayerSession rows, by the user they are linked to
  auths,    \* AuthSession rows; live until they are deleted
  daily,    \* the day's DailyChallenge exists
  runs,     \* GameSession rows
  scores,   \* ScoreRecord rows, by run and user
  req,      \* requests in flight
  calls,    \* how much of MaxCalls was used
  faults    \* faults so far

identityVars == <<players, auths>>
runVars == <<daily, runs, scores>>
serverVars == <<identityVars, runVars>>
runsVars == <<jar, serverVars, req, calls, faults>>

Kinds == {"session", "login", "logout", "create", "get", "submit", "skip", "finish"}
Steps == {"none", "sent", "claim", "claimRuns", "claimScores", "issue", "daily",
          "insertDaily", "find", "insertRun", "activate", "work", "credit", "reply"}
Statuses == {"PENDING", "ACTIVE", "COMPLETED"}

\* A request: the cookies it carries, the actor they name, what it works on,
\* whether it made a player session, and what it will answer.
Free == [kind |-> "get", step |-> "none", tag |-> "none", guest |-> 0, auth |-> 0,
         user |-> None, ps |-> 0, fresh |-> FALSE, run |-> 0, round |-> 0,
         status |-> "PENDING", result |-> "ok"]

Init ==
  /\ jar = [guest |-> 0, auth |-> 0]
  /\ players = <<>> /\ auths = <<>>
  /\ daily = FALSE
  /\ runs = <<>> /\ scores = {}
  /\ req = [r \in Requests |-> Free]
  /\ calls = 0 /\ faults = 0

TypeOK ==
  /\ jar \in [guest : 0..Len(players), auth : 0..Len(auths)]
  /\ players \in Seq(Users \union {None})
  /\ auths \in Seq([user : Users, ps : 1..Len(players), live : BOOLEAN])
  /\ daily \in BOOLEAN
  /\ runs \in Seq([user : Users \union {None}, ps : 1..Len(players),
                   status : Statuses, round : 0..Rounds])
  /\ scores \subseteq [run : DOMAIN runs, user : Users \union {None}]
  /\ \A r \in Requests :
       /\ req[r].kind \in Kinds /\ req[r].step \in Steps
       /\ req[r].user \in Users \union {None}
       /\ req[r].ps \in 0..Len(players) /\ req[r].run \in 0..Len(runs)
       /\ req[r].result \in {"ok", "denied", "failed", "lost"}
  /\ calls \in 0..MaxCalls /\ faults \in 0..MaxFaults

-----------------------------------------------------------------------------
(***************************************************************************)
(* Requests.                                                               *)
(***************************************************************************)
\* A request of this browser; tag says who waits for the answer.  A login
\* carries its user until the actor is known.
Request(kind, tag, user, run, round) ==
  [Free EXCEPT !.kind = kind, !.step = "sent", !.tag = tag, !.user = user,
               !.run = run, !.round = round,
               !.guest = jar.guest, !.auth = jar.auth]

At(r, step) == req[r].step = step

Goto(r, step) == req' = [req EXCEPT ![r].step = step]

\* What an answer does not carry is forgotten.
Ends(r, result, i, run) ==
  req' = [req EXCEPT ![r] = [@ EXCEPT !.step = "reply", !.result = result,
            !.user = None, !.ps = IF req[r].fresh THEN req[r].ps ELSE 0,
            !.run = i, !.status = run.status, !.round = run.round]]

Refuse(r, result) == Ends(r, result, req[r].run, Free)

\* The answer is the state of a run as getGameSessionStateOrThrow reads it.
Reply(r, i, run) == Ends(r, "ok", i, run)

\* resolveAuthContextFromHeaders: the auth cookie while its row is there,
\* otherwise the guest cookie.
SignedIn(r) == req[r].auth # 0 /\ auths[req[r].auth].live

ActorUser(r) == IF SignedIn(r) THEN auths[req[r].auth].user ELSE None
ActorPlayer(r) == IF SignedIn(r) THEN auths[req[r].auth].ps ELSE req[r].guest

First == [session |-> "reply", login |-> "claim", logout |-> "reply",
          create |-> "daily", get |-> "work", submit |-> "work",
          skip |-> "work", finish |-> "work"]

\* These routes call ensurePlayerSession.
NeedsPlayer(r) == req[r].kind \in {"session", "login", "create"}

Named(r) == IF req[r].kind = "login" THEN req[r].user ELSE ActorUser(r)

\* resolveAuthContext, then ensurePlayerSession, which makes a new player
\* session for a request without cookies, however many there are.
Identify(r) ==
  /\ At(r, "sent") /\ req[r].kind # "logout"
  /\ LET isNew == NeedsPlayer(r) /\ ActorPlayer(r) = 0 IN
     /\ players' = IF isNew THEN Append(players, None) ELSE players
     /\ req' = [req EXCEPT ![r] = [@ EXCEPT
                  !.step = First[req[r].kind], !.user = Named(r),
                  !.ps = IF isNew THEN Len(players) + 1 ELSE ActorPlayer(r),
                  !.fresh = isNew, !.guest = 0, !.auth = 0]]
  /\ UNCHANGED <<jar, auths, runVars, calls, faults>>

\* clearAuthSession
Logout(r) ==
  /\ At(r, "sent") /\ req[r].kind = "logout"
  /\ auths' = IF req[r].auth = 0 THEN auths
              ELSE [auths EXCEPT ![req[r].auth].live = FALSE]
  /\ Goto(r, "reply")
  /\ UNCHANGED <<jar, players, runVars, calls, faults>>

\* The name is taken or the password wrong.
LoginRefused(r) ==
  /\ At(r, "claim")
  /\ Refuse(r, "failed")
  /\ UNCHANGED <<jar, serverVars, calls, faults>>

-----------------------------------------------------------------------------
(***************************************************************************)
(* Login.                                                                  *)
(***************************************************************************)
\* promoteGuestHistory, one update after the other: the player session,
LinkPlayer(r) ==
  /\ At(r, "claim")
  /\ players' = [players EXCEPT ![req[r].ps] = req[r].user]
  /\ Goto(r, "claimRuns")
  /\ UNCHANGED <<jar, auths, runVars, calls, faults>>

\* ... the runs of it that belong to nobody,
Claimed(run, ps, user) ==
  IF run.ps = ps /\ run.user = None THEN [run EXCEPT !.user = user] ELSE run

ClaimRuns(r) ==
  /\ At(r, "claimRuns")
  /\ runs' = [i \in DOMAIN runs |-> Claimed(runs[i], req[r].ps, req[r].user)]
  /\ Goto(r, "claimScores")
  /\ UNCHANGED <<jar, identityVars, daily, scores, calls, faults>>

\* mutant of Owns: the scores of every run of the player session
OwnsAny(run, ps, user) == run.ps = ps
Owns(run, ps, user) == run.ps = ps /\ run.user = user

\* ... and the scores, which belong to nobody, of this user's runs of it.
ClaimScores(r) ==
  /\ At(r, "claimScores")
  /\ scores' = {IF s.user = None /\ Owns(runs[s.run], req[r].ps, req[r].user)
                THEN [s EXCEPT !.user = req[r].user] ELSE s : s \in scores}
  /\ Goto(r, "issue")
  /\ UNCHANGED <<jar, identityVars, daily, runs, calls, faults>>

\* issueAuthSession
Issue(r) ==
  /\ At(r, "issue")
  /\ auths' = Append(auths, [user |-> req[r].user, ps |-> req[r].ps, live |-> TRUE])
  /\ req' = [req EXCEPT ![r].step = "reply", ![r].auth = Len(auths) + 1]
  /\ UNCHANGED <<jar, players, runVars, calls, faults>>

-----------------------------------------------------------------------------
(***************************************************************************)
(* Runs.                                                                   *)
(***************************************************************************)
\* assertSessionAccess
Accessible(run, user, ps) ==
  \/ user # None /\ run.user = user
  \/ ps # 0 /\ run.ps = ps

May(r) == req[r].run # 0 /\ Accessible(runs[req[r].run], req[r].user, req[r].ps)

\* ensureDailyChallengeForDate
FindDaily(r) ==
  /\ At(r, "daily")
  /\ Goto(r, IF daily THEN "find" ELSE "insertDaily")
  /\ UNCHANGED <<jar, serverVars, calls, faults>>

\* Its transaction; the unique date refuses all but the first of the day.
InsertDaily(r) ==
  /\ At(r, "insertDaily")
  /\ IF daily THEN Refuse(r, "failed") ELSE Goto(r, "find")
  /\ daily' = TRUE
  /\ UNCHANGED <<jar, identityVars, runs, scores, calls, faults>>

Own(r) == {i \in DOMAIN runs :
  /\ runs[i].status = "ACTIVE"
  /\ IF req[r].user # None THEN runs[i].user = req[r].user
     ELSE runs[i].ps = req[r].ps}

\* createGameSession takes up the active run of the actor whose request began
\* last.  Creations that overlap may insert their runs in another order, so it
\* may be any of them here.
FindRun(r) ==
  /\ At(r, "find")
  /\ \/ Own(r) = {} /\ Goto(r, "insertRun")
     \/ \E i \in Own(r) : Reply(r, i, runs[i])
  /\ UNCHANGED <<jar, serverVars, calls, faults>>

InsertRun(r) ==
  /\ At(r, "insertRun")
  /\ runs' = Append(runs, [user |-> req[r].user, ps |-> req[r].ps,
                           status |-> "PENDING", round |-> 0])
  /\ req' = [req EXCEPT ![r].step = "activate", ![r].run = Len(runs) + 1]
  /\ UNCHANGED <<jar, identityVars, daily, scores, calls, faults>>

\* activateSession opens the first round; a run that stays PENDING is lost.
Activate(r) ==
  /\ At(r, "activate")
  /\ LET i == req[r].run
         run == [runs[i] EXCEPT !.status = "ACTIVE", !.round = 1] IN
     /\ runs' = [runs EXCEPT ![i] = run]
     /\ Reply(r, i, run)
  /\ UNCHANGED <<jar, identityVars, daily, scores, calls, faults>>

\* The next round, or the end of the run after the last one.
AdvancedAlways(run) ==   \* mutant of Advanced: never the last round
  [run EXCEPT !.round = @ + 1]
Advanced(run) ==
  IF run.round < Rounds THEN [run EXCEPT !.round = @ + 1]
  ELSE [run EXCEPT !.status = "COMPLETED"]

Denied(r) ==
  /\ At(r, "work") /\ ~May(r)
  /\ Refuse(r, "denied")
  /\ UNCHANGED <<jar, serverVars, calls, faults>>

\* The request leaves its run as run and answers with it.
Answers(r, run) ==
  /\ runs' = [runs EXCEPT ![req[r].run] = run]
  /\ Reply(r, req[r].run, run)
  /\ UNCHANGED <<jar, identityVars, daily, scores, calls, faults>>

Works(r, kind) == At(r, "work") /\ req[r].kind = kind /\ May(r)

Active(r) == runs[req[r].run].status = "ACTIVE"

\* getGameSessionState; the progression may find the time over.
Get(r) ==
  /\ Works(r, "get")
  /\ \/ Answers(r, runs[req[r].run])
     \/ Active(r) /\ Answers(r, [runs[req[r].run] EXCEPT !.status = "COMPLETED"])

\* skipCurrentRound, of a round that is still the open one
Skip(r) ==
  /\ Works(r, "skip")
  /\ IF Active(r) /\ runs[req[r].run].round = req[r].round
     THEN Answers(r, Advanced(runs[req[r].run]))
     ELSE Answers(r, runs[req[r].run])

Finish(r) ==
  /\ Works(r, "finish")
  /\ Answers(r, [runs[req[r].run] EXCEPT !.status = "COMPLETED"])

\* submitAttempt: wrong, or the run is over
Wrong(r) ==
  /\ Works(r, "submit")
  /\ Answers(r, runs[req[r].run])

\* ... or right: the run was loaded with its user.
Right(r) ==
  /\ Works(r, "submit") /\ Active(r)
  /\ req' = [req EXCEPT ![r].step = "credit", ![r].user = runs[req[r].run].user]
  /\ UNCHANGED <<jar, serverVars, calls, faults>>

\* acceptResolvedSubmission records the score for the user of that load.
Credit(r) ==
  /\ At(r, "credit")
  /\ LET i == req[r].run
         run == IF Active(r) /\ runs[i].round = req[r].round
                THEN Advanced(runs[i]) ELSE runs[i] IN
     /\ scores' = scores \union {[run |-> i, user |-> req[r].user]}
     /\ runs' = [runs EXCEPT ![i] = run]
     /\ Reply(r, i, run)
  /\ UNCHANGED <<jar, identityVars, daily, calls, faults>>

-----------------------------------------------------------------------------
\* The API process dies between two writes of a request, or the page never
\* gets the answer (for it, a request that does not arrive is the same).
Fails(r) ==
  /\ \/ req[r].step \in {"claimRuns", "claimScores", "issue", "activate", "credit"}
     \/ At(r, "reply") /\ req[r].result = "ok" /\ req[r].tag # "tab"
  /\ faults < MaxFaults /\ faults' = faults + 1
  /\ Refuse(r, "lost")
  /\ UNCHANGED <<jar, serverVars, calls>>

\* The browser takes the cookies of an answer, whatever the page does with it.
Cookies(r) ==
  jar' = [guest |-> IF req[r].fresh THEN req[r].ps ELSE jar.guest,
          auth |-> CASE req[r].kind = "logout" -> 0
                     [] req[r].kind = "login" /\ req[r].result = "ok" -> req[r].auth
                     [] OTHER -> jar.auth]

Received(r) == IF req[r].result = "lost" THEN UNCHANGED jar ELSE Cookies(r)

Handle(r) ==
  \/ Identify(r) \/ Logout(r) \/ LoginRefused(r)
  \/ LinkPlayer(r) \/ ClaimRuns(r) \/ ClaimScores(r) \/ Issue(r)
  \/ FindDaily(r) \/ InsertDaily(r) \/ FindRun(r) \/ InsertRun(r) \/ Activate(r)
  \/ Denied(r) \/ Get(r) \/ Skip(r) \/ Finish(r) \/ Wrong(r) \/ Right(r) \/ Credit(r)

-----------------------------------------------------------------------------
\* A score never belongs to another user than its run, whichever logins,
\* crashes of a promotion and answers in flight come together.
ScoresFollowRuns ==
  \A s \in scores : s.user # None => s.user = runs[s.run].user
=============================================================================
