----------------------------- MODULE PlayFlowProofs -----------------------------
(***************************************************************************)
(* Types of PlayFlow and PlayerRuns, and that scores follow the users of   *)
(* their runs, for any number of requests, users and faults.  Nothing is   *)
(* atomic in a promotion; what helps is that a run that belongs to a user  *)
(* never belongs to another one (Keep).                                    *)
(***************************************************************************)
EXTENDS PlayFlow, TLAPS

Owners == Users \union {None}
Results == {"ok", "denied", "failed", "lost"}
FieldNames == {"kind", "step", "tag", "guest", "auth", "user", "ps", "fresh", "run",
               "round", "status", "result"}

\* Rows, of p player sessions.
AuthType(p) == [user : Users, ps : 1..p, live : BOOLEAN]
RunType(p) == [user : Owners, ps : 1..p, status : Statuses, round : 0..Rounds]

\* steps at which a request has a player session, a run, a user who logs in
WithPlayer == {"claim", "claimRuns", "claimScores", "issue", "daily", "insertDaily",
               "find", "insertRun"}
WithRun == {"activate", "credit"}
WithUser == {"claim", "claimRuns", "claimScores", "issue"}

\* A request, of p player sessions, a auth sessions and runs rs.
Fields(q, p, a, n) ==
  /\ DOMAIN q = FieldNames
  /\ q.kind \in Kinds /\ q.step \in Steps /\ q.result \in Results
  /\ q.user \in Owners
  /\ q.guest \in 0..p /\ q.ps \in 0..p /\ q.auth \in 0..a
  /\ q.run \in 0..n /\ q.round \in 0..Rounds /\ q.status \in Statuses

Carries(q) ==
  /\ q.step \in WithPlayer => q.ps # 0
  /\ q.step \in WithRun => q.run # 0
  /\ q.step \in WithUser => q.user \in Users
  /\ q.step = "sent" /\ q.kind = "login" => q.user \in Users

\* A score is only recorded for nobody or for the user of the run.
Credits(q, rs) == q.step = "credit" => q.user \in {None, rs[q.run].user}

ReqOK(q, p, a, rs) == Fields(q, p, a, Len(rs)) /\ Carries(q) /\ Credits(q, rs)

Tables ==
  /\ players \in Seq(Owners)
  /\ auths \in Seq(AuthType(Len(players)))
  /\ runs \in Seq(RunType(Len(players)))
  /\ daily \in BOOLEAN
  /\ scores \subseteq [run : 1..Len(runs), user : Owners]

Cookie(j, p, a) == j \in [guest : 0..p, auth : 0..a]

Browser ==
  /\ Cookie(jar, Len(players), Len(auths))
  /\ page \in [up : BOOLEAN, boot : BOOLEAN, run : 0..Len(runs),
               status : Statuses, round : 0..Rounds]
  /\ store \in 0..Len(runs)

Reqs ==
  /\ DOMAIN req = Requests /\ req = [r \in Requests |-> req[r]]
  /\ \A r \in Requests : ReqOK(req[r], Len(players), Len(auths), runs)

Bounds == calls \in 0..MaxCalls /\ faults \in 0..MaxFaults

IInv == Tables /\ Browser /\ Reqs /\ Bounds /\ ScoresFollowRuns

\* Rows stay, and a run keeps its user once it has one.
Keep(ps, as, rs, qs, bs, ss) ==
  /\ Len(ps) <= Len(qs) /\ Len(as) <= Len(bs) /\ Len(rs) <= Len(ss)
  /\ \A i \in 1..Len(rs) : rs[i].user # None => ss[i].user = rs[i].user

Kept == Keep(players, auths, runs, players', auths', runs')

-----------------------------------------------------------------------------
(* What survives the steps of others.                                      *)

LEMMA SeqGrows ==
  ASSUME NEW A, NEW B, A \subseteq B, NEW s \in Seq(A) PROVE s \in Seq(B)
OBVIOUS

LEMMA Lengths ==
  ASSUME Tables
  PROVE  /\ Len(players) \in Nat /\ Len(auths) \in Nat /\ Len(runs) \in Nat
         /\ DOMAIN players = 1..Len(players) /\ DOMAIN auths = 1..Len(auths)
         /\ DOMAIN runs = 1..Len(runs)
BY DEF Tables

LEMMA FieldsGrow ==
  ASSUME NEW q, NEW p \in Nat, NEW a \in Nat, NEW n \in Nat, Fields(q, p, a, n),
         NEW p2 \in Nat, NEW a2 \in Nat, NEW n2 \in Nat, p <= p2, a <= a2, n <= n2
  PROVE  Fields(q, p2, a2, n2)
BY DEF Fields

\* A request that does nothing stays in order.
LEMMA OthersStay ==
  ASSUME Tables, Tables', Kept, NEW q, ReqOK(q, Len(players), Len(auths), runs)
  PROVE  ReqOK(q, Len(players'), Len(auths'), runs')
<1>1. /\ Len(players) \in Nat /\ Len(auths) \in Nat /\ Len(runs) \in Nat
      /\ Len(players') \in Nat /\ Len(auths') \in Nat /\ Len(runs') \in Nat
  BY DEF Tables
<1>2. Fields(q, Len(players'), Len(auths'), Len(runs'))
  BY <1>1, FieldsGrow DEF ReqOK, Kept, Keep
<1>3. Credits(q, runs')
  <2>1. CASE q.step # "credit"
    BY <2>1 DEF Credits
  <2>2. CASE q.step = "credit"
    <3>1. q.run \in 1..Len(runs)
      BY <1>1, <2>2 DEF ReqOK, Fields, Carries, WithRun
    <3> QED BY <2>2, <3>1 DEF ReqOK, Credits, Kept, Keep
  <2> QED BY <2>1, <2>2
<1> QED BY <1>2, <1>3 DEF ReqOK

\* Scores that were there follow their runs.
LEMMA ScoresStay ==
  ASSUME Tables, Kept, ScoresFollowRuns, NEW s \in scores
  PROVE  s.user # None => s.user = runs'[s.run].user
BY DEF Tables, Kept, Keep, ScoresFollowRuns

\* One request changes.
Writes(f, g, r, q) == g = [f EXCEPT ![r] = q]

LEMMA OneRequest ==
  ASSUME Tables, Reqs, Tables', Kept, NEW r \in Requests, NEW q, Writes(req, req', r, q),
         ReqOK(q, Len(players'), Len(auths'), runs')
  PROVE  Reqs'
<1>1. DOMAIN req' = Requests /\ req' = [s \in Requests |-> req'[s]]
  BY DEF Reqs, Writes
<1>2. ASSUME NEW s \in Requests PROVE ReqOK(req'[s], Len(players'), Len(auths'), runs')
  <2>1. CASE s = r
    <3>1. req'[s] = q
      BY <2>1 DEF Reqs, Writes
    <3> QED BY <3>1
  <2>2. CASE s # r
    <3>1. req'[s] = req[s] /\ ReqOK(req[s], Len(players), Len(auths), runs)
      BY <2>2 DEF Reqs, Writes
    <3> QED BY <3>1, OthersStay
  <2> QED BY <2>1, <2>2
<1> QED BY <1>1, <1>2 DEF Reqs

\* A step of the server.
LEMMA ServerStep ==
  ASSUME IInv, Tables', Kept, NEW r \in Requests, NEW q, Writes(req, req', r, q),
         ReqOK(q, Len(players'), Len(auths'), runs'), ScoresFollowRuns', Bounds',
         UNCHANGED <<jar, pageVars>>
  PROVE  IInv'
<1>1. Reqs'
  BY OneRequest DEF IInv
<1>2. Browser'
  <2>1. /\ Len(players) \in Nat /\ Len(auths) \in Nat /\ Len(runs) \in Nat
        /\ Len(players') \in Nat /\ Len(auths') \in Nat /\ Len(runs') \in Nat
    BY DEF IInv, Tables
  <2>2. Cookie(jar, Len(players'), Len(auths'))
    BY <2>1 DEF IInv, Browser, Cookie, Kept, Keep
  <2>3. store \in 0..Len(runs')
    BY <2>1 DEF IInv, Browser, Kept, Keep
  <2>4. page \in [up : BOOLEAN, boot : BOOLEAN, run : 0..Len(runs'),
                  status : Statuses, round : 0..Rounds]
    BY <2>1 DEF IInv, Browser, Kept, Keep
  <2> QED BY <2>2, <2>3, <2>4 DEF Browser, pageVars
<1> QED BY <1>1, <1>2 DEF IInv

\* Nothing but requests changes.
LEMMA SameTables ==
  ASSUME IInv, UNCHANGED serverVars
  PROVE  Tables' /\ Kept /\ ScoresFollowRuns'
<1>1. UNCHANGED <<players, auths, daily, runs, scores>>
  BY DEF serverVars, identityVars, runVars
<1>2. Tables'
  BY <1>1 DEF IInv, Tables
<1>3. Kept
  BY <1>1, Lengths DEF IInv, Kept, Keep
<1> QED BY <1>1, <1>2, <1>3 DEF IInv, ScoresFollowRuns

-----------------------------------------------------------------------------
(* What the actions write into a request.                                  *)

LEMMA GotoOK ==
  ASSUME NEW q, NEW p, NEW a, NEW rs, ReqOK(q, p, a, rs), NEW s \in Steps, NEW t,
         t = [q EXCEPT !.step = s], s # "sent",
         s \in WithPlayer => q.ps # 0, s \in WithRun => q.run # 0,
         s \in WithUser => q.user \in Users, s # "credit"
  PROVE  ReqOK(t, p, a, rs)
<1>1. /\ DOMAIN t = DOMAIN q /\ t.step = s
      /\ t.kind = q.kind /\ t.result = q.result /\ t.user = q.user /\ t.guest = q.guest
      /\ t.ps = q.ps /\ t.auth = q.auth /\ t.run = q.run /\ t.round = q.round
      /\ t.status = q.status
  BY DEF ReqOK, Fields, FieldNames
<1> QED BY <1>1 DEF ReqOK, Fields, Carries, Credits

\* Ends
EndOf(q, res, i, run) ==
  [q EXCEPT !.step = "reply", !.result = res, !.user = None,
            !.ps = IF q.fresh THEN q.ps ELSE 0,
            !.run = i, !.status = run.status, !.round = run.round]

LEMMA EndsOK ==
  ASSUME NEW q, NEW p \in Nat, NEW a \in Nat, NEW rs, ReqOK(q, p, a, rs), Len(rs) \in Nat,
         NEW res \in Results, NEW i \in 0..Len(rs), NEW run,
         run.status \in Statuses, run.round \in 0..Rounds
  PROVE  ReqOK(EndOf(q, res, i, run), p, a, rs)
<1>1. PICK t : t = EndOf(q, res, i, run)
  OBVIOUS
<1>2. /\ DOMAIN t = DOMAIN q /\ t.step = "reply" /\ t.result = res
      /\ t.user = None /\ t.run = i /\ t.status = run.status /\ t.round = run.round
      /\ t.kind = q.kind /\ t.guest = q.guest /\ t.auth = q.auth
      /\ t.ps = IF q.fresh THEN q.ps ELSE 0
  BY <1>1 DEF EndOf, ReqOK, Fields, FieldNames
<1>3. Fields(t, p, a, Len(rs))
  BY <1>2 DEF ReqOK, Fields, Steps, Owners
<1>4. Carries(t) /\ Credits(t, rs)
  BY <1>2 DEF Carries, Credits, WithPlayer, WithRun, WithUser
<1> QED BY <1>1, <1>3, <1>4 DEF ReqOK

LEMMA NewOK ==
  ASSUME IInv, NEW t, DOMAIN t = FieldNames, t.step = "sent", t.kind \in Kinds,
         t.user \in Owners, t.run \in 0..Len(runs), t.round \in 0..Rounds,
         t.guest \in 0..Len(players), t.auth \in 0..Len(auths),
         t.ps = 0, t.status = "PENDING", t.result = "ok", t.kind = "login" => t.user \in Users
  PROVE  ReqOK(t, Len(players), Len(auths), runs)
<1>1. Fields(t, Len(players), Len(auths), Len(runs))
  BY Lengths DEF IInv, Fields, Steps, Statuses, Results
<1>2. Carries(t) /\ Credits(t, runs)
  BY DEF Carries, Credits, WithPlayer, WithRun, WithUser
<1> QED BY <1>1, <1>2 DEF ReqOK

LEMMA RequestOK ==
  ASSUME IInv, NEW kind \in Kinds, NEW tag, NEW user \in Owners, NEW run \in 0..Len(runs),
         NEW round \in 0..Rounds, kind = "login" => user \in Users, NEW t,
         t = Request(kind, tag, user, run, round)
  PROVE  ReqOK(t, Len(players), Len(auths), runs)
<1>1. /\ DOMAIN t = FieldNames /\ t.step = "sent" /\ t.kind = kind /\ t.user = user
      /\ t.run = run /\ t.round = round /\ t.guest = jar.guest /\ t.auth = jar.auth
      /\ t.ps = 0 /\ t.status = "PENDING" /\ t.result = "ok"
  BY DEF Request, Free, FieldNames
<1>2. jar.guest \in 0..Len(players) /\ jar.auth \in 0..Len(auths)
  BY DEF IInv, Browser, Cookie
<1> QED BY <1>1, <1>2, NewOK

\* The same, with the cookies the browser has got by then.
LEMMA FetchOK ==
  ASSUME IInv, NEW kind \in Kinds \ {"login"}, NEW tag, NEW run \in 0..Len(runs),
         NEW guest \in 0..Len(players), NEW auth \in 0..Len(auths), NEW t,
         t = [Request(kind, tag, None, run, 0) EXCEPT !.guest = guest, !.auth = auth]
  PROVE  ReqOK(t, Len(players), Len(auths), runs)
<1>1. /\ DOMAIN t = FieldNames /\ t.step = "sent" /\ t.kind = kind /\ t.user = None
      /\ t.run = run /\ t.round = 0 /\ t.guest = guest /\ t.auth = auth
      /\ t.ps = 0 /\ t.status = "PENDING" /\ t.result = "ok"
  BY DEF Request, Free, FieldNames
<1>2. None \in Owners /\ 0 \in 0..Rounds
  BY PlayerAssumption DEF Owners
<1> QED BY <1>1, <1>2, NewOK

LEMMA FreeOK == ASSUME IInv PROVE ReqOK(Free, Len(players), Len(auths), runs)
<1>1. /\ DOMAIN Free = FieldNames /\ Free.step = "none" /\ Free.kind = "get"
      /\ Free.user = None /\ Free.run = 0 /\ Free.round = 0 /\ Free.guest = 0
      /\ Free.auth = 0 /\ Free.ps = 0 /\ Free.status = "PENDING" /\ Free.result = "ok"
  BY DEF Free, FieldNames
<1>2. Fields(Free, Len(players), Len(auths), Len(runs))
  BY <1>1, Lengths, PlayerAssumption
     DEF IInv, Fields, Kinds, Steps, Statuses, Results, Owners
<1>3. Carries(Free) /\ Credits(Free, runs)
  BY <1>1 DEF Carries, Credits, WithPlayer, WithRun, WithUser
<1> QED BY <1>2, <1>3 DEF ReqOK

-----------------------------------------------------------------------------
(* Rows the actions write.                                                 *)

LEMMA Typed ==
  ASSUME IInv, NEW r \in Requests
  PROVE  /\ ReqOK(req[r], Len(players), Len(auths), runs)
         /\ Len(players) \in Nat /\ Len(auths) \in Nat /\ Len(runs) \in Nat
BY Lengths DEF IInv, Reqs

\* A run is replaced by one of the same user, or one that gets a user.
LEMMA RunWritten ==
  ASSUME IInv, UNCHANGED identityVars, UNCHANGED daily, NEW i \in 1..Len(runs),
         NEW run \in RunType(Len(players)), run.user = runs[i].user,
         Writes(runs, runs', i, run)
  PROVE  /\ runs' \in Seq(RunType(Len(players))) /\ Len(runs') = Len(runs) /\ Kept
         /\ \A j \in 1..Len(runs) : runs'[j].user = runs[j].user
<1>1. /\ players' = players /\ auths' = auths /\ runs \in Seq(RunType(Len(players)))
  BY DEF IInv, Tables, identityVars
<1>2. runs' \in Seq(RunType(Len(players))) /\ Len(runs') = Len(runs)
  BY <1>1 DEF Writes
<1>3. \A j \in 1..Len(runs) : runs'[j].user = runs[j].user
  BY <1>1 DEF Writes
<1>4. Kept
  BY <1>1, <1>2, <1>3, Lengths DEF IInv, Kept, Keep
<1> QED BY <1>2, <1>3, <1>4

\* A request goes from one step to the next without touching a row.
LEMMA GoesOn ==
  ASSUME IInv, NEW r \in Requests, NEW s \in Steps, Goto(r, s), s # "sent", s # "credit",
         s \in WithPlayer => req[r].ps # 0, s \in WithRun => req[r].run # 0,
         s \in WithUser => req[r].user \in Users,
         UNCHANGED <<jar, pageVars, calls, faults>>, Tables', Kept, ScoresFollowRuns'
  PROVE  IInv'
<1>1. PICK q : q = [req[r] EXCEPT !.step = s]
  OBVIOUS
<1>2. ReqOK(q, Len(players), Len(auths), runs)
  BY <1>1, Typed, GotoOK
<1>3. ReqOK(q, Len(players'), Len(auths'), runs')
  BY <1>2, OthersStay DEF IInv
<1>4. Writes(req, req', r, q)
  BY <1>1 DEF Goto, Writes
<1>5. Bounds'
  BY DEF IInv, Bounds
<1> QED BY <1>3, <1>4, <1>5, ServerStep

\* A request ends with a state of a run that has the types of one.
LEMMA EndsHolds ==
  ASSUME IInv, NEW r \in Requests, NEW res \in Results, NEW i \in 0..Len(runs), NEW run,
         run.status \in Statuses, run.round \in 0..Rounds, Ends(r, res, i, run),
         UNCHANGED <<jar, pageVars>>, Bounds', Tables', Kept, ScoresFollowRuns'
  PROVE  IInv'
<1>1. PICK q : q = EndOf(req[r], res, i, run)
  OBVIOUS
<1>2. ReqOK(q, Len(players), Len(auths), runs)
  BY <1>1, Typed, EndsOK
<1>3. ReqOK(q, Len(players'), Len(auths'), runs')
  BY <1>2, OthersStay DEF IInv
<1>4. Writes(req, req', r, q)
  BY <1>1 DEF Ends, EndOf, Writes, Reqs, IInv
<1> QED BY <1>3, <1>4, ServerStep

LEMMA RefuseHolds ==
  ASSUME IInv, NEW r \in Requests, NEW res \in Results, Refuse(r, res),
         UNCHANGED <<jar, pageVars>>, Bounds', Tables', Kept, ScoresFollowRuns'
  PROVE  IInv'
<1>1. Free.status \in Statuses /\ Free.round \in 0..Rounds
  BY PlayerAssumption DEF Free, Statuses
<1>2. req[r].run \in 0..Len(runs)
  BY Typed DEF ReqOK, Fields
<1>3. PICK run : run = Free
  OBVIOUS
<1> QED BY <1>1, <1>2, <1>3, EndsHolds DEF Refuse

-----------------------------------------------------------------------------
(* The actions of PlayerRuns.                                              *)

LEMMA IdentifyHolds ==
  ASSUME IInv, NEW r \in Requests, Identify(r), UNCHANGED pageVars PROVE IInv'
<1>1. /\ req[r].step = "sent" /\ req[r].kind # "logout"
      /\ UNCHANGED <<jar, auths, daily, runs, scores, calls, faults>>
  BY DEF Identify, At, runVars
<1>2. ReqOK(req[r], Len(players), Len(auths), runs)
  BY Typed
<1>3. /\ Len(players) \in Nat /\ Len(auths) \in Nat /\ Len(runs) \in Nat
      /\ \A i \in 1..Len(auths) : auths[i].user \in Users /\ auths[i].ps \in 1..Len(players)
  <2>1. Len(players) \in Nat /\ Len(auths) \in Nat /\ Len(runs) \in Nat
    BY Typed
  <2>2. \A i \in 1..Len(auths) : auths[i] \in AuthType(Len(players))
    BY DEF IInv, Tables
  <2> QED BY <2>1, <2>2 DEF AuthType
<1>4. ActorUser(r) \in Owners /\ ActorPlayer(r) \in 0..Len(players)
  BY <1>2, <1>3 DEF ActorUser, ActorPlayer, SignedIn, ReqOK, Fields, Owners
<1>5. PICK isNew \in BOOLEAN : isNew = (NeedsPlayer(r) /\ ActorPlayer(r) = 0)
  OBVIOUS
<1>6. PICK ps : ps = IF isNew THEN Len(players) + 1 ELSE ActorPlayer(r)
  OBVIOUS
<1>7. players' = IF isNew THEN Append(players, None) ELSE players
  BY <1>5 DEF Identify
<1>8. /\ players' \in Seq(Owners) /\ Len(players') \in Nat /\ Len(players) <= Len(players')
      /\ ps \in 0..Len(players')
  <2>1. CASE isNew
    BY <1>3, <1>6, <1>7, <2>1 DEF IInv, Tables, Owners
  <2>2. CASE ~isNew
    BY <1>3, <1>4, <1>6, <1>7, <2>2 DEF IInv, Tables
  <2> QED BY <2>1, <2>2
<1>9. NeedsPlayer(r) => ps # 0
  <2>1. CASE isNew
    BY <1>3, <1>6, <2>1
  <2>2. CASE ~isNew
    <3>1. NeedsPlayer(r) => ActorPlayer(r) # 0
      BY <1>5, <2>2
    <3> QED BY <1>6, <2>2, <3>1
  <2> QED BY <2>1, <2>2
<1>10. Tables'
  <2>1. /\ AuthType(Len(players)) \subseteq AuthType(Len(players'))
        /\ RunType(Len(players)) \subseteq RunType(Len(players'))
    BY <1>3, <1>8 DEF AuthType, RunType
  <2>2. auths \in Seq(AuthType(Len(players'))) /\ runs \in Seq(RunType(Len(players')))
    BY <2>1, SeqGrows DEF IInv, Tables
  <2> QED BY <1>1, <1>8, <2>2 DEF IInv, Tables
<1>11. Kept /\ ScoresFollowRuns'
  BY <1>1, <1>3, <1>8 DEF IInv, Kept, Keep, ScoresFollowRuns
<1>12. PICK q : q = [req[r] EXCEPT !.step = First[req[r].kind], !.user = Named(r),
                       !.ps = ps, !.fresh = isNew, !.guest = 0, !.auth = 0]
  OBVIOUS
<1>13. Writes(req, req', r, q)
  BY <1>5, <1>6, <1>12 DEF Identify, Writes, IInv, Reqs
<1>14. ReqOK(q, Len(players'), Len(auths'), runs')
  <2>1. /\ DOMAIN q = DOMAIN req[r] /\ q.step = First[req[r].kind] /\ q.user = Named(r)
        /\ q.ps = ps /\ q.guest = 0 /\ q.auth = 0 /\ q.kind = req[r].kind
        /\ q.run = req[r].run /\ q.round = req[r].round /\ q.status = req[r].status
        /\ q.result = req[r].result
    BY <1>2, <1>12 DEF ReqOK, Fields, FieldNames
  <2>2. Named(r) \in Owners /\ (req[r].kind = "login" => Named(r) \in Users)
    BY <1>1, <1>2, <1>4 DEF Named, ReqOK, Fields, Carries, Owners
  <2>3. /\ q.step \in {"reply", "claim", "daily", "work"}
        /\ q.step \in {"claim", "daily"} => NeedsPlayer(r)
        /\ q.step = "claim" => req[r].kind = "login"
    BY <1>1, <1>2, <2>1 DEF First, NeedsPlayer, ReqOK, Fields, Kinds
  <2>4. Fields(q, Len(players'), Len(auths'), Len(runs'))
    BY <1>1, <1>2, <1>3, <1>8, <2>1, <2>2, <2>3 DEF ReqOK, Fields, Steps
  <2>5. Carries(q)
    BY <1>9, <2>1, <2>2, <2>3 DEF Carries, WithPlayer, WithRun, WithUser
  <2>6. Credits(q, runs')
    BY <2>3 DEF Credits
  <2> QED BY <2>4, <2>5, <2>6 DEF ReqOK
<1>15. Bounds'
  BY <1>1 DEF IInv, Bounds
<1> QED BY <1>1, <1>10, <1>11, <1>13, <1>14, <1>15, ServerStep

LEMMA LogoutHolds ==
  ASSUME IInv, NEW r \in Requests, Logout(r), UNCHANGED pageVars PROVE IInv'
<1>1. /\ Goto(r, "reply") /\ UNCHANGED <<jar, players, daily, runs, scores, calls, faults>>
      /\ auths' = IF req[r].auth = 0 THEN auths
                  ELSE [auths EXCEPT ![req[r].auth].live = FALSE]
  BY DEF Logout, runVars
<1>2. auths' \in Seq(AuthType(Len(players))) /\ Len(auths') = Len(auths)
  <2>1. CASE req[r].auth = 0
    BY <1>1, <2>1 DEF IInv, Tables
  <2>2. CASE req[r].auth # 0
    <3>1. PICK i \in 1..Len(auths) : i = req[r].auth
      BY <2>2, Typed DEF ReqOK, Fields
    <3>2. PICK x : x = [auths[i] EXCEPT !.live = FALSE]
      OBVIOUS
    <3>3. auths[i] \in AuthType(Len(players)) /\ auths \in Seq(AuthType(Len(players)))
      BY <3>1 DEF IInv, Tables
    <3>4. x \in AuthType(Len(players))
      BY <3>2, <3>3 DEF AuthType
    <3>5. auths' = [auths EXCEPT ![i] = x]
      BY <1>1, <2>2, <3>1, <3>2
    <3> QED BY <3>3, <3>4, <3>5
  <2> QED BY <2>1, <2>2
<1>3. Tables' /\ Kept /\ ScoresFollowRuns'
  BY <1>1, <1>2, Lengths DEF IInv, Tables, Kept, Keep, ScoresFollowRuns
<1>4. "reply" \in Steps /\ "reply" \notin WithPlayer \union WithRun \union WithUser
  BY DEF Steps, WithPlayer, WithRun, WithUser
<1> QED BY <1>1, <1>3, <1>4, GoesOn

LEMMA LoginRefusedHolds ==
  ASSUME IInv, NEW r \in Requests, LoginRefused(r), UNCHANGED pageVars PROVE IInv'
<1>1. Refuse(r, "failed") /\ UNCHANGED <<jar, calls, faults>> /\ UNCHANGED serverVars
  BY DEF LoginRefused
<1>2. Bounds' /\ "failed" \in Results
  BY <1>1 DEF IInv, Bounds, Results
<1> QED BY <1>1, <1>2, SameTables, RefuseHolds

LEMMA LinkPlayerHolds ==
  ASSUME IInv, NEW r \in Requests, LinkPlayer(r), UNCHANGED pageVars PROVE IInv'
<1>1. /\ req[r].step = "claim" /\ Goto(r, "claimRuns")
      /\ players' = [players EXCEPT ![req[r].ps] = req[r].user]
      /\ UNCHANGED <<jar, auths, daily, runs, scores, calls, faults>>
  BY DEF LinkPlayer, At, runVars
<1>2. req[r].user \in Users /\ req[r].ps # 0 /\ Len(players) \in Nat
  BY <1>1, Typed, Lengths DEF IInv, ReqOK, Carries, WithPlayer, WithUser
<1>3. players' \in Seq(Owners) /\ Len(players') = Len(players)
  <2>1. PICK i \in 1..Len(players) : i = req[r].ps
    BY <1>2, Typed DEF ReqOK, Fields
  <2>2. req[r].user \in Owners
    BY <1>2 DEF Owners
  <2> QED BY <1>1, <2>1, <2>2 DEF IInv, Tables
<1>4. Tables'
  BY <1>1, <1>3 DEF IInv, Tables
<1>5. Kept
  BY <1>1, <1>2, <1>3, Lengths DEF IInv, Kept, Keep
<1>6. ScoresFollowRuns'
  BY <1>1 DEF IInv, ScoresFollowRuns
<1>7. "claimRuns" \in Steps /\ "claimRuns" \notin WithRun
  BY DEF Steps, WithRun
<1> QED BY <1>1, <1>2, <1>4, <1>5, <1>6, <1>7, GoesOn

\* The runs of nobody get the user; the others stay.
LEMMA ClaimRunsHolds ==
  ASSUME IInv, NEW r \in Requests, ClaimRuns(r), UNCHANGED pageVars PROVE IInv'
<1>1. /\ req[r].step = "claimRuns" /\ Goto(r, "claimScores")
      /\ runs' = [i \in DOMAIN runs |-> Claimed(runs[i], req[r].ps, req[r].user)]
      /\ UNCHANGED <<jar, players, auths, daily, scores, calls, faults>>
  BY DEF ClaimRuns, At, identityVars
<1>2. /\ req[r].user \in Users /\ req[r].ps # 0
      /\ Len(players) \in Nat /\ Len(runs) \in Nat /\ DOMAIN runs = 1..Len(runs)
  BY <1>1, Typed, Lengths DEF IInv, ReqOK, Carries, WithPlayer, WithUser
<1>3. ASSUME NEW i \in 1..Len(runs)
      PROVE  /\ Claimed(runs[i], req[r].ps, req[r].user) \in RunType(Len(players))
             /\ runs[i].user # None =>
                  Claimed(runs[i], req[r].ps, req[r].user).user = runs[i].user
  <2>1. runs[i] \in RunType(Len(players))
    BY DEF IInv, Tables
  <2> QED BY <1>2, <2>1 DEF Claimed, RunType, Owners
<1>4. /\ runs' \in Seq(RunType(Len(players))) /\ Len(runs') = Len(runs)
      /\ \A i \in 1..Len(runs) : runs[i].user # None => runs'[i].user = runs[i].user
  BY <1>1, <1>2, <1>3
<1>5. Tables' /\ Kept
  <2>1. /\ auths' \in Seq(AuthType(Len(players'))) /\ runs' \in Seq(RunType(Len(players')))
        /\ scores' \subseteq [run : 1..Len(runs'), user : Owners]
    BY <1>1, <1>4 DEF IInv, Tables
  <2>2. Tables'
    BY <1>1, <2>1 DEF IInv, Tables
  <2>3. Kept
    BY <1>1, <1>2, <1>4, Lengths DEF IInv, Kept, Keep
  <2> QED BY <2>2, <2>3
<1>6. ScoresFollowRuns'
  BY <1>1, <1>5, ScoresStay DEF IInv, ScoresFollowRuns
<1>7. "claimScores" \in Steps /\ "claimScores" \notin WithRun
  BY DEF Steps, WithRun
<1> QED BY <1>1, <1>2, <1>5, <1>6, <1>7, GoesOn

LEMMA ClaimScoresHolds ==
  ASSUME IInv, NEW r \in Requests, ClaimScores(r), UNCHANGED pageVars PROVE IInv'
<1>1. /\ req[r].step = "claimScores" /\ Goto(r, "issue")
      /\ UNCHANGED <<jar, players, auths, daily, runs, calls, faults>>
  BY DEF ClaimScores, At, identityVars
<1>2. req[r].user \in Users /\ req[r].ps # 0
  BY <1>1, Typed DEF ReqOK, Carries, WithPlayer, WithUser
<1>3. \A t \in scores' :
        \/ t \in scores
        \/ /\ t.user = req[r].user /\ t.user = runs[t.run].user
           /\ t \in [run : 1..Len(runs), user : Owners]
  <2>1. ASSUME NEW t \in scores', t \notin scores
        PROVE  /\ t.user = req[r].user /\ t.user = runs[t.run].user
               /\ t \in [run : 1..Len(runs), user : Owners]
    <3>1. PICK s \in scores : /\ s.user = None /\ Owns(runs[s.run], req[r].ps, req[r].user)
                              /\ t = [s EXCEPT !.user = req[r].user]
      BY <2>1 DEF ClaimScores
    <3>2. s \in [run : 1..Len(runs), user : Owners]
      BY DEF IInv, Tables
    <3> QED BY <1>2, <3>1, <3>2 DEF Owns, Owners
  <2> QED BY <2>1
<1>4. Tables'
  BY <1>1, <1>3 DEF IInv, Tables
<1>5. Kept
  BY <1>1, Lengths DEF IInv, Kept, Keep
<1>6. ScoresFollowRuns'
  BY <1>1, <1>3 DEF IInv, ScoresFollowRuns
<1>7. "issue" \in Steps /\ "issue" \notin WithRun
  BY DEF Steps, WithRun
<1> QED BY <1>1, <1>2, <1>4, <1>5, <1>6, <1>7, GoesOn

LEMMA IssueHolds ==
  ASSUME IInv, NEW r \in Requests, Issue(r), UNCHANGED pageVars PROVE IInv'
<1>1. /\ req[r].step = "issue" /\ UNCHANGED <<jar, players, daily, runs, scores, calls, faults>>
      /\ auths' = Append(auths, [user |-> req[r].user, ps |-> req[r].ps, live |-> TRUE])
  BY DEF Issue, At, runVars
<1>2. /\ req[r].user \in Users /\ req[r].ps \in 1..Len(players)
      /\ ReqOK(req[r], Len(players), Len(auths), runs) /\ Len(auths) \in Nat
  BY <1>1, Typed DEF ReqOK, Fields, Carries, WithPlayer, WithUser
<1>3. /\ auths' \in Seq(AuthType(Len(players))) /\ Len(auths') = Len(auths) + 1
  <2>1. [user |-> req[r].user, ps |-> req[r].ps, live |-> TRUE] \in AuthType(Len(players))
    BY <1>2 DEF AuthType
  <2> QED BY <1>1, <2>1 DEF IInv, Tables
<1>4. Tables' /\ Kept /\ ScoresFollowRuns'
  BY <1>1, <1>3, Lengths DEF IInv, Tables, Kept, Keep, ScoresFollowRuns
<1>5. PICK q : q = [req[r] EXCEPT !.step = "reply", !.auth = Len(auths) + 1]
  OBVIOUS
<1>6. Writes(req, req', r, q)
  BY <1>5 DEF Issue, Writes, IInv, Reqs
<1>7. ReqOK(q, Len(players), Len(auths) + 1, runs)
  <2>1. /\ DOMAIN q = DOMAIN req[r] /\ q.step = "reply" /\ q.auth = Len(auths) + 1
        /\ q.kind = req[r].kind /\ q.result = req[r].result /\ q.user = req[r].user
        /\ q.guest = req[r].guest /\ q.ps = req[r].ps /\ q.run = req[r].run
        /\ q.round = req[r].round /\ q.status = req[r].status
    BY <1>2, <1>5 DEF ReqOK, Fields, FieldNames
  <2> QED BY <1>2, <2>1
      DEF ReqOK, Fields, Carries, Credits, Steps, WithPlayer, WithRun, WithUser
<1>8. ReqOK(q, Len(players'), Len(auths'), runs')
  BY <1>1, <1>3, <1>7
<1>9. Bounds'
  BY <1>1 DEF IInv, Bounds
<1> QED BY <1>1, <1>4, <1>6, <1>8, <1>9, ServerStep

LEMMA FindDailyHolds ==
  ASSUME IInv, NEW r \in Requests, FindDaily(r), UNCHANGED pageVars PROVE IInv'
<1>1. PICK s \in {"find", "insertDaily"} : Goto(r, s)
  BY DEF FindDaily
<1>2. req[r].step = "daily" /\ UNCHANGED <<jar, calls, faults>> /\ UNCHANGED serverVars
  BY DEF FindDaily, At
<1>3. req[r].ps # 0
  BY <1>2, Typed DEF ReqOK, Carries, WithPlayer
<1>4. s \in Steps /\ s \notin WithRun \union WithUser /\ s # "sent" /\ s # "credit"
  BY DEF Steps, WithRun, WithUser
<1> QED BY <1>1, <1>2, <1>3, <1>4, SameTables, GoesOn

LEMMA InsertDailyHolds ==
  ASSUME IInv, NEW r \in Requests, InsertDaily(r), UNCHANGED pageVars PROVE IInv'
<1>1. /\ req[r].step = "insertDaily" /\ daily' = TRUE
      /\ UNCHANGED <<jar, players, auths, runs, scores, calls, faults>>
      /\ Refuse(r, "failed") \/ Goto(r, "find")
  BY DEF InsertDaily, At, identityVars
<1>2. Tables' /\ Kept /\ ScoresFollowRuns' /\ Bounds'
  BY <1>1, Lengths DEF IInv, Tables, Kept, Keep, ScoresFollowRuns, Bounds
<1>3. req[r].ps # 0
  BY <1>1, Typed DEF ReqOK, Carries, WithPlayer
<1>4. CASE Refuse(r, "failed")
  BY <1>1, <1>2, <1>4, RefuseHolds DEF Results
<1>5. CASE Goto(r, "find")
  <2>1. "find" \in Steps /\ "find" \notin WithRun \union WithUser
    BY DEF Steps, WithRun, WithUser
  <2> QED BY <1>1, <1>2, <1>3, <1>5, <2>1, GoesOn
<1> QED BY <1>1, <1>4, <1>5

LEMMA FindRunHolds ==
  ASSUME IInv, NEW r \in Requests, FindRun(r), UNCHANGED pageVars PROVE IInv'
<1>1. req[r].step = "find" /\ UNCHANGED <<jar, calls, faults>> /\ UNCHANGED serverVars
  BY DEF FindRun, At
<1>2. Tables' /\ Kept /\ ScoresFollowRuns' /\ Bounds'
  BY <1>1, SameTables DEF IInv, Bounds
<1>3. CASE Goto(r, "insertRun")
  <2>1. req[r].ps # 0
    BY <1>1, Typed DEF ReqOK, Carries, WithPlayer
  <2>2. "insertRun" \in Steps /\ "insertRun" \notin WithRun \union WithUser
    BY DEF Steps, WithRun, WithUser
  <2> QED BY <1>1, <1>2, <1>3, <2>1, <2>2, GoesOn
<1>4. CASE \E i \in Own(r) : Reply(r, i, runs[i])
  <2>1. PICK i \in 1..Len(runs) : Reply(r, i, runs[i])
    BY <1>4, Lengths DEF IInv, Own
  <2>2. runs[i] \in RunType(Len(players)) /\ i \in 0..Len(runs)
    BY Lengths DEF IInv, Tables
  <2>3. PICK run : run = runs[i]
    OBVIOUS
  <2>4. run.status \in Statuses /\ run.round \in 0..Rounds /\ "ok" \in Results
    BY <2>2, <2>3 DEF RunType, Results
  <2> QED BY <1>1, <1>2, <2>1, <2>2, <2>3, <2>4, EndsHolds DEF Reply
<1> QED BY <1>3, <1>4 DEF FindRun

LEMMA InsertRunHolds ==
  ASSUME IInv, NEW r \in Requests, InsertRun(r), UNCHANGED pageVars PROVE IInv'
<1>1. /\ req[r].step = "insertRun"
      /\ UNCHANGED <<jar, players, auths, daily, scores, calls, faults>>
      /\ runs' = Append(runs, [user |-> req[r].user, ps |-> req[r].ps,
                               status |-> "PENDING", round |-> 0])
  BY DEF InsertRun, At, identityVars
<1>2. /\ req[r].user \in Owners /\ req[r].ps \in 1..Len(players) /\ Len(runs) \in Nat
      /\ ReqOK(req[r], Len(players), Len(auths), runs)
  BY <1>1, Typed DEF ReqOK, Fields, Carries, WithPlayer
<1>3. /\ runs' \in Seq(RunType(Len(players))) /\ Len(runs') = Len(runs) + 1
      /\ \A i \in 1..Len(runs) : runs'[i] = runs[i]
  <2>1. [user |-> req[r].user, ps |-> req[r].ps, status |-> "PENDING", round |-> 0]
          \in RunType(Len(players))
    BY <1>2, PlayerAssumption DEF RunType, Statuses
  <2> QED BY <1>1, <2>1 DEF IInv, Tables
<1>4. Kept
  BY <1>1, <1>2, <1>3, Lengths DEF IInv, Kept, Keep
<1>5. Tables'
  BY <1>1, <1>2, <1>3 DEF IInv, Tables
<1>6. ScoresFollowRuns'
  BY <1>1, <1>4, ScoresStay DEF IInv, ScoresFollowRuns
<1>7. PICK q : q = [req[r] EXCEPT !.step = "activate", !.run = Len(runs) + 1]
  OBVIOUS
<1>8. Writes(req, req', r, q)
  BY <1>7 DEF InsertRun, Writes, IInv, Reqs
<1>9. ReqOK(q, Len(players), Len(auths), runs')
  <2>1. /\ DOMAIN q = DOMAIN req[r] /\ q.step = "activate" /\ q.run = Len(runs) + 1
        /\ q.kind = req[r].kind /\ q.result = req[r].result /\ q.user = req[r].user
        /\ q.guest = req[r].guest /\ q.ps = req[r].ps /\ q.auth = req[r].auth
        /\ q.round = req[r].round /\ q.status = req[r].status
    BY <1>2, <1>7 DEF ReqOK, Fields, FieldNames
  <2>2. Fields(q, Len(players), Len(auths), Len(runs'))
    BY <1>2, <1>3, <2>1 DEF ReqOK, Fields, Steps
  <2>3. Carries(q) /\ Credits(q, runs')
    BY <1>2, <2>1 DEF Carries, Credits, WithPlayer, WithRun, WithUser
  <2> QED BY <2>2, <2>3 DEF ReqOK
<1>10. ReqOK(q, Len(players'), Len(auths'), runs') /\ Bounds'
  BY <1>1, <1>9 DEF IInv, Bounds
<1> QED BY <1>1, <1>4, <1>5, <1>6, <1>8, <1>10, ServerStep

\* A request leaves its run in another state of the same user, and answers.
LEMMA AnswersHolds ==
  ASSUME IInv, NEW r \in Requests, NEW i \in 1..Len(runs), NEW run \in RunType(Len(players)),
         run.user = runs[i].user, Writes(runs, runs', i, run), Reply(r, i, run),
         UNCHANGED <<jar, players, auths, daily, pageVars, calls, faults>>,
         \/ scores' = scores
         \/ \E u \in {None, run.user} : scores' = scores \union {[run |-> i, user |-> u]}
  PROVE  IInv'
<1>1. /\ runs' \in Seq(RunType(Len(players))) /\ Len(runs') = Len(runs) /\ Kept
      /\ \A j \in 1..Len(runs) : runs'[j].user = runs[j].user
  BY RunWritten DEF identityVars
<1>2. run.user \in Owners /\ run.status \in Statuses /\ run.round \in 0..Rounds
  BY DEF RunType
<1>3. \A s \in scores' :
        /\ s \in [run : 1..Len(runs), user : Owners]
        /\ s.user # None => s.user = runs'[s.run].user
  <2>1. ASSUME NEW s \in scores
        PROVE  /\ s \in [run : 1..Len(runs), user : Owners]
               /\ s.user # None => s.user = runs'[s.run].user
    BY <1>1, ScoresStay DEF IInv, Tables
  <2>2. ASSUME NEW u \in {None, run.user}, NEW s, s = [run |-> i, user |-> u]
        PROVE  /\ s \in [run : 1..Len(runs), user : Owners]
               /\ s.user # None => s.user = runs'[s.run].user
    BY <1>1, <1>2, <2>2 DEF Owners
  <2> QED BY <2>1, <2>2
<1>4. Tables'
  BY <1>1, <1>3 DEF IInv, Tables
<1>5. ScoresFollowRuns' /\ Bounds' /\ "ok" \in Results /\ i \in 0..Len(runs)
  BY <1>3, Typed DEF ScoresFollowRuns, IInv, Bounds, Results
<1> QED BY <1>1, <1>2, <1>4, <1>5, EndsHolds DEF Reply

LEMMA ActivateHolds ==
  ASSUME IInv, NEW r \in Requests, Activate(r), UNCHANGED pageVars PROVE IInv'
<1>1. PICK i \in 1..Len(runs) : i = req[r].run
  <2>1. req[r].step = "activate"
    BY DEF Activate, At
  <2> QED BY <2>1, Typed DEF ReqOK, Fields, Carries, WithRun
<1>2. PICK run : run = [runs[i] EXCEPT !.status = "ACTIVE", !.round = 1]
  OBVIOUS
<1>3. run \in RunType(Len(players)) /\ run.user = runs[i].user
  <2>1. runs[i] \in RunType(Len(players))
    BY DEF IInv, Tables
  <2>2. 1 \in 0..Rounds
    BY PlayerAssumption
  <2> QED BY <1>2, <2>1, <2>2 DEF RunType, Statuses
<1>4. Writes(runs, runs', i, run) /\ Reply(r, i, run)
  BY <1>1, <1>2 DEF Activate, Writes
<1>5. UNCHANGED <<jar, players, auths, daily, scores, calls, faults>>
  BY DEF Activate, identityVars
<1> QED BY <1>3, <1>4, <1>5, AnswersHolds

LEMMA DeniedHolds ==
  ASSUME IInv, NEW r \in Requests, Denied(r), UNCHANGED pageVars PROVE IInv'
<1>1. Refuse(r, "denied") /\ UNCHANGED <<jar, calls, faults>> /\ UNCHANGED serverVars
  BY DEF Denied
<1>2. Bounds' /\ "denied" \in Results
  BY <1>1 DEF IInv, Bounds, Results
<1> QED BY <1>1, <1>2, SameTables, RefuseHolds

\* The states of a run that Get, Skip, Finish and Credit leave.
LEMMA RunStates ==
  ASSUME IInv, NEW i \in 1..Len(runs), NEW run,
         \/ run = runs[i]
         \/ run = [runs[i] EXCEPT !.status = "COMPLETED"]
         \/ run = Advanced(runs[i])
  PROVE  run \in RunType(Len(players)) /\ run.user = runs[i].user
<1>1. runs[i] \in RunType(Len(players))
  BY DEF IInv, Tables
<1>2. CASE run = runs[i]
  BY <1>1, <1>2
<1>3. CASE run = [runs[i] EXCEPT !.status = "COMPLETED"]
  BY <1>1, <1>3 DEF RunType, Statuses
<1>4. CASE run = Advanced(runs[i])
  <2>1. CASE runs[i].round < Rounds
    <3>1. run = [runs[i] EXCEPT !.round = runs[i].round + 1]
      BY <1>4, <2>1 DEF Advanced
    <3>2. runs[i].round + 1 \in 0..Rounds
      BY <1>1, <2>1, PlayerAssumption DEF RunType
    <3> QED BY <1>1, <3>1, <3>2 DEF RunType
  <2>2. CASE ~(runs[i].round < Rounds)
    <3>1. run = [runs[i] EXCEPT !.status = "COMPLETED"]
      BY <1>4, <2>2 DEF Advanced
    <3> QED BY <1>3, <3>1
  <2> QED BY <2>1, <2>2
<1> QED BY <1>2, <1>3, <1>4

LEMMA WorkHolds ==
  ASSUME IInv, NEW r \in Requests, Get(r) \/ Skip(r) \/ Finish(r) \/ Wrong(r),
         UNCHANGED pageVars
  PROVE  IInv'
<1>1. req[r].run # 0
  BY DEF Get, Skip, Finish, Wrong, Works, May
<1>2. PICK i \in 1..Len(runs) : i = req[r].run
  BY <1>1, Typed DEF ReqOK, Fields
<1>3. PICK run : /\ Answers(r, run)
                 /\ \/ run = runs[i]
                    \/ run = [runs[i] EXCEPT !.status = "COMPLETED"]
                    \/ run = Advanced(runs[i])
  BY <1>2 DEF Get, Skip, Finish, Wrong
<1>4. run \in RunType(Len(players)) /\ run.user = runs[i].user
  BY <1>3, RunStates
<1>5. /\ Writes(runs, runs', i, run) /\ Reply(r, i, run)
      /\ UNCHANGED <<jar, players, auths, daily, scores, calls, faults>>
  BY <1>2, <1>3 DEF Answers, Writes, identityVars
<1> QED BY <1>4, <1>5, AnswersHolds

\* The request takes the user of the run it loaded.
LEMMA RightHolds ==
  ASSUME IInv, NEW r \in Requests, Right(r), UNCHANGED pageVars PROVE IInv'
<1>1. /\ req[r].run # 0 /\ UNCHANGED <<jar, calls, faults>> /\ UNCHANGED serverVars
      /\ req' = [req EXCEPT ![r].step = "credit", ![r].user = runs[req[r].run].user]
  BY DEF Right, Works, May
<1>2. PICK i \in 1..Len(runs) : i = req[r].run
  BY <1>1, Typed DEF ReqOK, Fields
<1>3. PICK u : u = runs[i].user
  OBVIOUS
<1>4. u \in Owners
  <2>1. runs[i] \in RunType(Len(players))
    BY DEF IInv, Tables
  <2> QED BY <1>3, <2>1 DEF RunType
<1>5. PICK q : q = [req[r] EXCEPT !.step = "credit", !.user = u]
  OBVIOUS
<1>6. Writes(req, req', r, q)
  BY <1>1, <1>2, <1>3, <1>5 DEF Writes, IInv, Reqs
<1>7. ReqOK(q, Len(players), Len(auths), runs)
  <2>1. ReqOK(req[r], Len(players), Len(auths), runs)
    BY Typed
  <2>2. /\ DOMAIN q = DOMAIN req[r] /\ q.step = "credit" /\ q.user = u
        /\ q.kind = req[r].kind /\ q.result = req[r].result /\ q.auth = req[r].auth
        /\ q.guest = req[r].guest /\ q.ps = req[r].ps /\ q.run = req[r].run
        /\ q.round = req[r].round /\ q.status = req[r].status
    BY <1>5, <2>1 DEF ReqOK, Fields, FieldNames
  <2>3. Fields(q, Len(players), Len(auths), Len(runs))
    BY <1>4, <2>1, <2>2 DEF ReqOK, Fields, Steps
  <2>4. Carries(q) /\ Credits(q, runs)
    BY <1>1, <1>2, <1>3, <2>2 DEF Carries, Credits, WithPlayer, WithRun, WithUser
  <2> QED BY <2>3, <2>4 DEF ReqOK
<1>8. Tables' /\ Kept /\ ScoresFollowRuns' /\ Bounds'
  BY <1>1, SameTables DEF IInv, Bounds
<1>9. ReqOK(q, Len(players'), Len(auths'), runs')
  BY <1>7, <1>8, OthersStay DEF IInv
<1> QED BY <1>1, <1>6, <1>8, <1>9, ServerStep

LEMMA CreditHolds ==
  ASSUME IInv, NEW r \in Requests, Credit(r), UNCHANGED pageVars PROVE IInv'
<1>1. req[r].step = "credit" /\ UNCHANGED <<jar, players, auths, daily, calls, faults>>
  BY DEF Credit, At, identityVars
<1>2. PICK i \in 1..Len(runs) : i = req[r].run
  BY <1>1, Typed DEF ReqOK, Fields, Carries, WithRun
<1>3. PICK u \in {None, runs[i].user} : u = req[r].user
  BY <1>1, <1>2, Typed DEF ReqOK, Credits
<1>4. PICK run : /\ run = runs[i] \/ run = Advanced(runs[i])
                 /\ Writes(runs, runs', i, run) /\ Reply(r, i, run)
                 /\ scores' = scores \union {[run |-> i, user |-> u]}
  BY <1>2, <1>3 DEF Credit, Writes
<1>5. run \in RunType(Len(players)) /\ run.user = runs[i].user
  BY <1>4, RunStates
<1> QED BY <1>1, <1>3, <1>4, <1>5, AnswersHolds

LEMMA FailsHolds ==
  ASSUME IInv, NEW r \in Requests, Fails(r), UNCHANGED pageVars PROVE IInv'
<1>1. /\ Refuse(r, "lost") /\ UNCHANGED <<jar, calls>> /\ UNCHANGED serverVars
      /\ faults < MaxFaults /\ faults' = faults + 1
  BY DEF Fails
<1>2. Bounds' /\ "lost" \in Results
  BY <1>1, PlayerAssumption DEF IInv, Bounds, Results
<1> QED BY <1>1, <1>2, SameTables, RefuseHolds

LEMMA HandleHolds ==
  ASSUME IInv, NEW r \in Requests, Handle(r), UNCHANGED pageVars PROVE IInv'
BY IdentifyHolds, LogoutHolds, LoginRefusedHolds, LinkPlayerHolds, ClaimRunsHolds,
   ClaimScoresHolds, IssueHolds,
   FindDailyHolds, InsertDailyHolds, FindRunHolds, InsertRunHolds, ActivateHolds,
   DeniedHolds, WorkHolds, RightHolds, CreditHolds DEF Handle

-----------------------------------------------------------------------------
(* The actions of PlayFlow.                                                *)

PageType(n) == [up : BOOLEAN, boot : BOOLEAN, run : 0..n, status : Statuses, round : 0..Rounds]

\* A step of the browser: the server's rows stay, one request is written.
LEMMA BrowserStep ==
  ASSUME IInv, UNCHANGED serverVars, NEW r \in Requests, NEW q, Writes(req, req', r, q),
         ReqOK(q, Len(players), Len(auths), runs), Bounds',
         Cookie(jar', Len(players), Len(auths)), page' \in PageType(Len(runs)),
         store' \in 0..Len(runs)
  PROVE  IInv'
<1>1. Tables' /\ Kept /\ ScoresFollowRuns' /\ UNCHANGED <<players, auths, runs>>
  BY SameTables DEF serverVars, identityVars, runVars
<1>2. ReqOK(q, Len(players'), Len(auths'), runs')
  BY <1>1
<1>3. Reqs'
  BY <1>1, <1>2, OneRequest DEF IInv
<1>4. Browser'
  BY <1>1 DEF Browser, PageType
<1> QED BY <1>1, <1>3, <1>4 DEF IInv

LEMMA SendsHolds ==
  ASSUME IInv, NEW kind \in Kinds, NEW tag, NEW user \in Owners, NEW run \in 0..Len(runs),
         NEW round \in 0..Rounds, kind = "login" => user \in Users,
         Sends(kind, tag, user, run, round), Bounds',
         UNCHANGED serverVars, UNCHANGED <<jar, page, store>>
  PROVE  IInv'
<1>1. PICK r \in Requests : req' = [req EXCEPT ![r] = Request(kind, tag, user, run, round)]
  BY DEF Sends, Vacant
<1>2. PICK q : q = Request(kind, tag, user, run, round)
  OBVIOUS
<1>3. Writes(req, req', r, q) /\ ReqOK(q, Len(players), Len(auths), runs)
  BY <1>1, <1>2, RequestOK DEF Writes
<1>4. Cookie(jar', Len(players), Len(auths))
  BY DEF IInv, Browser
<1>5. page' \in PageType(Len(runs)) /\ store' \in 0..Len(runs)
  BY DEF IInv, Browser, PageType
<1> QED BY <1>3, <1>4, <1>5, BrowserStep

LEMMA CallsHolds ==
  ASSUME IInv,
         \/ (\E u \in Users : Login(u)) \/ SignOut
         \/ Poll \/ Submit \/ SkipRound \/ FinishRun
  PROVE  IInv'
<1>1. /\ UNCHANGED serverVars /\ UNCHANGED <<jar, page, store>>
      /\ faults' = faults /\ (calls' = calls \/ (calls < MaxCalls /\ calls' = calls + 1))
  BY DEF Login, SignOut, Poll, Submit, SkipRound, FinishRun, Counted
<1>2. Bounds'
  BY <1>1, PlayerAssumption DEF IInv, Bounds
<1>3. /\ {"login", "logout", "get", "submit", "skip", "finish"} \subseteq Kinds
      /\ None \in Owners /\ Users \subseteq Owners /\ 0 \in 0..Rounds /\ 0 \in 0..Len(runs)
  BY Lengths, PlayerAssumption DEF IInv, Kinds, Owners
<1>4. page.run \in 0..Len(runs) /\ page.round \in 0..Rounds
  BY DEF IInv, Browser
<1>5. PICK pr \in 0..Len(runs), pn \in 0..Rounds : pr = page.run /\ pn = page.round
  BY <1>4
<1>6. CASE \E u \in Users : Login(u)
  <2>1. PICK u \in Users : Sends("login", "tab", u, 0, 0)
    BY <1>6 DEF Login
  <2> QED BY <1>1, <1>2, <1>3, <2>1, SendsHolds
<1>7. CASE SignOut
  <2>1. Sends("logout", "tab", None, 0, 0)
    BY <1>7 DEF SignOut
  <2> QED BY <1>1, <1>2, <1>3, <2>1, SendsHolds
<1>8. CASE Poll
  <2>1. Sends("get", "poll", None, pr, 0)
    BY <1>5, <1>8 DEF Poll
  <2> QED BY <1>1, <1>2, <1>3, <2>1, SendsHolds
<1>9. CASE Submit
  <2>1. Sends("submit", "page", None, pr, pn)
    BY <1>5, <1>9 DEF Submit
  <2> QED BY <1>1, <1>2, <1>3, <2>1, SendsHolds
<1>10. CASE SkipRound
  <2>1. Sends("skip", "page", None, pr, pn)
    BY <1>5, <1>10 DEF SkipRound
  <2> QED BY <1>1, <1>2, <1>3, <2>1, SendsHolds
<1>11. CASE FinishRun
  <2>1. Sends("finish", "page", None, pr, pn)
    BY <1>5, <1>11 DEF FinishRun
  <2> QED BY <1>1, <1>2, <1>3, <2>1, SendsHolds
<1> QED BY <1>6, <1>7, <1>8, <1>9, <1>10, <1>11

LEMMA MountHolds == ASSUME IInv, Mount PROVE IInv'
<1>1. PICK r \in Requests, q \in Requests :
        /\ r # q
        /\ req' = [req EXCEPT ![r] = BootCall, ![q] = Request("session", "tab", None, 0, 0)]
  BY DEF Mount
<1>2. /\ UNCHANGED serverVars /\ UNCHANGED <<jar, calls, faults, store>>
      /\ page' = [page EXCEPT !.boot = TRUE]
  BY DEF Mount
<1>3. PICK b, t : b = BootCall /\ t = Request("session", "tab", None, 0, 0)
  OBVIOUS
<1>4. /\ {"get", "create", "session"} \subseteq Kinds /\ None \in Owners
      /\ 0 \in 0..Rounds /\ 0 \in 0..Len(runs) /\ store \in 0..Len(runs)
  BY Lengths, PlayerAssumption DEF IInv, Kinds, Owners, Browser
<1>5. ReqOK(t, Len(players), Len(auths), runs)
  BY <1>3, <1>4, RequestOK
<1>6. ReqOK(b, Len(players), Len(auths), runs)
  <2>1. PICK i \in 0..Len(runs) : i = store
    BY <1>4
  <2>2. CASE store # 0
    BY <1>3, <1>4, <2>1, <2>2, RequestOK DEF BootCall
  <2>3. CASE store = 0
    BY <1>3, <1>4, <2>3, RequestOK DEF BootCall
  <2> QED BY <2>2, <2>3
<1>7. PICK f : Writes(req, f, r, b) /\ Writes(f, req', q, t)
  <2>1. Writes([req EXCEPT ![r] = b], req', q, t)
    BY <1>1, <1>3 DEF Writes
  <2> QED BY <2>1 DEF Writes
<1>8. Tables' /\ Kept /\ ScoresFollowRuns' /\ UNCHANGED <<players, auths, runs>>
  BY <1>2, SameTables DEF serverVars, identityVars, runVars
<1>9. Reqs'
  <2>1. /\ DOMAIN req' = Requests /\ req' = [s \in Requests |-> req'[s]]
        /\ req'[q] = t /\ req'[r] = b
        /\ \A s \in Requests : s # r /\ s # q => req'[s] = req[s]
    BY <1>1, <1>7 DEF Writes, IInv, Reqs
  <2>2. \A s \in Requests : ReqOK(req'[s], Len(players), Len(auths), runs)
    BY <1>5, <1>6, <2>1, Typed
  <2> QED BY <1>8, <2>1, <2>2 DEF Reqs
<1>10. Browser' /\ Bounds'
  BY <1>2, <1>8 DEF IInv, Browser, Bounds
<1> QED BY <1>8, <1>9, <1>10 DEF IInv

\* The browser takes cookies of rows that exist.
LEMMA ReceivedOK ==
  ASSUME IInv, NEW r \in Requests, Received(r)
  PROVE  Cookie(jar', Len(players), Len(auths))
<1>1. Cookie(jar, Len(players), Len(auths)) /\ ReqOK(req[r], Len(players), Len(auths), runs)
  BY Typed DEF IInv, Browser
<1>2. CASE req[r].result = "lost"
  BY <1>1, <1>2 DEF Received
<1>3. CASE req[r].result # "lost"
  <2>1. PICK g : g = IF req[r].fresh THEN req[r].ps ELSE jar.guest
    OBVIOUS
  <2>2. PICK a \in 0..Len(auths) : jar' = [guest |-> g, auth |-> a]
    BY <1>1, <1>3, <2>1, Lengths DEF IInv, Received, Cookies, Cookie, ReqOK, Fields
  <2>3. g \in 0..Len(players)
    BY <1>1, <2>1 DEF Cookie, ReqOK, Fields
  <2> QED BY <2>2, <2>3 DEF Cookie
<1> QED BY <1>2, <1>3

LEMMA FetchesOK ==
  ASSUME IInv, NEW r \in Requests, NEW kind \in {"get", "create"}, NEW tag,
         NEW run \in 0..Len(runs), Fetches(r, Request(kind, tag, None, run, 0)),
         Cookie(jar', Len(players), Len(auths))
  PROVE  \E q : Writes(req, req', r, q) /\ ReqOK(q, Len(players), Len(auths), runs)
<1>1. PICK q : q = [Request(kind, tag, None, run, 0) EXCEPT !.guest = jar'.guest,
                                                           !.auth = jar'.auth]
  OBVIOUS
<1>2. PICK g \in 0..Len(players), a \in 0..Len(auths) : g = jar'.guest /\ a = jar'.auth
  BY DEF Cookie
<1>3. kind \in Kinds \ {"login"}
  BY DEF Kinds
<1>4. ReqOK(q, Len(players), Len(auths), runs)
  BY <1>1, <1>2, <1>3, FetchOK
<1>5. Writes(req, req', r, q)
  BY <1>1 DEF Fetches, Writes
<1> QED BY <1>4, <1>5

LEMMA FreesOK ==
  ASSUME IInv, NEW r \in Requests, Frees(r)
  PROVE  \E q : Writes(req, req', r, q) /\ ReqOK(q, Len(players), Len(auths), runs)
BY FreeOK DEF Frees, Writes

LEMMA ShowsOK ==
  ASSUME IInv, NEW r \in Requests, NEW boot \in BOOLEAN, NEW stored \in 0..Len(runs),
         Shows(r, boot, stored)
  PROVE  page' \in PageType(Len(runs)) /\ store' \in 0..Len(runs)
<1>1. page \in PageType(Len(runs)) /\ 0 \in 0..Len(runs)
  BY Lengths DEF IInv, Browser, PageType
<1>2. req[r].run \in 0..Len(runs) /\ req[r].status \in Statuses /\ req[r].round \in 0..Rounds
  BY Typed DEF ReqOK, Fields
<1>3. CASE page.up
  <2>1. PICK u \in BOOLEAN : u = (req[r].status # "COMPLETED")
    OBVIOUS
  <2>2. page' = [up |-> u, boot |-> boot, run |-> req[r].run,
                 status |-> req[r].status, round |-> req[r].round]
    BY <1>3, <2>1 DEF Shows
  <2>3. page' \in PageType(Len(runs))
    BY <1>2, <2>2 DEF PageType
  <2>4. store' \in 0..Len(runs)
    BY <1>1, <1>3 DEF Shows
  <2> QED BY <2>3, <2>4
<1>4. CASE ~page.up
  BY <1>1, <1>4 DEF Shows, PageType
<1> QED BY <1>3, <1>4

LEMMA AnsweredHolds == ASSUME IInv, NEW r \in Requests, Answered(r) PROVE IInv'
<1>1. /\ UNCHANGED serverVars /\ UNCHANGED <<calls, faults>> /\ Received(r)
      /\ \/ BootAnswered(r) \/ PollAnswered(r) \/ RoundAnswered(r) \/ FinishAnswered(r)
         \/ TabAnswered(r)
  BY DEF Answered
<1>2. Bounds' /\ Cookie(jar', Len(players), Len(auths))
  BY <1>1, ReceivedOK DEF IInv, Bounds
<1>3. /\ page \in PageType(Len(runs)) /\ page.boot \in BOOLEAN /\ store \in 0..Len(runs)
      /\ 0 \in 0..Len(runs) /\ req[r].run \in 0..Len(runs)
  BY Lengths, Typed DEF IInv, Browser, PageType, ReqOK, Fields
<1>4. PICK i \in 0..Len(runs), b \in BOOLEAN, st \in 0..Len(runs) :
        i = req[r].run /\ b = page.boot /\ st = store
  BY <1>3
<1>5. page' \in PageType(Len(runs)) /\ store' \in 0..Len(runs)
  <2>1. CASE BootAnswered(r)
    <3>1. CASE Shows(r, FALSE, IF req[r].kind = "create" THEN req[r].run ELSE store)
      <4>1. PICK x \in 0..Len(runs) : x = IF req[r].kind = "create" THEN req[r].run ELSE store
        BY <1>3
      <4> QED BY <3>1, <4>1, ShowsOK
    <3>2. CASE page' = page \/ page' = [page EXCEPT !.boot = FALSE]
      <4>1. CASE store' = store
        BY <1>3, <3>2, <4>1 DEF PageType
      <4> QED BY <2>1, <3>1, <4>1 DEF BootAnswered
    <3> QED BY <2>1, <3>1, <3>2 DEF BootAnswered
  <2>2. CASE PollAnswered(r)
    <3>1. CASE Shows(r, b, st)
      BY <3>1, ShowsOK
    <3>2. CASE ~Shows(r, b, st)
      <4>1. /\ store' = IF req[r].run = store THEN 0 ELSE store
            /\ page' = [page EXCEPT !.boot = TRUE] \/ page' = page
        BY <1>4, <2>2, <3>2 DEF PollAnswered
      <4> QED BY <1>3, <4>1 DEF PageType
    <3> QED BY <3>1, <3>2
  <2>3. CASE RoundAnswered(r)
    <3>1. CASE Shows(r, b, st)
      BY <3>1, ShowsOK
    <3>2. CASE ~Shows(r, b, st)
      BY <1>3, <1>4, <2>3, <3>2 DEF RoundAnswered
    <3> QED BY <3>1, <3>2
  <2>4. CASE FinishAnswered(r)
    BY <1>3, <2>4 DEF FinishAnswered, PageType
  <2>5. CASE TabAnswered(r)
    BY <1>3, <2>5 DEF TabAnswered
  <2> QED BY <1>1, <2>1, <2>2, <2>3, <2>4, <2>5
<1>6. \E q : Writes(req, req', r, q) /\ ReqOK(q, Len(players), Len(auths), runs)
  <2>1. CASE Frees(r)
    BY <2>1, FreesOK
  <2>2. CASE \E k \in {"get", "create"}, t \in {"boot", "refresh"}, n \in 0..Len(runs) :
               Fetches(r, Request(k, t, None, n, 0))
    BY <1>2, <2>2, FetchesOK
  <2>3. CASE BootAnswered(r)
    BY <1>3, <2>1, <2>2, <2>3 DEF BootAnswered
  <2>4. CASE PollAnswered(r)
    <3>1. PICK n \in 0..Len(runs) : n = store'
      BY <1>5
    <3>2. CASE n # 0
      BY <2>1, <2>2, <2>4, <3>1, <3>2 DEF PollAnswered
    <3>3. CASE n = 0
      BY <1>3, <2>1, <2>2, <2>4, <3>1, <3>3 DEF PollAnswered
    <3> QED BY <3>2, <3>3
  <2>5. CASE RoundAnswered(r)
    BY <1>4, <2>1, <2>2, <2>5 DEF RoundAnswered, Refetches
  <2>6. CASE FinishAnswered(r) \/ TabAnswered(r)
    BY <2>1, <2>6 DEF FinishAnswered, TabAnswered
  <2> QED BY <1>1, <2>3, <2>4, <2>5, <2>6
<1>7. PICK q : Writes(req, req', r, q) /\ ReqOK(q, Len(players), Len(auths), runs)
  BY <1>6
<1> QED BY <1>1, <1>2, <1>5, <1>7, BrowserStep

-----------------------------------------------------------------------------
LEMMA InitHolds == PageInit => IInv
<1> SUFFICES ASSUME Init, PageInit PROVE IInv
  BY DEF PageInit
<1>1. players = <<>> /\ auths = <<>> /\ runs = <<>> /\ daily = FALSE /\ scores = {}
  BY DEF Init
<1>2. Tables /\ ScoresFollowRuns /\ Len(players) = 0 /\ Len(auths) = 0 /\ Len(runs) = 0
  <2>1. /\ <<>> \in Seq(Owners) /\ Len(<<>>) = 0
        /\ <<>> \in Seq(AuthType(Len(players))) /\ <<>> \in Seq(RunType(Len(players)))
    OBVIOUS
  <2>2. Tables
    BY <1>1, <2>1 DEF Tables
  <2>3. ScoresFollowRuns
    BY <1>1 DEF ScoresFollowRuns
  <2> QED BY <1>1, <2>1, <2>2, <2>3
<1>3. Browser
  BY <1>2, PlayerAssumption DEF Init, PageInit, Browser, Cookie, Statuses
<1>4. ReqOK(Free, Len(players), Len(auths), runs)
  <2>1. /\ DOMAIN Free = FieldNames /\ Free.step = "none" /\ Free.kind = "get"
        /\ Free.user = None /\ Free.run = 0 /\ Free.round = 0 /\ Free.guest = 0
        /\ Free.auth = 0 /\ Free.ps = 0 /\ Free.status = "PENDING" /\ Free.result = "ok"
    BY DEF Free, FieldNames
  <2>2. Fields(Free, Len(players), Len(auths), Len(runs))
    BY <1>2, <2>1, PlayerAssumption DEF Fields, Kinds, Steps, Statuses, Results, Owners
  <2>3. Carries(Free) /\ Credits(Free, runs)
    BY <2>1 DEF Carries, Credits, WithPlayer, WithRun, WithUser
  <2> QED BY <2>2, <2>3 DEF ReqOK
<1>5. Reqs
  BY <1>4 DEF Init, Reqs
<1>6. Bounds
  BY PlayerAssumption DEF Init, Bounds
<1> QED BY <1>2, <1>3, <1>5, <1>6 DEF IInv

LEMMA NextHolds == IInv /\ [Next]_vars => IInv'
<1> SUFFICES ASSUME IInv, [Next]_vars PROVE IInv'
  OBVIOUS
<1>1. ASSUME NEW r \in Requests, Serve(r) PROVE IInv'
  BY <1>1, HandleHolds DEF Serve
<1>2. ASSUME NEW r \in Requests, Lost(r) PROVE IInv'
  BY <1>2, FailsHolds DEF Lost
<1>3. CASE UNCHANGED vars
  <2>1. UNCHANGED serverVars /\ UNCHANGED <<jar, req, calls, faults, page, store>>
    BY <1>3 DEF vars, runsVars, pageVars
  <2>2. Tables' /\ ScoresFollowRuns' /\ UNCHANGED <<players, auths, runs>>
    BY <2>1, SameTables DEF serverVars, identityVars, runVars
  <2> QED BY <2>1, <2>2 DEF IInv, Browser, Reqs, Bounds
<1> QED BY <1>1, <1>2, <1>3, AnsweredHolds, MountHolds, CallsHolds DEF Next

LEMMA InvariantHolds == Spec => []IInv
BY InitHolds, NextHolds, PTL DEF Spec

-----------------------------------------------------------------------------
\* promoteGuestHistory and acceptResolvedSubmission, whatever is between their
\* writes: a score never belongs to another user than its run.
THEOREM ScoresFollow == Spec => []ScoresFollowRuns
<1>1. IInv => ScoresFollowRuns
  BY DEF IInv
<1> QED BY <1>1, InvariantHolds, PTL

\* Cookies, rows, requests and the page name only rows that exist (auth.ts,
\* game-service.ts, play-client.tsx).
THEOREM TypeCorrect == Spec => []PageTypeOK
<1>1. IInv => PageTypeOK
  <2> SUFFICES ASSUME IInv PROVE PageTypeOK
    OBVIOUS
  <2>1. \A r \in Requests :
          /\ req[r].kind \in Kinds /\ req[r].step \in Steps
          /\ req[r].user \in Users \union {None}
          /\ req[r].ps \in 0..Len(players) /\ req[r].run \in 0..Len(runs)
          /\ req[r].result \in {"ok", "denied", "failed", "lost"}
    BY Typed DEF ReqOK, Fields, Owners, Results
  <2>2. DOMAIN runs = 1..Len(runs)
    BY Lengths DEF IInv
  <2>3. TypeOK
    BY <2>1, <2>2 DEF IInv, Tables, Browser, Cookie, Bounds, TypeOK, Owners, AuthType, RunType
  <2> QED BY <2>3 DEF IInv, Browser, PageTypeOK
<1> QED BY <1>1, InvariantHolds, PTL
=============================================================================
