----------------------------- MODULE SessionPlay -----------------------------
(***************************************************************************)
(* One solo game session as the API and the render worker play it: answers *)
(* are submitted, judged at once or by a queued job, credited, and the     *)
(* session moves from round to round until it is over.                     *)
(*                                                                         *)
(* No handler uses a transaction: each awaited query stands alone, and     *)
(* between two of them other requests and jobs run.  A request is a slot   *)
(* of Requests and a job under way a slot of Workers; each of their steps  *)
(* is one query that changes state, with the reads that nothing can come   *)
(* between to any effect.                                                  *)
(*                                                                         *)
(* Abstracted: sources and the checker (any verdict), the points of an     *)
(* answer (every credit counts one), challenge ids (the list is its        *)
(* length), the 10 s window in which an equal source is answered from the  *)
(* earlier submission (such a request only moves the session on: Poll).    *)
(***************************************************************************)
EXTENDS Integers, FiniteSets, Sequences

CONSTANTS
  Requests,     \* concurrent request slots of the API processes
  Workers,      \* jobs the worker runs at a time
  Mode,         \* GameSession.mode: "PRACTICE" or "DAILY"
  ListLength,   \* challenges the session starts with
  CycleLength,  \* challenges a practice session is extended by
  MaxCalls,     \* bound: submissions and skips
  MaxStalls,    \* bound: jobs the queue hands out a second time
  MaxCrashes    \* bound: requests and jobs that die half way

ASSUME SessionAssumption ==
  /\ IsFiniteSet(Requests) /\ IsFiniteSet(Workers)
  /\ Mode \in {"PRACTICE", "DAILY"}
  /\ ListLength \in Nat \ {0}
  /\ CycleLength \in Nat \ {0}
  /\ MaxCalls \in Nat /\ MaxStalls \in Nat /\ MaxCrashes \in Nat

VARIABLES
  status,     \* GameSession.status
  expired,    \* startedAt + timeLimitMs has passed
  listed,     \* length of metadata.challengeIds
  rounds,     \* GameRound rows by position
  attempted,  \* GameSession.promptsAttempted
  solved,     \* GameSession.promptsCorrect, and totalScore in units
  records,    \* ScoreRecord rows: the position of the round each is for
  subs,       \* Submission rows in order of creation
  queue,      \* render-check jobs waiting, by submission
  req,        \* what every request slot is doing
  work,       \* what every worker slot is doing
  calls, stalls, crashes   \* how much of each bound is used

sessionVars == <<status, expired, listed, rounds>>
scoreVars   == <<attempted, solved, records>>
answerVars  == <<subs, queue>>
bounds      == <<calls, stalls, crashes>>
vars == <<sessionVars, scoreVars, answerVars, req, work, bounds>>

Open == [done |-> FALSE, verdict |-> "none", scored |-> FALSE]

Attempts(n) == Cardinality({s \in DOMAIN subs : subs[s].round = n})

-----------------------------------------------------------------------------
(* Request slots.                                                          *)

Idle ==
  [step |-> "idle", round |-> 0, sub |-> 0, static |-> FALSE,
   seen |-> 0, list |-> 0, skip |-> FALSE, todo |-> 0]

At(r, step) == req[r].step = step

Become(r, slot) == req' = [req EXCEPT ![r] = slot]
Goto(r, step) == req' = [req EXCEPT ![r].step = step]

\* n calls of ensureSessionProgression are left to make.
Progressing(n) == IF n = 0 THEN Idle ELSE [Idle EXCEPT !.step = "expiry", !.todo = n]

\* getGameSessionState of a page that shows the session, or a submission that
\* repeats an earlier one or finds the session over.
Poll(r) ==
  /\ At(r, "idle")
  /\ Become(r, Progressing(1))
  /\ UNCHANGED <<sessionVars, scoreVars, answerVars, work, bounds>>

\* submitAttempt loads round and session; later steps do not look at status again.
SubmitLoad(r, n) ==
  /\ At(r, "idle")
  /\ status = "ACTIVE"
  /\ calls < MaxCalls
  /\ calls' = calls + 1
  /\ Become(r, [Idle EXCEPT !.step = "create", !.round = n, !.seen = Attempts(n)])
  /\ UNCHANGED <<sessionVars, scoreVars, answerVars, work, stalls, crashes>>

\* The row is written with what the static check says of it.
Create(r) ==
  /\ At(r, "create")
  /\ \E correct \in BOOLEAN :
       /\ subs' = Append(subs, [round |-> req[r].round, judged |-> FALSE,
                                verdict |-> IF correct THEN "CORRECT" ELSE "INCORRECT"])
       /\ Become(r, [req[r] EXCEPT !.step = IF correct THEN "resolve" ELSE "attempt",
                                   !.static = correct, !.sub = Len(subs) + 1])
  /\ UNCHANGED <<sessionVars, scoreVars, queue, work, bounds>>

\* Another submission to the round came in between the count and the create:
\* @@unique([gameRoundId, attemptNumber]) refuses this one.
CreateClash(r) ==
  /\ At(r, "create")
  /\ Attempts(req[r].round) > req[r].seen
  /\ Become(r, Idle)
  /\ UNCHANGED <<sessionVars, scoreVars, answerVars, work, bounds>>

\* Mutant of CountAttempt: promptsAttempted is left alone.
CountNothing(r) ==
  /\ At(r, "attempt")
  /\ Goto(r, "direct")
  /\ UNCHANGED <<sessionVars, scoreVars, answerVars, work, bounds>>

CountAttempt(r) ==
  /\ At(r, "attempt")
  /\ attempted' = attempted + 1
  /\ Goto(r, "direct")
  /\ UNCHANGED <<sessionVars, solved, records, answerVars, work, bounds>>

Judgements ==
  {[verdict |-> "CORRECT", judged |-> TRUE], [verdict |-> "INCORRECT", judged |-> TRUE],
   [verdict |-> "COMPILE_ERROR", judged |-> FALSE]}

JudgedAs(s, j) ==
  [subs EXCEPT ![s].verdict = j.verdict, ![s].judged = @ \/ j.judged]

\* attemptDirectRenderValidation gets an answer from the worker's preview.
DirectJudged(r) ==
  /\ At(r, "direct")
  /\ \E j \in Judgements :
       /\ subs' = JudgedAs(req[r].sub, j)
       /\ IF j.verdict = "CORRECT" THEN Goto(r, "resolve") ELSE Become(r, Idle)
  /\ UNCHANGED <<sessionVars, scoreVars, queue, work, bounds>>

\* Mutant of Enqueue: the job names the round instead of the submission.
EnqueueRound(r) ==
  /\ At(r, "direct")
  /\ queue' = Append(queue, req[r].round)
  /\ Goto(r, "wait")
  /\ UNCHANGED <<sessionVars, scoreVars, subs, work, bounds>>

\* It gets none: the answer is queued, and the request waits for the worker.
Enqueue(r) ==
  /\ At(r, "direct")
  /\ queue' = Append(queue, req[r].sub)
  /\ Goto(r, "wait")
  /\ UNCHANGED <<sessionVars, scoreVars, subs, work, bounds>>

\* waitForRenderVerdict sees a verdict.  The worker may not have come to the
\* round yet when it does.
WaitSees(r) ==
  LET s == subs[req[r].sub] IN
  /\ At(r, "wait")
  /\ s.verdict # "INCORRECT" \/ s.judged
  /\ Become(r, Progressing(IF s.verdict = "CORRECT" THEN 2 ELSE 1))
  /\ UNCHANGED <<sessionVars, scoreVars, answerVars, work, bounds>>

WaitTimesOut(r) ==
  /\ At(r, "wait")
  /\ Become(r, Idle)
  /\ UNCHANGED <<sessionVars, scoreVars, answerVars, work, bounds>>

\* acceptResolvedSubmission: the round, the session, the record, progression.
ResolveRound(r) ==
  /\ At(r, "resolve")
  /\ rounds' = [rounds EXCEPT ![req[r].round] =
                  [done |-> TRUE, verdict |-> "CORRECT", scored |-> TRUE]]
  /\ Goto(r, "credit")
  /\ UNCHANGED <<status, expired, listed, scoreVars, answerVars, work, bounds>>

CreditSession(r) ==
  /\ At(r, "credit")
  /\ solved' = solved + 1
  /\ attempted' = attempted + (IF req[r].static THEN 1 ELSE 0)
  /\ Goto(r, "record")
  /\ UNCHANGED <<sessionVars, records, answerVars, work, bounds>>

RecordScore(r) ==
  /\ At(r, "record")
  /\ records' = Append(records, req[r].round)
  /\ Become(r, Progressing(2))
  /\ UNCHANGED <<sessionVars, attempted, solved, answerVars, work, bounds>>

\* skipCurrentRound loads round and session, expires the session if it is
\* time, and goes on with the status it loaded before.
SkipLoad(r, n) ==
  /\ At(r, "idle")
  /\ status = "ACTIVE"
  /\ calls < MaxCalls
  /\ calls' = calls + 1
  /\ Become(r, [Progressing(1) EXCEPT !.round = n, !.skip = TRUE])
  /\ UNCHANGED <<sessionVars, scoreVars, answerVars, work, stalls, crashes>>

\* The update does not look at what the round is by now.
SkipRound(r) ==
  /\ At(r, "skip")
  /\ rounds' = [rounds EXCEPT ![req[r].round].done = TRUE,
                              ![req[r].round].verdict = "INCORRECT"]
  /\ Goto(r, "skipped")
  /\ UNCHANGED <<status, expired, listed, scoreVars, answerVars, work, bounds>>

CountSkip(r) ==
  /\ At(r, "skipped")
  /\ attempted' = attempted + 1
  /\ Become(r, Progressing(1))
  /\ UNCHANGED <<sessionVars, solved, records, answerVars, work, bounds>>

\* finishGameSession.
Finish(r) ==
  /\ At(r, "idle")
  /\ status' = "COMPLETED"
  /\ UNCHANGED <<expired, listed, rounds, scoreVars, answerVars, req, work, bounds>>

-----------------------------------------------------------------------------
(* ensureSessionProgression: expire the session, then open the next round. *)

AfterExpiry(r) == IF req[r].skip THEN "skip" ELSE "look"

NotYetExpired(r) ==
  /\ At(r, "expiry")
  /\ ~(status = "ACTIVE" /\ expired)
  /\ Goto(r, AfterExpiry(r))
  /\ UNCHANGED <<sessionVars, scoreVars, answerVars, work, bounds>>

\* Mutant of ExpireSession: the time limit is not looked at.
ExpireNothing(r) ==
  /\ At(r, "expiry")
  /\ status = "ACTIVE" /\ expired
  /\ Goto(r, AfterExpiry(r))
  /\ UNCHANGED <<sessionVars, scoreVars, answerVars, work, bounds>>

\* expireSessionIfNeeded completes the session; nothing ever makes it active
\* again, so load and update may be taken as one.
ExpireSession(r) ==
  /\ At(r, "expiry")
  /\ status = "ACTIVE" /\ expired
  /\ status' = "COMPLETED"
  /\ Goto(r, AfterExpiry(r))
  /\ UNCHANGED <<expired, listed, rounds, scoreVars, answerVars, work, bounds>>

LastDone == rounds[Len(rounds)].done

\* What ensureSessionProgression does with the session and its latest round.
LookWith(r, mayMoveOn) ==
  /\ At(r, "look")
  /\ Become(r, IF ~(status = "ACTIVE" /\ mayMoveOn)
               THEN Progressing(req[r].todo - 1)
               ELSE [req[r] EXCEPT
                       !.seen = Len(rounds), !.list = listed,
                       !.step = IF Len(rounds) < listed THEN "insert"
                                ELSE IF Mode = "PRACTICE" THEN "extend" ELSE "complete"])
  /\ UNCHANGED <<sessionVars, scoreVars, answerVars, work, bounds>>

\* Mutants of Look: the latest round need not be resolved; it never is.
LookAnyRound(r) == LookWith(r, TRUE)
LookNoRound(r)  == LookWith(r, FALSE)

Look(r) == LookWith(r, LastDone)

\* extendPracticeChallengeIds writes the list it was given and one more cycle,
\* over whatever list is there by now.
Extend(r) ==
  LET longer == req[r].list + CycleLength IN
  /\ At(r, "extend")
  /\ listed' = longer
  /\ Become(r, [req[r] EXCEPT !.list = longer,
                              !.step = IF req[r].seen < longer THEN "insert" ELSE "complete"])
  /\ UNCHANGED <<status, expired, rounds, scoreVars, answerVars, work, bounds>>

CompleteSession(r) ==
  /\ At(r, "complete")
  /\ status' = "COMPLETED"
  /\ Become(r, Progressing(req[r].todo - 1))
  /\ UNCHANGED <<expired, listed, rounds, scoreVars, answerVars, work, bounds>>

\* ensureRoundExists: the round is made unless it is there already.  If it
\* came there between the find and the create, the unique index on
\* (gameSessionId, position) refuses it and the request ends.
InsertRound(r) ==
  /\ At(r, "insert")
  /\ \/ /\ Len(rounds) = req[r].seen
        /\ rounds' = Append(rounds, Open)
        /\ Become(r, Progressing(req[r].todo - 1))
     \/ /\ Len(rounds) > req[r].seen
        /\ \E left \in {0, req[r].todo - 1} : Become(r, Progressing(left))
        /\ UNCHANGED rounds
  /\ UNCHANGED <<status, expired, listed, scoreVars, answerVars, work, bounds>>

\* The process dies; what it has written stays, the rest is lost.
Crash(r) ==
  /\ ~At(r, "idle")
  /\ crashes < MaxCrashes
  /\ crashes' = crashes + 1
  /\ Become(r, Idle)
  /\ UNCHANGED <<sessionVars, scoreVars, answerVars, work, calls, stalls>>

-----------------------------------------------------------------------------
(* handleRenderCheckJob.                                                   *)

Resting == [step |-> "idle", sub |-> 0]

WorksAt(w, step) == work[w].step = step

Advance(w, step) == work' = [work EXCEPT ![w].step = step]

JobRound(w) == subs[work[w].sub].round

\* The queue hands a job out; its source is compiled.
TakeJob(w) ==
  /\ WorksAt(w, "idle")
  /\ queue # <<>>
  /\ queue' = Tail(queue)
  /\ work' = [work EXCEPT ![w] = [step |-> "judge", sub |-> Head(queue)]]
  /\ UNCHANGED <<sessionVars, scoreVars, subs, req, bounds>>

\* The pictures are compared, and the submission is updated.
JudgeJob(w) ==
  /\ WorksAt(w, "judge")
  /\ \E j \in Judgements :
       /\ subs' = JudgedAs(work[w].sub, j)
       /\ work' = [work EXCEPT ![w] = IF j.verdict = "CORRECT"
                                      THEN [@ EXCEPT !.step = "resolve"] ELSE Resting]
  /\ UNCHANGED <<sessionVars, scoreVars, queue, req, bounds>>

ResolveJob(w) ==
  /\ WorksAt(w, "resolve")
  /\ rounds' = [rounds EXCEPT ![JobRound(w)].done = TRUE,
                              ![JobRound(w)].verdict = "CORRECT"]
  /\ Advance(w, "credit")
  /\ UNCHANGED <<status, expired, listed, scoreVars, answerVars, req, bounds>>

CreditJob(w) ==
  /\ WorksAt(w, "credit")
  /\ solved' = solved + 1
  /\ Advance(w, "score")
  /\ UNCHANGED <<sessionVars, attempted, records, answerVars, req, bounds>>

\* Mutant of ScoreJob: scoreAwarded is not written to the round.
ScoreNoRound(w) ==
  /\ WorksAt(w, "score")
  /\ Advance(w, "record")
  /\ UNCHANGED <<sessionVars, scoreVars, answerVars, req, bounds>>

ScoreJob(w) ==
  /\ WorksAt(w, "score")
  /\ rounds' = [rounds EXCEPT ![JobRound(w)].scored = TRUE]
  /\ Advance(w, "record")
  /\ UNCHANGED <<status, expired, listed, scoreVars, answerVars, req, bounds>>

\* Mutant of RecordJob: the score record is forgotten.
RecordNoJob(w) ==
  /\ WorksAt(w, "record")
  /\ work' = [work EXCEPT ![w] = Resting]
  /\ UNCHANGED <<sessionVars, scoreVars, answerVars, req, bounds>>

RecordJob(w) ==
  /\ WorksAt(w, "record")
  /\ records' = Append(records, JobRound(w))
  /\ work' = [work EXCEPT ![w] = Resting]
  /\ UNCHANGED <<sessionVars, attempted, solved, answerVars, req, bounds>>

\* The worker process dies: the queue finds the job stalled and hands it out
\* again, to run from its beginning.
Stall(w) ==
  /\ ~WorksAt(w, "idle")
  /\ stalls < MaxStalls
  /\ stalls' = stalls + 1
  /\ queue' = Append(queue, work[w].sub)
  /\ work' = [work EXCEPT ![w] = Resting]
  /\ UNCHANGED <<sessionVars, scoreVars, subs, req, calls, crashes>>

\* The compilation or a query of the job fails: jobs are added with one attempt,
\* so it is given up.
FailJob(w) ==
  /\ ~WorksAt(w, "idle")
  /\ crashes < MaxCrashes
  /\ crashes' = crashes + 1
  /\ work' = [work EXCEPT ![w] = Resting]
  /\ UNCHANGED <<sessionVars, scoreVars, answerVars, req, calls, stalls>>

TimePasses ==
  /\ ~expired
  /\ expired' = TRUE
  /\ UNCHANGED <<status, listed, rounds, scoreVars, answerVars, req, work, bounds>>

-----------------------------------------------------------------------------
\* createGameSession has made the session and activateSession its first round.
Init ==
  /\ status = "ACTIVE" /\ expired = FALSE
  /\ listed = ListLength
  /\ rounds = <<Open>>
  /\ attempted = 0 /\ solved = 0 /\ records = <<>>
  /\ subs = <<>> /\ queue = <<>>
  /\ req = [r \in Requests |-> Idle]
  /\ work = [w \in Workers |-> Resting]
  /\ calls = 0 /\ stalls = 0 /\ crashes = 0

ClientCall(r) ==
  \/ \E n \in DOMAIN rounds : SubmitLoad(r, n) \/ SkipLoad(r, n)
  \/ Finish(r)

\* What a request does on its own once it is under way.
Proceed(r) ==
  \/ Create(r)       \/ CreateClash(r)   \/ CountAttempt(r)    \/ DirectJudged(r)
  \/ Enqueue(r)      \/ WaitSees(r)      \/ WaitTimesOut(r)    \/ ResolveRound(r)
  \/ CreditSession(r) \/ RecordScore(r)  \/ SkipRound(r)       \/ CountSkip(r)
  \/ NotYetExpired(r) \/ ExpireSession(r) \/ Look(r)           \/ Extend(r)
  \/ CompleteSession(r) \/ InsertRound(r)

WorkOn(w) ==
  \/ TakeJob(w)   \/ JudgeJob(w) \/ ResolveJob(w)
  \/ CreditJob(w) \/ ScoreJob(w) \/ RecordJob(w)

Next ==
  \/ \E r \in Requests : ClientCall(r) \/ Poll(r) \/ Proceed(r) \/ Crash(r)
  \/ \E w \in Workers : WorkOn(w) \/ Stall(w) \/ FailJob(w)
  \/ TimePasses

Spec == Init /\ [][Next]_vars

\* Requests and jobs under way run on, and the page that shows the session
\* polls it every 1.5 s while it is active.  That time runs out is not relied
\* on: what must happen has to happen in a session with time to spare too.
Fairness ==
  /\ \A r \in Requests : WF_vars(Proceed(r))
  /\ \A w \in Workers : WF_vars(WorkOn(w))
  /\ WF_vars(\E r \in Requests : Poll(r))

FairSpec == Spec /\ Fairness

-----------------------------------------------------------------------------
(* What holds of the session.                                              *)

RoundType ==
  [done : BOOLEAN, verdict : {"none", "CORRECT", "INCORRECT"}, scored : BOOLEAN]

AnswerType ==
  [round : Nat \ {0}, verdict : {"CORRECT", "INCORRECT", "COMPILE_ERROR"}, judged : BOOLEAN]

AnswerSteps   == {"create", "attempt", "direct", "wait", "resolve", "credit", "record"}
SkipSteps     == {"skip", "skipped"}
ProgressSteps == {"expiry", "look", "extend", "complete", "insert"}
JobSteps      == {"idle", "judge", "resolve", "credit", "score", "record"}

RequestType ==
  [step : {"idle"} \union AnswerSteps \union SkipSteps \union ProgressSteps,
   round : Nat, sub : Nat, static : BOOLEAN, seen : Nat, list : Nat,
   skip : BOOLEAN, todo : 0 .. 2]

\* Types, and every id kept somewhere is the id of a row that exists.
TypeOK ==
  /\ status \in {"ACTIVE", "COMPLETED"} /\ expired \in BOOLEAN
  /\ listed \in Nat \ {0}
  /\ rounds \in Seq(RoundType) /\ rounds # <<>>
  /\ attempted \in Nat /\ solved \in Nat
  /\ records \in Seq(DOMAIN rounds)
  /\ subs \in Seq(AnswerType) /\ queue \in Seq(DOMAIN subs)
  /\ \A s \in DOMAIN subs : subs[s].round \in DOMAIN rounds
  /\ req \in [Requests -> RequestType]
  /\ \A r \in Requests :
       /\ req[r].step \in AnswerSteps \union SkipSteps => req[r].round \in DOMAIN rounds
       /\ req[r].step \in AnswerSteps \ {"create"} => req[r].sub \in DOMAIN subs
  /\ work \in [Workers -> [step : JobSteps, sub : Nat]]
  /\ \A w \in Workers : work[w].step # "idle" => work[w].sub \in DOMAIN subs
  /\ calls \in Nat /\ stalls \in Nat /\ crashes \in Nat

\* However many answers, skips and polls move the session on at once, no round
\* is passed over: every round but the last is resolved.
OnlyLastOpen == \A n \in DOMAIN rounds : n < Len(rounds) => rounds[n].done

\* Slots that are at one of these steps of crediting an answer.
Pending(steps) ==
  Cardinality({r \in Requests : req[r].step \in steps})
  + Cardinality({w \in Workers : work[w].step \in steps})

\* No answer is credited that was not counted as an attempt first, also in the
\* middle of requests, and a job that is handed out again credits at most one
\* more: accuracy exceeds one by no more than what stalled jobs repeat.
AttemptsCoverSolves ==
  solved + Cardinality({r \in Requests : At(r, "credit") /\ ~req[r].static})
    <= attempted + stalls

\* Correct submissions, credits and score records balance, up to what is under
\* way, whether the API or the worker judged and whoever stopped waiting: they
\* are equal while nothing dies; each job that is handed out again credits at
\* most once too often, and each death costs at most one credit or one record,
\* wherever between the writes it strikes.
EveryAnswerCounts ==
  LET correct  == Cardinality({s \in DOMAIN subs : subs[s].verdict = "CORRECT"})
      credits  == solved + Pending({"resolve", "credit"})
      recorded == Len(records) + Pending({"score", "record"})
  IN  /\ credits <= correct + stalls
      /\ correct <= credits + stalls + crashes
      /\ recorded <= solved
      /\ solved <= recorded + stalls + crashes

\* A round has at most one score record.
CreditedOnce ==
  \A n \in DOMAIN rounds : Cardinality({i \in DOMAIN records : records[i] = n}) <= 1

\* A session whose time is over is ended by the polls of its page.
ExpiredEnds == expired ~> status = "COMPLETED"

\* A session does not stay on a resolved round, also when the request that
\* resolved it has died: the next round opens or the session ends.
MovesOn == LastDone ~> ~LastDone \/ status = "COMPLETED"

Unscored == {s \in DOMAIN subs : subs[s].verdict = "CORRECT" /\ ~rounds[subs[s].round].scored}

\* Correct answers end up in their rounds, also those nobody waits for any more;
\* what dies half way keeps at most one of them each from it.
CorrectIsScored == Unscored # {} ~> Cardinality(Unscored) <= crashes

=============================================================================
