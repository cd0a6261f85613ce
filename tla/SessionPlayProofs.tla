-------------------------- MODULE SessionPlayProofs --------------------------
(***************************************************************************)
(* Types, the order of rounds and the balance of credits of SessionPlay,   *)
(* for any number of requests, workers and calls.  Nothing locks here;     *)
(* what a request remembers stays usable because rows are only ever added  *)
(* and a resolved round stays resolved, and an answer is credited twice    *)
(* only after a job has stalled, because one place at a time judges it.    *)
(***************************************************************************)
EXTENDS SessionPlay, FiniteSetTheorems, TLAPS

Rows ==
  /\ status \in {"ACTIVE", "COMPLETED"} /\ expired \in BOOLEAN
  /\ listed \in Nat \ {0}
  /\ rounds \in Seq(RoundType) /\ rounds # <<>>
  /\ attempted \in Nat /\ solved \in Nat
  /\ records \in Seq(DOMAIN rounds)
  /\ subs \in Seq(AnswerType) /\ queue \in Seq(DOMAIN subs)
  /\ \A s \in DOMAIN subs : subs[s].round \in DOMAIN rounds
  /\ calls \in Nat /\ stalls \in Nat /\ crashes \in Nat

\* What a request may rely on at each of its steps, of rounds rs and answers ss.
SlotIn(q, rs, ss) ==
  /\ q.step \in AnswerSteps \union SkipSteps => q.round \in DOMAIN rs
  /\ q.step \in AnswerSteps \ {"create"} => q.sub \in DOMAIN ss
  /\ q.step \in ProgressSteps => q.todo # 0
  /\ q.step = "expiry" /\ q.skip => q.round \in DOMAIN rs
  /\ q.step \in {"extend", "insert"} => q.seen \in DOMAIN rs /\ rs[q.seen].done

SlotOK(q) == SlotIn(q, rounds, subs)

Slots == req \in [Requests -> RequestType] /\ \A r \in Requests : SlotOK(req[r])

JobIn(k, ss) == k.step # "idle" => k.sub \in DOMAIN ss

JobOK(k) == JobIn(k, subs)

Jobs ==
  /\ work \in [Workers -> [step : JobSteps, sub : Nat]]
  /\ \A w \in Workers : JobOK(work[w])

IInv == Rows /\ Slots /\ Jobs /\ OnlyLastOpen

\* Rows are only added, and a resolved round stays resolved.
Grows ==
  /\ DOMAIN rounds \subseteq DOMAIN rounds'
  /\ DOMAIN subs \subseteq DOMAIN subs'
  /\ \A n \in DOMAIN rounds : rounds[n].done => rounds'[n].done

-----------------------------------------------------------------------------
(* What survives the steps of others.                                      *)

\* A step of one request keeps the invariant if it keeps the tables and
\* leaves its own slot in order.
LEMMA RequestStep ==
  ASSUME IInv, NEW r \in Requests, NEW q \in RequestType, Become(r, q),
         UNCHANGED work, Rows', Grows, OnlyLastOpen', SlotIn(q, rounds', subs')
  PROVE  IInv'
<1>1. Slots'
  <2>1. req' \in [Requests -> RequestType]
    BY DEF IInv, Slots, Become
  <2>2. ASSUME NEW s \in Requests PROVE SlotOK(req[s])'
    <3>1. CASE s = r
      <4>1. req'[s] = q
        BY <3>1 DEF IInv, Slots, Become
      <4>2. QED
        BY <4>1 DEF SlotOK, SlotIn
    <3>2. CASE s # r
      <4>1. req'[s] = req[s]
        BY <3>2 DEF IInv, Slots, Become
      <4>2. SlotOK(req[s])
        BY DEF IInv, Slots
      <4>3. QED
        BY <4>1, <4>2 DEF Grows, SlotOK, SlotIn
    <3>3. QED
      BY <3>1, <3>2
  <2>3. QED
    BY <2>1, <2>2 DEF Slots
<1>2. Jobs'
  BY DEF IInv, Jobs, JobOK, JobIn, Grows
<1>3. QED
  BY <1>1, <1>2 DEF IInv

\* The same for a step of a worker.
LEMMA WorkerStep ==
  ASSUME IInv, NEW w \in Workers, NEW k \in [step : JobSteps, sub : Nat],
         work' = [work EXCEPT ![w] = k],
         UNCHANGED req, Rows', Grows, OnlyLastOpen', JobIn(k, subs')
  PROVE  IInv'
<1>1. Jobs'
  <2>1. work' \in [Workers -> [step : JobSteps, sub : Nat]]
    BY DEF IInv, Jobs
  <2>2. ASSUME NEW v \in Workers PROVE JobOK(work[v])'
    <3>1. CASE v = w
      <4>1. work'[v] = k
        BY <3>1 DEF IInv, Jobs
      <4>2. QED
        BY <4>1 DEF JobOK, JobIn
    <3>2. CASE v # w
      <4>1. work'[v] = work[v]
        BY <3>2 DEF IInv, Jobs
      <4>2. QED
        BY <4>1 DEF IInv, Jobs, JobOK, JobIn, Grows
    <3>3. QED
      BY <3>1, <3>2
  <2>3. QED
    BY <2>1, <2>2 DEF Jobs
<1>2. Slots'
  BY DEF IInv, Slots, SlotOK, SlotIn, Grows
<1>3. QED
  BY <1>1, <1>2 DEF IInv

\* A step that leaves the tables alone, except for the counters.
LEMMA TablesStay ==
  ASSUME IInv, UNCHANGED <<rounds, subs, queue, records>>,
         status' \in {"ACTIVE", "COMPLETED"}, expired' \in BOOLEAN, listed' \in Nat \ {0},
         attempted' \in Nat, solved' \in Nat,
         calls' \in Nat, stalls' \in Nat, crashes' \in Nat
  PROVE  Rows' /\ Grows /\ OnlyLastOpen'
BY DEF IInv, Rows, Grows, OnlyLastOpen

\* The fields of the slots the actions make.
LEMMA ProgressingFields ==
  ASSUME NEW n \in 0 .. 2
  PROVE  Progressing(n) \in RequestType /\ SlotIn(Progressing(n), rounds', subs')
BY DEF Progressing, Idle, RequestType, SlotOK, SlotIn, AnswerSteps, SkipSteps, ProgressSteps

LEMMA IdleFields == Idle \in RequestType /\ SlotIn(Idle, rounds', subs')
BY DEF Idle, RequestType, SlotOK, SlotIn, AnswerSteps, SkipSteps, ProgressSteps

\* A round that exists may be resolved.
LEMMA Resolving ==
  ASSUME IInv, NEW n \in DOMAIN rounds, NEW round \in RoundType, round.done,
         rounds' = [rounds EXCEPT ![n] = round],
         UNCHANGED <<status, expired, listed, scoreVars, answerVars, bounds>>
  PROVE  Rows' /\ Grows /\ OnlyLastOpen'
<1>1. rounds' \in Seq(RoundType) /\ Len(rounds') = Len(rounds) /\ DOMAIN rounds' = DOMAIN rounds
  BY DEF IInv, Rows
<1>2. rounds' # <<>>
  BY <1>1 DEF IInv, Rows
<1>3. \A i \in DOMAIN rounds : rounds'[i] = IF i = n THEN round ELSE rounds[i]
  BY DEF IInv, Rows
<1>4. Rows'
  BY <1>1, <1>2 DEF IInv, Rows, scoreVars, answerVars, bounds
<1>5. Grows
  BY <1>1, <1>3 DEF Grows, answerVars
<1>6. OnlyLastOpen'
  BY <1>1, <1>3 DEF IInv, OnlyLastOpen
<1>7. QED
  BY <1>4, <1>5, <1>6

-----------------------------------------------------------------------------
(* Answers.                                                                *)

\* The facts a step of slot r uses most.
LEMMA SlotFacts ==
  ASSUME IInv, NEW r \in Requests
  PROVE  /\ req[r] \in RequestType /\ SlotOK(req[r])
         /\ rounds \in Seq(RoundType) /\ subs \in Seq(AnswerType)
BY DEF IInv, Slots, Rows

\* A slot that only goes on to another step of answering or skipping.
LEMMA GotoStep ==
  ASSUME IInv, NEW r \in Requests, NEW step, Goto(r, step), UNCHANGED work,
         step \in (AnswerSteps \ {"create"}) \union SkipSteps,
         step \in AnswerSteps => req[r].sub \in DOMAIN subs,
         req[r].round \in DOMAIN rounds,
         Rows', Grows, OnlyLastOpen'
  PROVE  IInv'
<1> DEFINE q == [req[r] EXCEPT !.step = step]
<1>1. q \in RequestType /\ q.step = step /\ q.round = req[r].round /\ q.sub = req[r].sub
  BY SlotFacts DEF RequestType, AnswerSteps, SkipSteps, ProgressSteps
<1>2. Become(r, q)
  BY DEF Goto, Become, IInv, Slots
<1>3. SlotIn(q, rounds', subs')
  BY <1>1 DEF SlotOK, SlotIn, Grows, AnswerSteps, SkipSteps, ProgressSteps
<1> HIDE DEF q
<1>4. QED
  BY <1>1, <1>2, <1>3, RequestStep

LEMMA BecomeProgressing ==
  ASSUME IInv, NEW r \in Requests, NEW n \in 0 .. 2, Become(r, Progressing(n)),
         UNCHANGED work, Rows', Grows, OnlyLastOpen'
  PROVE  IInv'
BY ProgressingFields, RequestStep

LEMMA BecomeIdle ==
  ASSUME IInv, NEW r \in Requests, Become(r, Idle),
         UNCHANGED work, Rows', Grows, OnlyLastOpen'
  PROVE  IInv'
BY IdleFields, RequestStep

LEMMA AttemptsType ==
  ASSUME IInv, NEW n \in Nat
  PROVE  Attempts(n) \in Nat
<1>1. subs \in Seq(AnswerType)
  BY DEF IInv, Rows
<1>2. Len(subs) \in Nat /\ DOMAIN subs = 1 .. Len(subs)
  BY <1>1
<1>3. IsFiniteSet(1 .. Len(subs))
  BY <1>2, FS_Interval
<1>4. IsFiniteSet({s \in DOMAIN subs : subs[s].round = n})
  BY <1>2, <1>3, FS_Subset
<1>5. QED
  BY <1>4, FS_CardinalityType DEF Attempts

\* A client opens a submission or a skip of an existing round.
LEMMA LoadKeeps ==
  ASSUME IInv, NEW r \in Requests, NEW n \in DOMAIN rounds,
         SubmitLoad(r, n) \/ SkipLoad(r, n)
  PROVE  IInv'
<1>1. Rows' /\ Grows /\ OnlyLastOpen'
  <2>1. calls \in Nat /\ calls' = calls + 1
    BY DEF IInv, Rows, SubmitLoad, SkipLoad
  <2>2. QED
    BY <2>1, TablesStay DEF IInv, Rows, SubmitLoad, SkipLoad, sessionVars, scoreVars, answerVars
<1>2. n \in Nat
  BY DEF IInv, Rows
<1>3. CASE SubmitLoad(r, n)
  <2> DEFINE q == [Idle EXCEPT !.step = "create", !.round = n, !.seen = Attempts(n)]
  <2>1. Attempts(n) \in Nat
    BY <1>2, AttemptsType
  <2>2. q \in RequestType /\ q.step = "create" /\ q.round = n
    BY <1>2, <2>1, IdleFields DEF RequestType, AnswerSteps
  <2>3. SlotIn(q, rounds', subs')
    BY <1>1, <2>2 DEF SlotOK, SlotIn, Grows, AnswerSteps, SkipSteps, ProgressSteps
  <2>4. Become(r, q) /\ UNCHANGED work
    BY <1>3 DEF SubmitLoad
  <2> HIDE DEF q
  <2>5. QED
    BY <1>1, <2>2, <2>3, <2>4, RequestStep
<1>4. CASE SkipLoad(r, n)
  <2> DEFINE q == [Progressing(1) EXCEPT !.round = n, !.skip = TRUE]
  <2>1. q \in RequestType /\ q.step = "expiry" /\ q.round = n /\ q.todo = 1
    <3>1. Progressing(1) \in RequestType
      BY ProgressingFields
    <3>2. Progressing(1).step = "expiry" /\ Progressing(1).todo = 1
      BY DEF Progressing, Idle
    <3>3. QED
      BY <1>2, <3>1, <3>2 DEF RequestType
  <2>2. SlotIn(q, rounds', subs')
    BY <1>1, <2>1 DEF SlotOK, SlotIn, Grows, AnswerSteps, SkipSteps, ProgressSteps
  <2>3. Become(r, q) /\ UNCHANGED work
    BY <1>4 DEF SkipLoad
  <2> HIDE DEF q
  <2>4. QED
    BY <1>1, <2>1, <2>2, <2>3, RequestStep
<1>5. QED
  BY <1>3, <1>4

\* A submission is written: the table of submissions grows by one row.
LEMMA CreateKeeps ==
  ASSUME IInv, NEW r \in Requests, Create(r)
  PROVE  IInv'
<1>1. PICK correct \in BOOLEAN :
        /\ subs' = Append(subs, [round |-> req[r].round, judged |-> FALSE,
                                 verdict |-> IF correct THEN "CORRECT" ELSE "INCORRECT"])
        /\ Become(r, [req[r] EXCEPT !.step = IF correct THEN "resolve" ELSE "attempt",
                                    !.static = correct, !.sub = Len(subs) + 1])
  BY DEF Create
<1>2. req[r].round \in DOMAIN rounds /\ req[r].round \in Nat \ {0}
  <2>1. req[r].round \in DOMAIN rounds
    BY SlotFacts DEF SlotOK, SlotIn, Create, At, AnswerSteps
  <2>2. QED
    BY <2>1, SlotFacts
<1> DEFINE row == [round |-> req[r].round, judged |-> FALSE,
                   verdict |-> IF correct THEN "CORRECT" ELSE "INCORRECT"]
           q == [req[r] EXCEPT !.step = IF correct THEN "resolve" ELSE "attempt",
                               !.static = correct, !.sub = Len(subs) + 1]
<1>3. row \in AnswerType /\ row.round \in DOMAIN rounds
  BY <1>2 DEF AnswerType
<1> HIDE DEF row
<1>4. /\ subs' \in Seq(AnswerType) /\ Len(subs') = Len(subs) + 1 /\ Len(subs) \in Nat
      /\ DOMAIN subs' = 1 .. (Len(subs) + 1) /\ DOMAIN subs = 1 .. Len(subs)
      /\ \A i \in DOMAIN subs' : subs'[i] = IF i = Len(subs) + 1 THEN row ELSE subs[i]
  BY <1>1, <1>3, SlotFacts DEF row
<1>5. UNCHANGED <<sessionVars, scoreVars, queue, work, bounds>>
  BY DEF Create
<1>6. Rows'
  <2>1. \A i \in DOMAIN subs' : subs'[i].round \in DOMAIN rounds
    <3>1. \A i \in DOMAIN subs : subs[i].round \in DOMAIN rounds
      BY DEF IInv, Rows
    <3>2. ASSUME NEW i \in DOMAIN subs' PROVE subs'[i].round \in DOMAIN rounds
      <4>1. CASE i = Len(subs) + 1
        BY <1>3, <1>4, <4>1
      <4>2. CASE i # Len(subs) + 1
        BY <1>4, <3>1, <4>2
      <4>3. QED
        BY <4>1, <4>2
    <3>3. QED
      BY <3>2
  <2>2. DOMAIN subs \subseteq DOMAIN subs'
    BY <1>4
  <2>3. queue' \in Seq(DOMAIN subs')
    BY <1>5, <2>2 DEF IInv, Rows
  <2>4. QED
    BY <1>4, <1>5, <2>1, <2>3 DEF IInv, Rows, sessionVars, scoreVars, bounds
<1>7. Grows /\ OnlyLastOpen'
  BY <1>4, <1>5 DEF IInv, Grows, OnlyLastOpen, sessionVars
<1>8. q \in RequestType /\ SlotIn(q, rounds', subs')
  <2>1. /\ q \in RequestType /\ q.step \in {"resolve", "attempt"}
        /\ q.round = req[r].round /\ q.sub = Len(subs) + 1
    <3>1. Len(subs) + 1 \in Nat
      BY <1>4
    <3>2. CASE correct
      BY <3>1, <3>2, SlotFacts DEF RequestType, AnswerSteps
    <3>3. CASE ~correct
      BY <3>1, <3>3, SlotFacts DEF RequestType, AnswerSteps
    <3>4. QED
      BY <3>2, <3>3
  <2>2. q.sub \in DOMAIN subs' /\ q.round \in DOMAIN rounds'
    BY <2>1, <1>2, <1>4, <1>5 DEF sessionVars
  <2> HIDE DEF q
  <2>3. QED
    BY <2>1, <2>2 DEF SlotOK, SlotIn, AnswerSteps, SkipSteps, ProgressSteps
<1>9. Become(r, q) /\ UNCHANGED work
  BY <1>1, <1>5
<1> HIDE DEF q
<1>10. QED
  BY <1>6, <1>7, <1>8, <1>9, RequestStep

\* A verdict is written to a submission that exists.
LEMMA Judging ==
  ASSUME IInv, NEW s \in DOMAIN subs, NEW j \in Judgements, subs' = JudgedAs(s, j),
         UNCHANGED <<sessionVars, scoreVars, queue, bounds>>
  PROVE  Rows' /\ Grows /\ OnlyLastOpen'
<1>1. j.verdict \in {"CORRECT", "INCORRECT", "COMPILE_ERROR"} /\ j.judged \in BOOLEAN
  <2>1. CASE j = [verdict |-> "CORRECT", judged |-> TRUE]
    BY <2>1
  <2>2. CASE j = [verdict |-> "INCORRECT", judged |-> TRUE]
    BY <2>2
  <2>3. CASE j = [verdict |-> "COMPILE_ERROR", judged |-> FALSE]
    BY <2>3
  <2>4. QED
    BY <2>1, <2>2, <2>3 DEF Judgements
<1>2. subs \in Seq(AnswerType) /\ subs[s] \in AnswerType
  BY DEF IInv, Rows
<1> DEFINE row == [[subs[s] EXCEPT !.verdict = j.verdict] EXCEPT !.judged = @ \/ j.judged]
<1>3. row \in AnswerType /\ row.round = subs[s].round
  BY <1>1, <1>2 DEF AnswerType
<1>4. subs' = [subs EXCEPT ![s] = row]
  BY <1>2 DEF JudgedAs, AnswerType
<1> HIDE DEF row
<1>5. /\ subs' \in Seq(AnswerType) /\ DOMAIN subs' = DOMAIN subs
      /\ \A i \in DOMAIN subs : subs'[i].round = subs[i].round
  BY <1>2, <1>3, <1>4
<1>6. queue' \in Seq(DOMAIN subs)
  BY DEF IInv, Rows
<1>7. Rows'
  BY <1>5, <1>6 DEF IInv, Rows, sessionVars, scoreVars, bounds
<1>8. QED
  BY <1>5, <1>7 DEF IInv, Grows, OnlyLastOpen, sessionVars

LEMMA DirectJudgedKeeps ==
  ASSUME IInv, NEW r \in Requests, DirectJudged(r)
  PROVE  IInv'
<1>1. PICK j \in Judgements :
        /\ subs' = JudgedAs(req[r].sub, j)
        /\ IF j.verdict = "CORRECT" THEN Goto(r, "resolve") ELSE Become(r, Idle)
  BY DEF DirectJudged
<1>2. req[r].sub \in DOMAIN subs /\ req[r].round \in DOMAIN rounds
  BY SlotFacts DEF DirectJudged, At, SlotOK, SlotIn, AnswerSteps
<1>3. Rows' /\ Grows /\ OnlyLastOpen' /\ UNCHANGED work
  BY <1>1, <1>2, Judging DEF DirectJudged
<1>4. QED
  BY <1>1, <1>2, <1>3, GotoStep, BecomeIdle DEF AnswerSteps

LEMMA EnqueueKeeps ==
  ASSUME IInv, NEW r \in Requests, Enqueue(r)
  PROVE  IInv'
<1>1. req[r].sub \in DOMAIN subs /\ req[r].round \in DOMAIN rounds
  BY SlotFacts DEF Enqueue, At, SlotOK, SlotIn, AnswerSteps
<1>2. queue' \in Seq(DOMAIN subs)
  BY <1>1 DEF Enqueue, IInv, Rows
<1>3. Rows' /\ Grows /\ OnlyLastOpen'
  BY <1>2 DEF Enqueue, IInv, Rows, Grows, OnlyLastOpen, sessionVars, scoreVars, bounds
<1>4. QED
  BY <1>1, <1>3, GotoStep DEF Enqueue, AnswerSteps

\* Steps of answering that change counters or the slot only.
LEMMA AnswerKeeps ==
  ASSUME IInv, NEW r \in Requests,
         \/ CreateClash(r) \/ CountAttempt(r) \/ WaitSees(r) \/ WaitTimesOut(r)
         \/ CreditSession(r) \/ CountSkip(r)
  PROVE  IInv'
<1>1. attempted \in Nat /\ solved \in Nat
  BY DEF IInv, Rows
<1>2. attempted' \in Nat /\ solved' \in Nat
  BY <1>1 DEF CreateClash, CountAttempt, WaitSees, WaitTimesOut, CreditSession, CountSkip,
              scoreVars
<1>3. Rows' /\ Grows /\ OnlyLastOpen'
  BY <1>2, TablesStay
     DEF IInv, Rows, CreateClash, CountAttempt, WaitSees, WaitTimesOut, CreditSession,
         CountSkip, sessionVars, scoreVars, answerVars, bounds
<1>4. CASE CountAttempt(r)
  BY <1>3, <1>4, SlotFacts, GotoStep DEF CountAttempt, At, SlotOK, SlotIn, AnswerSteps
<1>5. CASE CreditSession(r)
  BY <1>3, <1>5, SlotFacts, GotoStep DEF CreditSession, At, SlotOK, SlotIn, AnswerSteps
<1>6. CASE CreateClash(r) \/ WaitTimesOut(r)
  BY <1>3, <1>6, BecomeIdle DEF CreateClash, WaitTimesOut
<1>7. CASE WaitSees(r) \/ CountSkip(r)
  BY <1>3, <1>7, BecomeProgressing DEF WaitSees, CountSkip
<1>8. QED
  BY <1>4, <1>5, <1>6, <1>7

LEMMA ResolveKeeps ==
  ASSUME IInv, NEW r \in Requests, ResolveRound(r) \/ SkipRound(r)
  PROVE  IInv'
<1>1. req[r].round \in DOMAIN rounds
  BY SlotFacts DEF ResolveRound, SkipRound, At, SlotOK, SlotIn, AnswerSteps, SkipSteps
<1>2. CASE ResolveRound(r)
  <2>1. [done |-> TRUE, verdict |-> "CORRECT", scored |-> TRUE] \in RoundType
    BY DEF RoundType
  <2>2. Rows' /\ Grows /\ OnlyLastOpen'
    BY <1>1, <1>2, <2>1, Resolving DEF ResolveRound
  <2>3. req[r].sub \in DOMAIN subs
    BY <1>2, SlotFacts DEF ResolveRound, At, SlotOK, SlotIn, AnswerSteps
  <2>4. QED
    BY <1>1, <1>2, <2>2, <2>3, GotoStep DEF ResolveRound, AnswerSteps
<1>3. CASE SkipRound(r)
  <2> DEFINE round == [rounds[req[r].round] EXCEPT !.done = TRUE, !.verdict = "INCORRECT"]
  <2>1. rounds[req[r].round] \in RoundType
    BY <1>1, SlotFacts
  <2>2. round \in RoundType /\ round.done
    BY <2>1 DEF RoundType
  <2>3. rounds' = [rounds EXCEPT ![req[r].round] = round]
    BY <1>1, <1>3, <2>1 DEF SkipRound, RoundType
  <2> HIDE DEF round
  <2>4. Rows' /\ Grows /\ OnlyLastOpen'
    BY <1>1, <1>3, <2>2, <2>3, Resolving DEF SkipRound
  <2>5. QED
    BY <1>1, <1>3, <2>4, GotoStep DEF SkipRound, AnswerSteps, SkipSteps
<1>4. QED
  BY <1>2, <1>3

LEMMA RecordKeeps ==
  ASSUME IInv, NEW r \in Requests, RecordScore(r)
  PROVE  IInv'
<1>1. req[r].round \in DOMAIN rounds
  BY SlotFacts DEF RecordScore, At, SlotOK, SlotIn, AnswerSteps
<1>2. records' \in Seq(DOMAIN rounds)
  BY <1>1 DEF RecordScore, IInv, Rows
<1>3. Rows' /\ Grows /\ OnlyLastOpen'
  BY <1>2 DEF RecordScore, IInv, Rows, Grows, OnlyLastOpen, sessionVars, answerVars, bounds
<1>4. QED
  BY <1>3, BecomeProgressing DEF RecordScore

-----------------------------------------------------------------------------
(* Progression.                                                            *)

\* One call of progression less is left, or none.
LEMMA LeftToDo ==
  ASSUME IInv, NEW r \in Requests, req[r].step \in ProgressSteps
  PROVE  req[r].todo - 1 \in 0 .. 2
BY SlotFacts DEF SlotOK, SlotIn, RequestType

LEMMA ExpiryKeeps ==
  ASSUME IInv, NEW r \in Requests, NotYetExpired(r) \/ ExpireSession(r)
  PROVE  IInv'
<1>1. Rows' /\ Grows /\ OnlyLastOpen'
  BY TablesStay
     DEF IInv, Rows, NotYetExpired, ExpireSession, sessionVars, scoreVars, answerVars, bounds
<1> DEFINE q == [req[r] EXCEPT !.step = AfterExpiry(r)]
<1>2. Become(r, q) /\ UNCHANGED work
  BY DEF NotYetExpired, ExpireSession, Goto, Become, IInv, Slots
<1>3. /\ q \in RequestType /\ q.step = AfterExpiry(r) /\ q.round = req[r].round
      /\ q.todo = req[r].todo /\ AfterExpiry(r) \in {"skip", "look"}
      /\ AfterExpiry(r) = "skip" => req[r].skip
  BY SlotFacts DEF RequestType, AfterExpiry, SkipSteps, ProgressSteps
<1>4. req[r].todo # 0 /\ (req[r].skip => req[r].round \in DOMAIN rounds)
  BY SlotFacts DEF NotYetExpired, ExpireSession, At, SlotOK, SlotIn, ProgressSteps
<1>5. SlotIn(q, rounds', subs')
  <2> HIDE DEF q
  <2>1. QED
    BY <1>1, <1>3, <1>4 DEF Grows, SlotOK, SlotIn, AnswerSteps, SkipSteps, ProgressSteps
<1> HIDE DEF q
<1>6. QED
  BY <1>1, <1>2, <1>3, <1>5, RequestStep

\* A request that is about to extend or insert has seen the last round resolved.
LEMMA LookKeeps ==
  ASSUME IInv, NEW r \in Requests, Look(r)
  PROVE  IInv'
<1>1. Rows' /\ Grows /\ OnlyLastOpen'
  BY TablesStay
     DEF IInv, Rows, Look, LookWith, sessionVars, scoreVars, answerVars, bounds
<1>2. CASE ~(status = "ACTIVE" /\ LastDone)
  <2>1. Become(r, Progressing(req[r].todo - 1)) /\ UNCHANGED work
    BY <1>2 DEF Look, LookWith
  <2>2. req[r].todo - 1 \in 0 .. 2
    BY LeftToDo DEF Look, LookWith, At, ProgressSteps
  <2>3. QED
    BY <1>1, <2>1, <2>2, BecomeProgressing
<1>3. CASE status = "ACTIVE" /\ LastDone
  <2> DEFINE step == IF Len(rounds) < listed THEN "insert"
                     ELSE IF Mode = "PRACTICE" THEN "extend" ELSE "complete"
             q == [req[r] EXCEPT !.seen = Len(rounds), !.list = listed, !.step = step]
  <2>1. Become(r, q) /\ UNCHANGED work
    BY <1>3 DEF Look, LookWith
  <2>2. Len(rounds) \in DOMAIN rounds /\ Len(rounds) \in Nat /\ listed \in Nat
    BY DEF IInv, Rows
  <2>3. /\ q \in RequestType /\ q.step \in {"insert", "extend", "complete"}
        /\ q.seen = Len(rounds) /\ q.todo = req[r].todo
    BY <2>2, SlotFacts DEF RequestType, ProgressSteps
  <2>4. req[r].todo # 0
    BY SlotFacts DEF Look, LookWith, At, SlotOK, SlotIn, ProgressSteps
  <2>5. rounds[Len(rounds)].done
    BY <1>3 DEF LastDone
  <2> HIDE DEF q
  <2>6. SlotIn(q, rounds', subs')
    BY <1>1, <2>2, <2>3, <2>4, <2>5 DEF Grows, SlotOK, SlotIn, AnswerSteps, SkipSteps, ProgressSteps
  <2>7. QED
    BY <1>1, <2>1, <2>3, <2>6, RequestStep
<1>4. QED
  BY <1>2, <1>3

LEMMA ExtendKeeps ==
  ASSUME IInv, NEW r \in Requests, Extend(r)
  PROVE  IInv'
<1> DEFINE longer == req[r].list + CycleLength
           q == [req[r] EXCEPT !.list = longer,
                               !.step = IF req[r].seen < longer THEN "insert" ELSE "complete"]
<1>1. longer \in Nat \ {0}
  BY SlotFacts, SessionAssumption DEF RequestType
<1>2. Rows' /\ Grows /\ OnlyLastOpen'
  BY <1>1, TablesStay DEF IInv, Rows, Extend, scoreVars, answerVars, bounds
<1>3. Become(r, q) /\ UNCHANGED work
  BY DEF Extend
<1>4. /\ q \in RequestType /\ q.step \in {"insert", "complete"}
      /\ q.seen = req[r].seen /\ q.todo = req[r].todo
  BY <1>1, SlotFacts DEF RequestType, ProgressSteps
<1>5. req[r].todo # 0 /\ req[r].seen \in DOMAIN rounds /\ rounds[req[r].seen].done
  BY SlotFacts DEF Extend, At, SlotOK, SlotIn, ProgressSteps
<1> HIDE DEF q
<1>6. SlotIn(q, rounds', subs')
  BY <1>2, <1>4, <1>5 DEF Grows, SlotOK, SlotIn, AnswerSteps, SkipSteps, ProgressSteps
<1>7. QED
  BY <1>2, <1>3, <1>4, <1>6, RequestStep

LEMMA CompleteKeeps ==
  ASSUME IInv, NEW r \in Requests, CompleteSession(r)
  PROVE  IInv'
<1>1. Rows' /\ Grows /\ OnlyLastOpen'
  BY TablesStay DEF IInv, Rows, CompleteSession, scoreVars, answerVars, bounds
<1>2. req[r].todo - 1 \in 0 .. 2
  BY LeftToDo DEF CompleteSession, At, ProgressSteps
<1>3. QED
  BY <1>1, <1>2, BecomeProgressing DEF CompleteSession

\* A round is added only behind the one the request saw resolved.
LEMMA InsertKeeps ==
  ASSUME IInv, NEW r \in Requests, InsertRound(r)
  PROVE  IInv'
<1>1. req[r].todo - 1 \in 0 .. 2
  BY LeftToDo DEF InsertRound, At, ProgressSteps
<1>2. req[r].seen \in DOMAIN rounds /\ rounds[req[r].seen].done
  BY SlotFacts DEF InsertRound, At, SlotOK, SlotIn
<1>3. CASE /\ Len(rounds) = req[r].seen
           /\ rounds' = Append(rounds, Open)
           /\ Become(r, Progressing(req[r].todo - 1))
  <2>1. Open \in RoundType
    BY DEF Open, RoundType
  <2>2. /\ rounds' \in Seq(RoundType) /\ Len(rounds) \in Nat /\ Len(rounds') = Len(rounds) + 1
        /\ DOMAIN rounds' = 1 .. (Len(rounds) + 1) /\ DOMAIN rounds = 1 .. Len(rounds)
        /\ \A i \in DOMAIN rounds : rounds'[i] = rounds[i]
    BY <1>3, <2>1, SlotFacts
  <2>3. records' \in Seq(DOMAIN rounds')
    <3>1. DOMAIN rounds \subseteq DOMAIN rounds'
      BY <2>2
    <3>2. QED
      BY <3>1 DEF IInv, Rows, InsertRound, scoreVars
  <2>4. rounds' # <<>>
    BY <2>2
  <2>5. \A s \in DOMAIN subs' : subs'[s].round \in DOMAIN rounds'
    BY <2>2 DEF IInv, Rows, InsertRound, answerVars
  <2>6. Rows'
    BY <2>2, <2>3, <2>4, <2>5 DEF IInv, Rows, InsertRound, scoreVars, answerVars, bounds
  <2>7. Grows
    BY <2>2 DEF Grows, InsertRound, answerVars
  <2>8. OnlyLastOpen'
    <3>1. ASSUME NEW n \in DOMAIN rounds', n < Len(rounds') PROVE rounds'[n].done
      <4>1. n \in DOMAIN rounds /\ rounds'[n] = rounds[n]
        BY <2>2, <3>1
      <4>2. rounds[n].done
        BY <1>2, <1>3, <2>2, <4>1 DEF IInv, OnlyLastOpen
      <4>3. QED
        BY <4>1, <4>2
    <3>2. QED
      BY <3>1 DEF OnlyLastOpen
  <2>9. QED
    BY <1>1, <1>3, <2>6, <2>7, <2>8, BecomeProgressing DEF InsertRound
<1>4. CASE /\ \E left \in {0, req[r].todo - 1} : Become(r, Progressing(left))
           /\ UNCHANGED rounds
  <2>1. PICK left \in 0 .. 2 : Become(r, Progressing(left))
    BY <1>1, <1>4
  <2>2. Rows' /\ Grows /\ OnlyLastOpen'
    BY <1>4, TablesStay DEF IInv, Rows, InsertRound, scoreVars, answerVars, bounds
  <2>3. QED
    BY <2>1, <2>2, BecomeProgressing DEF InsertRound
<1>5. QED
  BY <1>3, <1>4 DEF InsertRound

\* Polls, the end of the game, crashes and time.
LEMMA OtherKeeps ==
  ASSUME IInv
  PROVE  /\ \A r \in Requests : Poll(r) \/ Finish(r) \/ Crash(r) => IInv'
         /\ TimePasses => IInv'
<1>1. ASSUME NEW r \in Requests, Poll(r) PROVE IInv'
  BY <1>1, TablesStay, BecomeProgressing
     DEF Poll, IInv, Rows, sessionVars, scoreVars, answerVars, bounds
<1>2. ASSUME NEW r \in Requests, Finish(r) PROVE IInv'
  BY <1>2 DEF Finish, IInv, Rows, Slots, SlotOK, SlotIn, Jobs, JobOK, JobIn,
              OnlyLastOpen, scoreVars, answerVars, bounds
<1>3. ASSUME NEW r \in Requests, Crash(r) PROVE IInv'
  <2>1. crashes' \in Nat
    BY <1>3 DEF Crash, IInv, Rows
  <2>2. QED
    BY <1>3, <2>1, TablesStay, BecomeIdle
       DEF Crash, IInv, Rows, sessionVars, scoreVars, answerVars, bounds
<1>4. ASSUME TimePasses PROVE IInv'
  BY <1>4 DEF TimePasses, IInv, Rows, Slots, SlotOK, SlotIn, Jobs, JobOK, JobIn,
              OnlyLastOpen, scoreVars, answerVars, bounds
<1>5. QED
  BY <1>1, <1>2, <1>3, <1>4

-----------------------------------------------------------------------------
(* Jobs.                                                                   *)

LEMMA JobFacts ==
  ASSUME IInv, NEW w \in Workers, ~WorksAt(w, "idle")
  PROVE  /\ work[w] \in [step : JobSteps, sub : Nat]
         /\ work[w].sub \in DOMAIN subs /\ JobRound(w) \in DOMAIN rounds
BY DEF IInv, Rows, Jobs, JobOK, JobIn, WorksAt, JobRound

\* A job that rests, or goes on to its next step.
LEMMA RestStep ==
  ASSUME IInv, NEW w \in Workers, work' = [work EXCEPT ![w] = Resting],
         UNCHANGED req, Rows', Grows, OnlyLastOpen'
  PROVE  IInv'
<1>1. Resting \in [step : JobSteps, sub : Nat] /\ JobIn(Resting, subs')
  BY DEF Resting, JobSteps, JobOK, JobIn
<1>2. QED
  BY <1>1, WorkerStep

LEMMA AdvanceStep ==
  ASSUME IInv, NEW w \in Workers, NEW step \in JobSteps, ~WorksAt(w, "idle"),
         Advance(w, step), UNCHANGED req, Rows', Grows, OnlyLastOpen'
  PROVE  IInv'
<1> DEFINE k == [work[w] EXCEPT !.step = step]
<1>1. k \in [step : JobSteps, sub : Nat] /\ k.sub \in DOMAIN subs
  BY JobFacts
<1>2. work' = [work EXCEPT ![w] = k]
  BY DEF Advance, IInv, Jobs
<1>3. JobIn(k, subs')
  BY <1>1 DEF JobOK, JobIn, Grows
<1> HIDE DEF k
<1>4. QED
  BY <1>1, <1>2, <1>3, WorkerStep

LEMMA TakeKeeps ==
  ASSUME IInv, NEW w \in Workers, TakeJob(w)
  PROVE  IInv'
<1> DEFINE k == [step |-> "judge", sub |-> Head(queue)]
<1>1. queue \in Seq(DOMAIN subs) /\ queue # <<>> /\ subs \in Seq(AnswerType)
  BY DEF TakeJob, IInv, Rows
<1>2. /\ Head(queue) \in DOMAIN subs /\ Head(queue) \in Nat
      /\ queue' \in Seq(DOMAIN subs)
  BY <1>1 DEF TakeJob
<1>3. k \in [step : JobSteps, sub : Nat] /\ k.sub \in DOMAIN subs
  BY <1>2 DEF JobSteps
<1>4. Rows' /\ Grows /\ OnlyLastOpen' /\ UNCHANGED req
  BY <1>2 DEF TakeJob, IInv, Rows, Grows, OnlyLastOpen, sessionVars, scoreVars, bounds
<1>5. JobIn(k, subs')
  BY <1>3, <1>4 DEF JobIn, Grows
<1>6. work' = [work EXCEPT ![w] = k]
  BY DEF TakeJob
<1> HIDE DEF k
<1>7. QED
  BY <1>3, <1>4, <1>5, <1>6, WorkerStep

LEMMA JudgeKeeps ==
  ASSUME IInv, NEW w \in Workers, JudgeJob(w)
  PROVE  IInv'
<1>1. PICK j \in Judgements :
        /\ subs' = JudgedAs(work[w].sub, j)
        /\ work' = [work EXCEPT ![w] = IF j.verdict = "CORRECT"
                                       THEN [@ EXCEPT !.step = "resolve"] ELSE Resting]
  BY DEF JudgeJob
<1>2. ~WorksAt(w, "idle") /\ work[w].sub \in DOMAIN subs
  BY JobFacts DEF JudgeJob, WorksAt
<1>3. Rows' /\ Grows /\ OnlyLastOpen' /\ UNCHANGED req
  BY <1>1, <1>2, Judging DEF JudgeJob
<1>4. CASE j.verdict = "CORRECT"
  <2>1. Advance(w, "resolve")
    BY <1>1, <1>4 DEF Advance
  <2>2. QED
    BY <1>2, <1>3, <2>1, AdvanceStep DEF JobSteps
<1>5. CASE j.verdict # "CORRECT"
  BY <1>1, <1>3, <1>5, RestStep
<1>6. QED
  BY <1>4, <1>5

\* The updates of the round by a job: it is resolved, later its score is set.
LEMMA JobRoundKeeps ==
  ASSUME IInv, NEW w \in Workers, ResolveJob(w) \/ ScoreJob(w)
  PROVE  IInv'
<1>1. ~WorksAt(w, "idle")
  BY DEF ResolveJob, ScoreJob, WorksAt
<1>2. JobRound(w) \in DOMAIN rounds /\ rounds[JobRound(w)] \in RoundType
  BY <1>1, JobFacts DEF IInv, Rows
<1>3. CASE ResolveJob(w)
  <2> DEFINE round == [rounds[JobRound(w)] EXCEPT !.done = TRUE, !.verdict = "CORRECT"]
  <2>1. round \in RoundType /\ round.done
    BY <1>2 DEF RoundType
  <2>2. rounds' = [rounds EXCEPT ![JobRound(w)] = round]
    BY <1>2, <1>3 DEF ResolveJob, RoundType
  <2> HIDE DEF round
  <2>3. Rows' /\ Grows /\ OnlyLastOpen'
    BY <1>2, <1>3, <2>1, <2>2, Resolving DEF ResolveJob
  <2>4. QED
    BY <1>1, <1>3, <2>3, AdvanceStep DEF ResolveJob, JobSteps
<1>4. CASE ScoreJob(w)
  <2> DEFINE round == [rounds[JobRound(w)] EXCEPT !.scored = TRUE]
  <2>1. round \in RoundType /\ round.done = rounds[JobRound(w)].done
    BY <1>2 DEF RoundType
  <2>2. rounds' = [rounds EXCEPT ![JobRound(w)] = round]
    BY <1>2, <1>4 DEF ScoreJob
  <2> HIDE DEF round
  <2>3. /\ rounds' \in Seq(RoundType) /\ Len(rounds') = Len(rounds)
        /\ DOMAIN rounds' = DOMAIN rounds /\ rounds' # <<>>
        /\ \A i \in DOMAIN rounds : rounds'[i].done = rounds[i].done
    BY <1>2, <2>1, <2>2 DEF IInv, Rows
  <2>4. Rows' /\ Grows /\ OnlyLastOpen'
    BY <1>4, <2>3
       DEF ScoreJob, IInv, Rows, Grows, OnlyLastOpen, scoreVars, answerVars, bounds
  <2>5. QED
    BY <1>1, <1>4, <2>4, AdvanceStep DEF ScoreJob, JobSteps
<1>5. QED
  BY <1>3, <1>4

LEMMA CreditJobKeeps ==
  ASSUME IInv, NEW w \in Workers, CreditJob(w)
  PROVE  IInv'
<1>1. ~WorksAt(w, "idle")
  BY DEF CreditJob, WorksAt
<1>2. solved' \in Nat
  BY DEF CreditJob, IInv, Rows
<1>3. Rows' /\ Grows /\ OnlyLastOpen'
  BY <1>2, TablesStay DEF CreditJob, IInv, Rows, sessionVars, answerVars, bounds
<1>4. QED
  BY <1>1, <1>3, AdvanceStep DEF CreditJob, JobSteps

LEMMA RecordJobKeeps ==
  ASSUME IInv, NEW w \in Workers, RecordJob(w)
  PROVE  IInv'
<1>1. JobRound(w) \in DOMAIN rounds
  BY JobFacts DEF RecordJob, WorksAt
<1>2. records' \in Seq(DOMAIN rounds)
  BY <1>1 DEF RecordJob, IInv, Rows
<1>3. Rows' /\ Grows /\ OnlyLastOpen'
  BY <1>2 DEF RecordJob, IInv, Rows, Grows, OnlyLastOpen, sessionVars, answerVars, bounds
<1>4. QED
  BY <1>3, RestStep DEF RecordJob

\* A job handed out again, or given up.
LEMMA JobLostKeeps ==
  ASSUME IInv, NEW w \in Workers, Stall(w) \/ FailJob(w)
  PROVE  IInv'
<1>1. work[w].sub \in DOMAIN subs
  BY JobFacts DEF Stall, FailJob
<1>2. queue' \in Seq(DOMAIN subs) /\ stalls' \in Nat /\ crashes' \in Nat
  <2>1. queue \in Seq(DOMAIN subs) /\ stalls \in Nat /\ crashes \in Nat
    BY DEF IInv, Rows
  <2>2. CASE Stall(w)
    BY <1>1, <2>1, <2>2 DEF Stall
  <2>3. CASE FailJob(w)
    BY <2>1, <2>3 DEF FailJob, answerVars
  <2>4. QED
    BY <2>2, <2>3
<1>3. Rows' /\ Grows /\ OnlyLastOpen'
  BY <1>2 DEF Stall, FailJob, IInv, Rows, Grows, OnlyLastOpen, sessionVars, scoreVars, answerVars
<1>4. QED
  BY <1>3, RestStep DEF Stall, FailJob

-----------------------------------------------------------------------------
LEMMA InitEstablishesInvariant == Init => IInv
<1> SUFFICES ASSUME Init PROVE IInv
  OBVIOUS
<1>1. Rows /\ OnlyLastOpen
  <2>1. Open \in RoundType
    BY DEF Open, RoundType
  <2>2. rounds \in Seq(RoundType) /\ Len(rounds) = 1 /\ DOMAIN rounds = 1 .. 1
    BY <2>1 DEF Init
  <2>3. /\ records \in Seq(DOMAIN rounds) /\ subs \in Seq(AnswerType)
        /\ queue \in Seq(DOMAIN subs) /\ DOMAIN subs = {}
    BY DEF Init
  <2>4. Rows
    BY <2>2, <2>3, SessionAssumption DEF Init, Rows
  <2>5. OnlyLastOpen
    BY <2>2 DEF OnlyLastOpen
  <2>6. QED
    BY <2>4, <2>5
<1>2. Slots
  BY DEF Init, Slots, SlotOK, SlotIn, Idle, RequestType, AnswerSteps, SkipSteps, ProgressSteps
<1>3. Jobs
  BY DEF Init, Jobs, JobOK, JobIn, Resting, JobSteps
<1>4. QED
  BY <1>1, <1>2, <1>3 DEF IInv

LEMMA NextKeepsInvariant == IInv /\ [Next]_vars => IInv'
<1> SUFFICES ASSUME IInv, [Next]_vars PROVE IInv'
  OBVIOUS
<1>1. ASSUME NEW r \in Requests, ClientCall(r) PROVE IInv'
  BY <1>1, LoadKeeps, OtherKeeps DEF ClientCall
<1>2. ASSUME NEW r \in Requests, Proceed(r) PROVE IInv'
  BY <1>2, CreateKeeps, DirectJudgedKeeps, EnqueueKeeps, AnswerKeeps, ResolveKeeps,
     RecordKeeps, ExpiryKeeps, LookKeeps, ExtendKeeps, CompleteKeeps, InsertKeeps
     DEF Proceed
<1>3. ASSUME NEW r \in Requests, Poll(r) \/ Crash(r) PROVE IInv'
  BY <1>3, OtherKeeps
<1>4. ASSUME NEW w \in Workers, WorkOn(w) PROVE IInv'
  BY <1>4, TakeKeeps, JudgeKeeps, JobRoundKeeps, CreditJobKeeps, RecordJobKeeps DEF WorkOn
<1>5. ASSUME NEW w \in Workers, Stall(w) \/ FailJob(w) PROVE IInv'
  BY <1>5, JobLostKeeps
<1>6. CASE TimePasses
  BY <1>6, OtherKeeps
<1>7. CASE UNCHANGED vars
  BY <1>7 DEF vars, sessionVars, scoreVars, answerVars, bounds, IInv, Rows, Slots, SlotOK, SlotIn,
              Jobs, JobOK, OnlyLastOpen
<1>8. QED
  BY <1>1, <1>2, <1>3, <1>4, <1>5, <1>6, <1>7 DEF Next

\* In every reachable state the tables are well formed, no slot refers to a row
\* that does not exist, and only the last round is open.
THEOREM InvariantHolds == Spec => []IInv
<1>1. QED
  BY InitEstablishesInvariant, NextKeepsInvariant, PTL DEF Spec

\* Types hold for any number of requests, jobs, calls, stalls and crashes.
THEOREM TypeCorrect == Spec => []TypeOK
<1>1. IInv => TypeOK
  BY DEF IInv, Rows, Slots, SlotOK, SlotIn, Jobs, JobOK, JobIn, TypeOK
<1>2. QED
  BY <1>1, InvariantHolds, PTL

\* No interleaving of answers, skips, polls and jobs ever passes over a round.
THEOREM RoundsInOrder == Spec => []OnlyLastOpen
<1>1. IInv => OnlyLastOpen
  BY DEF IInv
<1>2. QED
  BY <1>1, InvariantHolds, PTL

-----------------------------------------------------------------------------
(* The balance of attempts, credits and records.  It rests on who has an   *)
(* answer that is to be judged: the request that made it, the queue, or a  *)
(* worker, and never two of them.  The verdict of such an answer may still *)
(* change; that of any other stands.                                       *)

Deciding == {"attempt", "direct"}

Works(w) == work[w].step # "idle"

\* An answer that its request is to judge counts as wrong so far; and whatever is
\* to be judged, or is being worked on, is in one place only.
OneJudge ==
  /\ \A r \in Requests : req[r].step \in Deciding =>
       ~req[r].static /\ subs[req[r].sub].verdict = "INCORRECT"
  /\ \A r, q \in Requests :
       req[r].step \in Deciding /\ req[q].step \in Deciding /\ r # q => req[r].sub # req[q].sub
  /\ \A i, j \in DOMAIN queue : i # j => queue[i] # queue[j]
  /\ \A v, w \in Workers : Works(v) /\ Works(w) /\ v # w => work[v].sub # work[w].sub
  /\ \A r \in Requests : \A i \in DOMAIN queue :
       req[r].step \in Deciding => queue[i] # req[r].sub
  /\ \A r \in Requests : \A w \in Workers :
       req[r].step \in Deciding /\ Works(w) => work[w].sub # req[r].sub
  /\ \A w \in Workers : \A i \in DOMAIN queue : Works(w) => queue[i] # work[w].sub

\* Requests and jobs that still have an answer to credit, or a credit to record.
CreditSteps == {"resolve", "credit"}
RecordSteps == {"score", "record"}

\* Numbers of credits, and of records, a slot has still to make.
Credits(q) == IF q.step \in CreditSteps THEN 1 ELSE 0
Records(q) == IF q.step \in RecordSteps THEN 1 ELSE 0

Crediting     == {r \in Requests : Credits(req[r]) = 1}
Recording     == {r \in Requests : Records(req[r]) = 1}
JobsCrediting == {w \in Workers : Credits(work[w]) = 1}
JobsRecording == {w \in Workers : Records(work[w]) = 1}
Correct       == {s \in DOMAIN subs : subs[s].verdict = "CORRECT"}

\* Correct answers of stalled jobs, which are to be judged again.
Waiting(s) ==
  \/ \E i \in DOMAIN queue : queue[i] = s
  \/ \E w \in Workers : work[w].step = "judge" /\ work[w].sub = s
Again == {s \in Correct : Waiting(s)}

\* Requests whose answer was counted as an attempt and may yet be credited, and
\* jobs that may yet credit one.
Owes(q) == IF q.step \in CreditSteps \union {"direct"} /\ ~q.static THEN 1 ELSE 0
May(k)  == IF k.step \in CreditSteps \union {"judge"} THEN 1 ELSE 0

Counted == {r \in Requests : Owes(req[r]) = 1}
JobsMay == {w \in Workers : May(work[w]) = 1}

\* What may still be credited, is to be credited, and is to be recorded.
Uncovered  == attempted + stalls - solved - Len(queue)
Uncredited == Cardinality(Correct) - solved
Unrecorded == solved - Len(records)

Covered == Cardinality(Counted) + Cardinality(JobsMay) <= Uncovered

\* Credits and records that nobody is to make any more.
LostCredits == Uncredited - Cardinality(Crediting) - Cardinality(JobsCrediting)
LostRecords == Unrecorded - Cardinality(Recording) - Cardinality(JobsRecording)

Balanced ==
  /\ Cardinality(Again) <= LostCredits + stalls
  /\ LostCredits <= stalls + crashes
  /\ LostRecords \in 0 .. (stalls + crashes)

Balance == OneJudge /\ Covered /\ Balanced

CInv == IInv /\ Balance

-----------------------------------------------------------------------------
(* Counting.                                                               *)

\* Sets of members of S that differ in x alone: their sizes differ by what x
\* makes of it.
LEMMA OneMoves ==
  ASSUME NEW S, IsFiniteSet(S), NEW x \in S, NEW A \in SUBSET S, NEW B \in SUBSET S,
         \A y \in S \ {x} : y \in A <=> y \in B
  PROVE  /\ Cardinality(A) \in Nat /\ Cardinality(B) \in Nat
         /\ (x \in A <=> x \in B) => Cardinality(B) = Cardinality(A)
         /\ x \in A /\ x \notin B => Cardinality(B) = Cardinality(A) - 1
         /\ x \notin A /\ x \in B => Cardinality(B) = Cardinality(A) + 1
<1>1. IsFiniteSet(A) /\ IsFiniteSet(B)
  BY FS_Subset
<1>2. Cardinality(A) \in Nat /\ Cardinality(B) \in Nat
  BY <1>1, FS_CardinalityType
<1>3. (x \in A <=> x \in B) => A = B
  OBVIOUS
<1>4. x \in A /\ x \notin B => Cardinality(B) = Cardinality(A) - 1
  <2>1. SUFFICES ASSUME x \in A, x \notin B PROVE Cardinality(B) = Cardinality(A) - 1
    OBVIOUS
  <2>2. B = A \ {x}
    BY <2>1
  <2>3. QED
    BY <1>1, <2>1, <2>2, FS_RemoveElement
<1>5. x \notin A /\ x \in B => Cardinality(B) = Cardinality(A) + 1
  <2>1. SUFFICES ASSUME x \notin A, x \in B PROVE Cardinality(B) = Cardinality(A) + 1
    OBVIOUS
  <2>2. B = A \union {x}
    BY <2>1
  <2>3. QED
    BY <1>1, <2>1, <2>2, FS_AddElement
<1>6. QED
  BY <1>2, <1>3, <1>4, <1>5

LEMMA Weights ==
  \A q : /\ Credits(q) \in {0, 1} /\ Records(q) \in {0, 1}
        /\ Owes(q) \in {0, 1} /\ May(q) \in {0, 1}
        /\ Credits(q) + Records(q) <= 1 /\ Credits(q) <= May(q)
BY DEF Credits, Records, Owes, May, CreditSteps, RecordSteps

OthersWait(r) == \A q \in Requests \ {r} : req'[q] = req[q]
OthersWork(w) == \A v \in Workers \ {w} : work'[v] = work[v]

LEMMA CountsAreNat ==
  ASSUME IInv
  PROVE  /\ Cardinality(Crediting) \in Nat /\ Cardinality(Recording) \in Nat
         /\ Cardinality(Counted) \in Nat /\ Cardinality(JobsMay) \in Nat
         /\ Cardinality(JobsCrediting) \in Nat /\ Cardinality(JobsRecording) \in Nat
         /\ Cardinality(Correct) \in Nat /\ Cardinality(Again) \in Nat
         /\ stalls \in Nat /\ crashes \in Nat
         /\ Uncovered \in Int /\ Uncredited \in Int /\ Unrecorded \in Int
         /\ LostCredits \in Int /\ LostRecords \in Int
<1>1. /\ IsFiniteSet(Crediting) /\ IsFiniteSet(Recording) /\ IsFiniteSet(Counted)
      /\ IsFiniteSet(JobsCrediting) /\ IsFiniteSet(JobsRecording) /\ IsFiniteSet(JobsMay)
  <2>1. /\ Crediting \subseteq Requests /\ Recording \subseteq Requests
        /\ Counted \subseteq Requests /\ JobsMay \subseteq Workers
        /\ JobsCrediting \subseteq Workers /\ JobsRecording \subseteq Workers
    BY DEF Crediting, Recording, Counted, JobsCrediting, JobsRecording, JobsMay
  <2>2. QED
    BY <2>1, SessionAssumption, FS_Subset
<1>2. IsFiniteSet(Correct) /\ IsFiniteSet(Again)
  <2>1. subs \in Seq(AnswerType)
    BY DEF IInv, Rows
  <2>2. DOMAIN subs = 1 .. Len(subs) /\ Len(subs) \in Nat
    BY <2>1
  <2>3. IsFiniteSet(DOMAIN subs)
    BY <2>2, FS_Interval
  <2>4. IsFiniteSet(Correct)
    BY <2>3, FS_Subset DEF Correct
  <2>5. QED
    BY <2>4, FS_Subset DEF Again
<1>3. /\ solved \in Nat /\ attempted \in Nat /\ Len(queue) \in Nat /\ Len(records) \in Nat
      /\ stalls \in Nat /\ crashes \in Nat
  BY DEF IInv, Rows
<1>4. /\ Cardinality(Correct) \in Nat /\ Cardinality(Again) \in Nat
      /\ Cardinality(Crediting) \in Nat /\ Cardinality(Recording) \in Nat
      /\ Cardinality(Counted) \in Nat /\ Cardinality(JobsMay) \in Nat
      /\ Cardinality(JobsCrediting) \in Nat /\ Cardinality(JobsRecording) \in Nat
  BY <1>1, <1>2, FS_CardinalityType
<1>5. Uncovered \in Int /\ Uncredited \in Int /\ Unrecorded \in Int
  BY <1>3, <1>4 DEF Uncovered, Uncredited, Unrecorded
<1>6. LostCredits \in Int /\ LostRecords \in Int
  BY <1>4, <1>5 DEF LostCredits, LostRecords
<1>7. QED
  BY <1>3, <1>4, <1>5, <1>6

\* What a step of one request does to the counts of requests.
LEMMA RequestCounts ==
  ASSUME NEW r \in Requests, OthersWait(r)
  PROVE  /\ Cardinality(Crediting') = Cardinality(Crediting)
              + Credits(req'[r]) - Credits(req[r])
         /\ Cardinality(Recording') = Cardinality(Recording)
              + Records(req'[r]) - Records(req[r])
         /\ Cardinality(Counted') = Cardinality(Counted)
              + Owes(req'[r]) - Owes(req[r])
<1>1. IsFiniteSet(Requests)
  BY SessionAssumption
<1>2. Cardinality(Crediting') = Cardinality(Crediting)
        + Credits(req'[r]) - Credits(req[r])
  <2>1. /\ Crediting \in SUBSET Requests /\ Crediting' \in SUBSET Requests
        /\ r \in Crediting <=> Credits(req[r]) = 1
        /\ r \in Crediting' <=> Credits(req'[r]) = 1
        /\ \A y \in Requests \ {r} : y \in Crediting <=> y \in Crediting'
    BY DEF Crediting, OthersWait
  <2>2. QED
    BY <1>1, <2>1, OneMoves, Weights
<1>3. Cardinality(Recording') = Cardinality(Recording)
        + Records(req'[r]) - Records(req[r])
  <2>1. /\ Recording \in SUBSET Requests /\ Recording' \in SUBSET Requests
        /\ r \in Recording <=> Records(req[r]) = 1
        /\ r \in Recording' <=> Records(req'[r]) = 1
        /\ \A y \in Requests \ {r} : y \in Recording <=> y \in Recording'
    BY DEF Recording, OthersWait
  <2>2. QED
    BY <1>1, <2>1, OneMoves, Weights
<1>4. Cardinality(Counted') = Cardinality(Counted)
        + Owes(req'[r]) - Owes(req[r])
  <2>1. /\ Counted \in SUBSET Requests /\ Counted' \in SUBSET Requests
        /\ r \in Counted <=> Owes(req[r]) = 1
        /\ r \in Counted' <=> Owes(req'[r]) = 1
        /\ \A y \in Requests \ {r} : y \in Counted <=> y \in Counted'
    BY DEF Counted, OthersWait
  <2>2. QED
    BY <1>1, <2>1, OneMoves, Weights
<1>5. QED
  BY <1>2, <1>3, <1>4

\* The same for a step of one worker.
LEMMA JobCounts ==
  ASSUME NEW w \in Workers, OthersWork(w)
  PROVE  /\ Cardinality(JobsCrediting') = Cardinality(JobsCrediting)
              + Credits(work'[w]) - Credits(work[w])
         /\ Cardinality(JobsRecording') = Cardinality(JobsRecording)
              + Records(work'[w]) - Records(work[w])
         /\ Cardinality(JobsMay') = Cardinality(JobsMay) + May(work'[w]) - May(work[w])
<1>1. IsFiniteSet(Workers)
  BY SessionAssumption
<1>2. Cardinality(JobsCrediting') = Cardinality(JobsCrediting)
        + Credits(work'[w]) - Credits(work[w])
  <2>1. /\ JobsCrediting \in SUBSET Workers /\ JobsCrediting' \in SUBSET Workers
        /\ w \in JobsCrediting <=> Credits(work[w]) = 1
        /\ w \in JobsCrediting' <=> Credits(work'[w]) = 1
        /\ \A y \in Workers \ {w} : y \in JobsCrediting <=> y \in JobsCrediting'
    BY DEF JobsCrediting, OthersWork
  <2>2. QED
    BY <1>1, <2>1, OneMoves, Weights
<1>3. Cardinality(JobsRecording') = Cardinality(JobsRecording)
        + Records(work'[w]) - Records(work[w])
  <2>1. /\ JobsRecording \in SUBSET Workers /\ JobsRecording' \in SUBSET Workers
        /\ w \in JobsRecording <=> Records(work[w]) = 1
        /\ w \in JobsRecording' <=> Records(work'[w]) = 1
        /\ \A y \in Workers \ {w} : y \in JobsRecording <=> y \in JobsRecording'
    BY DEF JobsRecording, OthersWork
  <2>2. QED
    BY <1>1, <2>1, OneMoves, Weights
<1>4. Cardinality(JobsMay') = Cardinality(JobsMay) + May(work'[w]) - May(work[w])
  <2>1. /\ JobsMay \in SUBSET Workers /\ JobsMay' \in SUBSET Workers
        /\ w \in JobsMay <=> May(work[w]) = 1
        /\ w \in JobsMay' <=> May(work'[w]) = 1
        /\ \A y \in Workers \ {w} : y \in JobsMay <=> y \in JobsMay'
    BY DEF JobsMay, OthersWork
  <2>2. QED
    BY <1>1, <2>1, OneMoves, Weights
<1>5. QED
  BY <1>2, <1>3, <1>4

LEMMA SequencesAreFinite ==
  ASSUME NEW S, NEW q \in Seq(S)
  PROVE  IsFiniteSet(DOMAIN q)
<1>1. DOMAIN q = 1 .. Len(q) /\ Len(q) \in Nat
  OBVIOUS
<1>2. QED
  BY <1>1, FS_Interval

\* What becomes of one answer moves the number of correct ones by one at most, and
\* of those to be judged again.
LEMMA CorrectCounts ==
  ASSUME IInv, IInv', NEW s \in DOMAIN subs', DOMAIN subs \subseteq DOMAIN subs',
         \A t \in DOMAIN subs' \ {s} : t \in DOMAIN subs /\ subs'[t] = subs[t]
  PROVE  Cardinality(Correct') = Cardinality(Correct)
           + (IF s \in Correct' THEN 1 ELSE 0) - (IF s \in Correct THEN 1 ELSE 0)
<1>1. IsFiniteSet(DOMAIN subs')
  BY SequencesAreFinite DEF IInv, Rows
<1>2. /\ Correct \in SUBSET DOMAIN subs' /\ Correct' \in SUBSET DOMAIN subs'
      /\ \A t \in DOMAIN subs' \ {s} : t \in Correct <=> t \in Correct'
  BY DEF Correct
<1>3. /\ Cardinality(Correct) \in Nat /\ Cardinality(Correct') \in Nat
      /\ (s \in Correct <=> s \in Correct') => Cardinality(Correct') = Cardinality(Correct)
      /\ s \in Correct /\ s \notin Correct' => Cardinality(Correct') = Cardinality(Correct) - 1
      /\ s \notin Correct /\ s \in Correct' => Cardinality(Correct') = Cardinality(Correct) + 1
  BY <1>1, <1>2, OneMoves
<1>4. QED
  BY <1>3

LEMMA AgainCounts ==
  ASSUME IInv, IInv', NEW s \in DOMAIN subs', DOMAIN subs \subseteq DOMAIN subs',
         \A t \in DOMAIN subs' \ {s} : t \in Again <=> t \in Again'
  PROVE  Cardinality(Again') = Cardinality(Again)
           + (IF s \in Again' THEN 1 ELSE 0) - (IF s \in Again THEN 1 ELSE 0)
<1>1. IsFiniteSet(DOMAIN subs')
  BY SequencesAreFinite DEF IInv, Rows
<1>2. Again \in SUBSET DOMAIN subs' /\ Again' \in SUBSET DOMAIN subs'
  BY DEF Again, Correct
<1>3. /\ Cardinality(Again) \in Nat /\ Cardinality(Again') \in Nat
      /\ (s \in Again <=> s \in Again') => Cardinality(Again') = Cardinality(Again)
      /\ s \in Again /\ s \notin Again' => Cardinality(Again') = Cardinality(Again) - 1
      /\ s \notin Again /\ s \in Again' => Cardinality(Again') = Cardinality(Again) + 1
  BY <1>1, <1>2, OneMoves
<1>4. QED
  BY <1>3

-----------------------------------------------------------------------------
(* Steps of requests.                                                      *)

LEMMA SlotBecomes ==
  ASSUME IInv, NEW r \in Requests, NEW q, Become(r, q)
  PROVE  OthersWait(r) /\ req'[r] = q
BY DEF IInv, Slots, Become, OthersWait

LEMMA SlotGoes ==
  ASSUME IInv, NEW r \in Requests, NEW step, Goto(r, step)
  PROVE  /\ OthersWait(r)
         /\ req'[r].step = step /\ req'[r].sub = req[r].sub /\ req'[r].static = req[r].static
<1>1. req[r] \in RequestType /\ req \in [Requests -> RequestType]
  BY DEF IInv, Slots
<1>2. req' = [req EXCEPT ![r].step = step]
  BY DEF Goto
<1>3. OthersWait(r)
  BY <1>1, <1>2 DEF OthersWait
<1>4. req'[r] = [req[r] EXCEPT !.step = step]
  BY <1>1, <1>2
<1>5. QED
  BY <1>1, <1>3, <1>4 DEF RequestType

\* A request that does not take up an answer leaves every answer in its place.
LEMMA JudgesStay ==
  ASSUME OneJudge, NEW r \in Requests, OthersWait(r), UNCHANGED <<answerVars, work>>,
         req'[r].step \in Deciding =>
           req[r].step \in Deciding /\ req'[r].sub = req[r].sub /\ req'[r].static = req[r].static
  PROVE  OneJudge'
BY DEF OneJudge, OthersWait, answerVars, Works

LEMMA AgainStays ==
  ASSUME UNCHANGED <<answerVars, work>>
  PROVE  Again' = Again
BY DEF Again, Correct, Waiting, answerVars

\* Steps with no part in the balance, among them all deaths of requests.
LEMMA QuietRequest ==
  ASSUME CInv, NEW r \in Requests, OthersWait(r),
         req'[r].step \notin Deciding \union CreditSteps \union RecordSteps,
         UNCHANGED <<answerVars, work, solved, records, stalls>>,
         attempted' \in {attempted, attempted + 1},
         \/ crashes' = crashes /\ req[r].step \notin CreditSteps \union RecordSteps
         \/ crashes' = crashes + 1
  PROVE  Balance'
<1>1. OneJudge /\ Covered /\ Balanced /\ IInv
  BY DEF CInv, Balance
<1>2. OneJudge'
  BY <1>1, JudgesStay
<1>3. /\ JobsCrediting' = JobsCrediting /\ JobsRecording' = JobsRecording
      /\ JobsMay' = JobsMay /\ Correct' = Correct /\ Again' = Again
  BY AgainStays DEF JobsCrediting, JobsRecording, JobsMay, Correct, answerVars
<1>4. Covered'
  <2>1. Owes(req'[r]) = 0
    BY DEF Owes, Deciding
  <2>2. Cardinality(Counted') \in Int /\ Cardinality(Counted') <= Cardinality(Counted)
    BY <1>1, <2>1, CountsAreNat, RequestCounts, Weights
  <2>3. Uncovered' \in {Uncovered, Uncovered + 1}
    <3>1. solved' = solved /\ Len(queue') = Len(queue)
      BY DEF answerVars
    <3>2. solved \in Nat /\ attempted \in Nat /\ stalls \in Nat /\ Len(queue) \in Nat
      BY <1>1 DEF IInv, Rows
    <3>3. QED
      BY <3>1, <3>2 DEF Uncovered
  <2>4. QED
    BY <1>1, <1>3, <2>2, <2>3, CountsAreNat DEF Covered
<1>5. Balanced'
  <2> DEFINE c == Credits(req[r])
             e == Records(req[r])
  <2>1. c \in {0, 1} /\ e \in {0, 1}
    BY Weights
  <2>2. /\ Cardinality(Crediting') = Cardinality(Crediting) - c
        /\ Cardinality(Recording') = Cardinality(Recording) - e
    <3>1. Credits(req'[r]) = 0 /\ Records(req'[r]) = 0
      BY DEF Credits, Records
    <3>2. QED
      BY <1>1, <2>1, <3>1, CountsAreNat, RequestCounts
  <2>3. crashes' = crashes => c = 0 /\ e = 0
    BY <1>1, CountsAreNat DEF Credits, Records
  <2> HIDE DEF c, e
  <2>4. Uncredited' = Uncredited /\ Unrecorded' = Unrecorded
    BY <1>3 DEF Uncredited, Unrecorded
  <2>5. LostCredits' = LostCredits + c /\ LostRecords' = LostRecords + e
    BY <1>1, <1>3, <2>1, <2>2, <2>4, CountsAreNat DEF LostCredits, LostRecords
  <2>6. crashes' \in {crashes, crashes + 1}
    OBVIOUS
  <2>7. QED
    BY <1>1, <1>3, <2>1, <2>3, <2>5, <2>6, CountsAreNat DEF Balanced
<1>6. QED
  BY <1>2, <1>4, <1>5 DEF Balance

LEMMA QuietSteps ==
  ASSUME CInv, NEW r \in Requests,
         \/ Poll(r) \/ (\E n \in DOMAIN rounds : SubmitLoad(r, n) \/ SkipLoad(r, n))
         \/ CreateClash(r) \/ WaitSees(r) \/ WaitTimesOut(r) \/ SkipRound(r) \/ CountSkip(r)
         \/ NotYetExpired(r) \/ ExpireSession(r) \/ Look(r) \/ Extend(r)
         \/ CompleteSession(r) \/ InsertRound(r) \/ Crash(r)
  PROVE  Balance'
<1> DEFINE Quiet == {"idle", "create", "expiry", "skip", "skipped", "look", "extend",
                     "complete", "insert"}
<1>1. IInv
  BY DEF CInv
<1>2. \A n : Progressing(n).step \in Quiet
  BY DEF Progressing, Idle
<1>3. Idle.step \in Quiet
  BY DEF Idle
<1>4. ASSUME NEW step \in Quiet
      PROVE  step \notin Deciding \union CreditSteps \union RecordSteps
  BY DEF Deciding, CreditSteps, RecordSteps
<1>5. OthersWait(r) /\ req'[r].step \in Quiet
  <2>1. CASE Poll(r) \/ CreateClash(r) \/ WaitSees(r) \/ WaitTimesOut(r) \/ CountSkip(r)
             \/ CompleteSession(r) \/ InsertRound(r) \/ Crash(r)
    BY <1>1, <1>2, <1>3, <2>1, SlotBecomes
       DEF Poll, CreateClash, WaitSees, WaitTimesOut, CountSkip, CompleteSession,
           InsertRound, Crash
  <2>2. CASE SkipRound(r) \/ NotYetExpired(r) \/ ExpireSession(r)
    BY <1>1, <2>2, SlotGoes DEF SkipRound, NotYetExpired, ExpireSession, AfterExpiry
  <2>3. ASSUME NEW n \in DOMAIN rounds, SubmitLoad(r, n) \/ SkipLoad(r, n)
        PROVE  OthersWait(r) /\ req'[r].step \in Quiet
    <3>1. CASE SubmitLoad(r, n)
      <4>1. Become(r, [Idle EXCEPT !.step = "create", !.round = n, !.seen = Attempts(n)])
        BY <3>1 DEF SubmitLoad
      <4>2. [Idle EXCEPT !.step = "create", !.round = n, !.seen = Attempts(n)].step = "create"
        BY DEF Idle
      <4>3. QED
        BY <1>1, <4>1, <4>2, SlotBecomes
    <3>2. CASE SkipLoad(r, n)
      <4>1. Become(r, [Progressing(1) EXCEPT !.round = n, !.skip = TRUE])
        BY <3>2 DEF SkipLoad
      <4>2. [Progressing(1) EXCEPT !.round = n, !.skip = TRUE].step \in Quiet
        BY DEF Progressing, Idle
      <4>3. QED
        BY <1>1, <4>1, <4>2, SlotBecomes
    <3>3. QED
      BY <2>3, <3>1, <3>2
  <2>4. CASE Look(r)
    <3>1. PICK q : Become(r, q) /\ q.step \in Quiet
      <4>1. CASE ~(status = "ACTIVE" /\ LastDone)
        BY <1>2, <2>4, <4>1 DEF Look, LookWith
      <4>2. CASE status = "ACTIVE" /\ LastDone
        <5> DEFINE q == [req[r] EXCEPT
                           !.seen = Len(rounds), !.list = listed,
                           !.step = IF Len(rounds) < listed THEN "insert"
                                    ELSE IF Mode = "PRACTICE" THEN "extend" ELSE "complete"]
        <5>1. Become(r, q)
          BY <2>4, <4>2 DEF Look, LookWith
        <5>2. q.step \in Quiet
          BY <1>1, SlotFacts DEF RequestType
        <5>3. QED
          BY <5>1, <5>2
      <4>3. QED
        BY <4>1, <4>2
    <3>2. QED
      BY <1>1, <3>1, SlotBecomes
  <2>5. CASE Extend(r)
    <3> DEFINE longer == req[r].list + CycleLength
               q == [req[r] EXCEPT !.list = longer,
                       !.step = IF req[r].seen < longer THEN "insert" ELSE "complete"]
    <3>1. Become(r, q)
      BY <2>5 DEF Extend
    <3>2. q.step \in Quiet
      BY <1>1, SlotFacts DEF RequestType
    <3>3. QED
      BY <1>1, <3>1, <3>2, SlotBecomes
  <2>6. QED
    BY <2>1, <2>2, <2>3, <2>4, <2>5
<1>6. UNCHANGED <<answerVars, work, solved, records, stalls>>
  BY DEF Poll, SubmitLoad, SkipLoad, CreateClash, WaitSees, WaitTimesOut, SkipRound, CountSkip,
         NotYetExpired, ExpireSession, Look, LookWith, Extend, CompleteSession, InsertRound,
         Crash, scoreVars, answerVars, bounds
<1>7. attempted' \in {attempted, attempted + 1}
  BY DEF Poll, SubmitLoad, SkipLoad, CreateClash, WaitSees, WaitTimesOut, SkipRound, CountSkip,
         NotYetExpired, ExpireSession, Look, LookWith, Extend, CompleteSession, InsertRound,
         Crash, scoreVars
<1>8. \/ crashes' = crashes /\ req[r].step \notin CreditSteps \union RecordSteps
      \/ crashes' = crashes + 1
  <2>1. CASE Crash(r)
    BY <2>1 DEF Crash
  <2>2. CASE ~Crash(r)
    BY <2>2 DEF Poll, SubmitLoad, SkipLoad, CreateClash, WaitSees, WaitTimesOut, SkipRound,
                CountSkip, NotYetExpired, ExpireSession, Look, LookWith, Extend,
                CompleteSession, InsertRound, bounds, At, CreditSteps, RecordSteps
  <2>3. QED
    BY <2>1, <2>2
<1> HIDE DEF Quiet
<1>9. QED
  BY <1>4, <1>5, <1>6, <1>7, <1>8, QuietRequest

\* A request's step keeps the balance if the counters and tables move with what
\* the slot owes.
LEMMA RequestTally ==
  ASSUME CInv, NEW r \in Requests, OthersWait(r), UNCHANGED <<work, stalls, crashes>>,
         OneJudge', Again' = Again, Uncovered' \in Int,
         Uncovered + Owes(req'[r]) <= Uncovered' + Owes(req[r]),
         Uncredited' = Uncredited + Credits(req'[r]) - Credits(req[r]),
         Unrecorded' = Unrecorded + Records(req'[r]) - Records(req[r])
  PROVE  Balance'
<1>1. Covered /\ Balanced /\ IInv
  BY DEF CInv, Balance
<1>2. JobsCrediting' = JobsCrediting /\ JobsRecording' = JobsRecording /\ JobsMay' = JobsMay
  BY DEF JobsCrediting, JobsRecording, JobsMay
<1>3. /\ Owes(req[r]) \in {0, 1} /\ Owes(req'[r]) \in {0, 1}
      /\ Credits(req[r]) \in {0, 1} /\ Credits(req'[r]) \in {0, 1}
      /\ Records(req[r]) \in {0, 1} /\ Records(req'[r]) \in {0, 1}
  BY Weights
<1>4. Covered'
  <2>1. Cardinality(Counted') = Cardinality(Counted) + Owes(req'[r]) - Owes(req[r])
    BY RequestCounts
  <2>2. Cardinality(Counted') \in Int
    BY <1>1, <1>3, <2>1, CountsAreNat
  <2>3. QED
    BY <1>1, <1>2, <1>3, <2>1, <2>2, CountsAreNat DEF Covered
<1>5. LostCredits' = LostCredits /\ LostRecords' = LostRecords
  <2>1. /\ Cardinality(Crediting') = Cardinality(Crediting) + Credits(req'[r]) - Credits(req[r])
        /\ Cardinality(Recording') = Cardinality(Recording) + Records(req'[r]) - Records(req[r])
    BY RequestCounts
  <2>2. QED
    BY <1>1, <1>2, <1>3, <2>1, CountsAreNat DEF LostCredits, LostRecords
<1>6. Balanced'
  BY <1>1, <1>5 DEF Balanced
<1>7. QED
  BY <1>4, <1>6 DEF Balance

\* A job's step may judge a correct answer once more (d = 1): the credit it had, or
\* was to have, then stands for the new verdict.
LEMMA JobTally ==
  ASSUME CInv, NEW w \in Workers, OthersWork(w), UNCHANGED <<req, stalls, crashes>>,
         OneJudge', NEW d \in {0, 1},
         Cardinality(Again') = Cardinality(Again) - d, Uncovered' \in Int,
         Uncovered + May(work'[w]) <= Uncovered' + May(work[w]),
         Uncredited' = Uncredited + Credits(work'[w]) - Credits(work[w]) - d,
         Unrecorded' = Unrecorded + Records(work'[w]) - Records(work[w])
  PROVE  Balance'
<1>1. Covered /\ Balanced /\ IInv
  BY DEF CInv, Balance
<1>2. Crediting' = Crediting /\ Recording' = Recording /\ Counted' = Counted
  BY DEF Crediting, Recording, Counted
<1>3. /\ Credits(work[w]) \in {0, 1} /\ Credits(work'[w]) \in {0, 1}
      /\ Records(work[w]) \in {0, 1} /\ Records(work'[w]) \in {0, 1}
      /\ May(work[w]) \in {0, 1} /\ May(work'[w]) \in {0, 1}
  BY Weights
<1>4. /\ Cardinality(JobsCrediting') = Cardinality(JobsCrediting)
           + Credits(work'[w]) - Credits(work[w])
      /\ Cardinality(JobsRecording') = Cardinality(JobsRecording)
           + Records(work'[w]) - Records(work[w])
      /\ Cardinality(JobsMay') = Cardinality(JobsMay) + May(work'[w]) - May(work[w])
  BY JobCounts
<1>5. Covered'
  <2>1. Cardinality(JobsMay') \in Int
    BY <1>1, <1>3, <1>4, CountsAreNat
  <2>2. QED
    BY <1>1, <1>2, <1>3, <1>4, <2>1, CountsAreNat DEF Covered
<1>6. LostCredits' = LostCredits - d /\ LostRecords' = LostRecords
  BY <1>1, <1>2, <1>3, <1>4, CountsAreNat DEF LostCredits, LostRecords
<1>7. Balanced'
  BY <1>1, <1>6, CountsAreNat DEF Balanced
<1>8. QED
  BY <1>5, <1>7 DEF Balance

\* The counters after a step, from what it changes.
LEMMA CountersMove ==
  ASSUME IInv
  PROVE  /\ UNCHANGED <<attempted, solved, queue, stalls>> => Uncovered' = Uncovered
         /\ UNCHANGED <<subs, solved>> => Uncredited' = Uncredited
         /\ UNCHANGED <<solved, records>> => Unrecorded' = Unrecorded
BY DEF Uncovered, Uncredited, Unrecorded, Correct

\* A correct answer at its creation is owed a credit at once.
LEMMA CreateBalances ==
  ASSUME CInv, IInv', NEW r \in Requests, Create(r)
  PROVE  Balance'
<1>1. PICK correct \in BOOLEAN :
        /\ subs' = Append(subs, [round |-> req[r].round, judged |-> FALSE,
                                 verdict |-> IF correct THEN "CORRECT" ELSE "INCORRECT"])
        /\ Become(r, [req[r] EXCEPT !.step = IF correct THEN "resolve" ELSE "attempt",
                                    !.static = correct, !.sub = Len(subs) + 1])
  BY DEF Create
<1>2. /\ IInv /\ req[r].step = "create" /\ req[r] \in RequestType
      /\ UNCHANGED <<attempted, solved, records, queue, work, stalls, crashes>>
  BY SlotFacts DEF CInv, Create, At, scoreVars, bounds
<1>3. /\ OthersWait(r) /\ req'[r].step = IF correct THEN "resolve" ELSE "attempt"
      /\ req'[r].static = correct /\ req'[r].sub = Len(subs) + 1
  <2> DEFINE q == [req[r] EXCEPT !.step = IF correct THEN "resolve" ELSE "attempt",
                                 !.static = correct, !.sub = Len(subs) + 1]
  <2>1. /\ q.step = IF correct THEN "resolve" ELSE "attempt"
        /\ q.static = correct /\ q.sub = Len(subs) + 1
    BY <1>2 DEF RequestType
  <2>2. Become(r, q)
    BY <1>1
  <2> HIDE DEF q
  <2>3. QED
    BY <1>2, <2>1, <2>2, SlotBecomes
<1>4. /\ Len(subs) \in Nat /\ DOMAIN subs = 1 .. Len(subs)
      /\ DOMAIN subs' = 1 .. (Len(subs) + 1)
      /\ \A i \in DOMAIN subs : subs'[i] = subs[i]
      /\ subs'[Len(subs) + 1].verdict = IF correct THEN "CORRECT" ELSE "INCORRECT"
  BY <1>1, <1>2, SlotFacts
<1>5. /\ \A q \in Requests : req[q].step \in Deciding => req[q].sub \in DOMAIN subs
      /\ \A i \in DOMAIN queue : queue[i] \in DOMAIN subs
      /\ \A w \in Workers : Works(w) => work[w].sub \in DOMAIN subs
      /\ Len(subs) + 1 \notin DOMAIN subs
  <2>1. \A q \in Requests : req[q].step \in Deciding => req[q].sub \in DOMAIN subs
    BY <1>2 DEF IInv, Slots, SlotOK, SlotIn, Deciding, AnswerSteps
  <2>2. \A i \in DOMAIN queue : queue[i] \in DOMAIN subs
    BY <1>2 DEF IInv, Rows
  <2>3. \A w \in Workers : Works(w) => work[w].sub \in DOMAIN subs
    BY <1>2 DEF IInv, Jobs, JobOK, JobIn, Works
  <2>4. QED
    BY <1>4, <2>1, <2>2, <2>3
<1>6. OneJudge'
  <2>1. OneJudge
    BY DEF CInv, Balance
  <2>2. req'[r].step \in Deciding =>
          ~req'[r].static /\ subs'[req'[r].sub].verdict = "INCORRECT"
    BY <1>3, <1>4 DEF Deciding
  <2>3. \A q \in Requests : req'[q].step \in Deciding =>
          ~req'[q].static /\ subs'[req'[q].sub].verdict = "INCORRECT"
    BY <1>3, <1>4, <1>5, <2>1, <2>2 DEF OneJudge, OthersWait
  <2>4. \A p, q \in Requests :
          req'[p].step \in Deciding /\ req'[q].step \in Deciding /\ p # q
            => req'[p].sub # req'[q].sub
    BY <1>3, <1>5, <2>1 DEF OneJudge, OthersWait
  <2>5. \A q \in Requests : \A i \in DOMAIN queue' :
          req'[q].step \in Deciding => queue'[i] # req'[q].sub
    BY <1>2, <1>3, <1>5, <2>1 DEF OneJudge, OthersWait
  <2>6. \A q \in Requests : \A w \in Workers :
          req'[q].step \in Deciding /\ Works(w)' => work'[w].sub # req'[q].sub
    BY <1>2, <1>3, <1>5, <2>1 DEF OneJudge, OthersWait, Works
  <2>7. QED
    BY <1>2, <2>1, <2>3, <2>4, <2>5, <2>6 DEF OneJudge, Works
<1>7. /\ Owes(req[r]) = 0 /\ Credits(req[r]) = 0 /\ Records(req[r]) = 0
      /\ Owes(req'[r]) = 0 /\ Records(req'[r]) = 0
      /\ Credits(req'[r]) = IF correct THEN 1 ELSE 0
  BY <1>2, <1>3 DEF Owes, Credits, Records, CreditSteps, RecordSteps
<1>8. Uncredited' = Uncredited + (IF correct THEN 1 ELSE 0)
  <2>1. Len(subs) + 1 \notin Correct /\ (Len(subs) + 1 \in Correct' <=> correct)
    BY <1>4 DEF Correct
  <2>2. \A t \in DOMAIN subs' \ {Len(subs) + 1} : t \in DOMAIN subs /\ subs'[t] = subs[t]
    BY <1>4
  <2>3. DOMAIN subs \subseteq DOMAIN subs' /\ Len(subs) + 1 \in DOMAIN subs'
    BY <1>4
  <2>4. Cardinality(Correct') = Cardinality(Correct)
          + (IF Len(subs) + 1 \in Correct' THEN 1 ELSE 0)
          - (IF Len(subs) + 1 \in Correct THEN 1 ELSE 0)
    BY <1>2, <2>2, <2>3, CorrectCounts
  <2>5. solved \in Nat /\ Cardinality(Correct) \in Nat
    BY <1>2, CountsAreNat DEF IInv, Rows
  <2>6. QED
    BY <1>2, <2>1, <2>4, <2>5 DEF Uncredited
<1>9. Again' = Again
  <2>1. \A t : Waiting(t)' <=> Waiting(t)
    BY <1>2 DEF Waiting
  <2>2. \A t : Waiting(t) => t \in DOMAIN subs
    BY <1>5 DEF Waiting, Works
  <2>3. \A t \in DOMAIN subs : t \in Correct' <=> t \in Correct
    BY <1>4 DEF Correct
  <2>4. QED
    BY <2>1, <2>2, <2>3 DEF Again, Correct
<1>10. Uncovered' = Uncovered /\ Unrecorded' = Unrecorded
  BY <1>2, CountersMove
<1>11. Uncovered \in Int /\ Uncredited \in Int /\ Unrecorded \in Int
  BY <1>2, CountsAreNat
<1>12. QED
  BY <1>2, <1>3, <1>6, <1>7, <1>8, <1>9, <1>10, <1>11, RequestTally

\* The attempt is counted before the answer can be credited or queued.
LEMMA CountAttemptBalances ==
  ASSUME CInv, NEW r \in Requests, CountAttempt(r)
  PROVE  Balance'
<1>1. /\ IInv /\ req[r].step = "attempt"
      /\ attempted' = attempted + 1
      /\ UNCHANGED <<solved, records, subs, queue, work, stalls, crashes>>
  BY DEF CInv, CountAttempt, At, answerVars, bounds
<1>2. /\ OthersWait(r) /\ req'[r].step = "direct"
      /\ req'[r].sub = req[r].sub /\ req'[r].static = req[r].static
  BY <1>1, SlotGoes DEF CountAttempt
<1>3. OneJudge' /\ Again' = Again
  BY <1>1, <1>2, JudgesStay, AgainStays DEF CInv, Balance, Deciding, answerVars
<1>4. /\ Owes(req[r]) = 0 /\ Credits(req[r]) = 0 /\ Records(req[r]) = 0
      /\ Owes(req'[r]) \in {0, 1} /\ Records(req'[r]) = 0 /\ Credits(req'[r]) = 0
  BY <1>1, <1>2 DEF Owes, Credits, Records, CreditSteps, RecordSteps
<1>5. Uncovered' = Uncovered + 1
  <2>1. solved \in Nat /\ attempted \in Nat /\ stalls \in Nat /\ Len(queue) \in Nat
    BY <1>1 DEF IInv, Rows
  <2>2. Len(queue') = Len(queue)
    BY <1>1
  <2>3. QED
    BY <1>1, <2>1, <2>2 DEF Uncovered
<1>6. Uncredited' = Uncredited /\ Unrecorded' = Unrecorded
  BY <1>1, CountersMove
<1>7. Uncovered \in Int /\ Uncredited \in Int /\ Unrecorded \in Int
  BY <1>1, CountsAreNat
<1>8. QED
  BY <1>1, <1>2, <1>3, <1>4, <1>5, <1>6, <1>7, RequestTally

\* What a verdict does to its answer, and to the credits that are owed.
LEMMA Verdict ==
  ASSUME IInv, IInv', NEW s \in DOMAIN subs,
         NEW j \in Judgements, subs' = JudgedAs(s, j), solved' = solved
  PROVE  /\ DOMAIN subs' = DOMAIN subs /\ \A t \in DOMAIN subs \ {s} : subs'[t] = subs[t]
         /\ s \in Correct' <=> j.verdict = "CORRECT"
         /\ Uncredited' = Uncredited + (IF j.verdict = "CORRECT" THEN 1 ELSE 0)
                                    - (IF s \in Correct THEN 1 ELSE 0)
<1>1. subs \in Seq(AnswerType)
  BY DEF IInv, Rows
<1>2. DOMAIN subs' = DOMAIN subs /\ \A t \in DOMAIN subs \ {s} : subs'[t] = subs[t]
  BY <1>1 DEF JudgedAs
<1>3. subs'[s].verdict = j.verdict
  <2>1. subs[s] \in AnswerType
    BY <1>1
  <2>2. subs'[s] = [subs[s] EXCEPT !.verdict = j.verdict, !.judged = @ \/ j.judged]
    BY <1>1, <2>1 DEF JudgedAs, AnswerType
  <2>3. QED
    BY <2>1, <2>2 DEF AnswerType
<1>4. s \in Correct' <=> j.verdict = "CORRECT"
  BY <1>2, <1>3 DEF Correct
<1>5. Cardinality(Correct') = Cardinality(Correct)
        + (IF j.verdict = "CORRECT" THEN 1 ELSE 0) - (IF s \in Correct THEN 1 ELSE 0)
  BY <1>2, <1>4, CorrectCounts
<1>6. solved \in Nat /\ Cardinality(Correct) \in Nat
  BY CountsAreNat DEF IInv, Rows
<1>7. QED
  BY <1>2, <1>4, <1>5, <1>6 DEF Uncredited

LEMMA DirectJudgedBalances ==
  ASSUME CInv, IInv', NEW r \in Requests, DirectJudged(r)
  PROVE  Balance'
<1> DEFINE credited(j) == IF j.verdict = "CORRECT" THEN 1 ELSE 0
<1>1. PICK j \in Judgements :
        /\ subs' = JudgedAs(req[r].sub, j)
        /\ IF j.verdict = "CORRECT" THEN Goto(r, "resolve") ELSE Become(r, Idle)
  BY DEF DirectJudged
<1>2. /\ IInv /\ req[r].step = "direct" /\ req[r].sub \in DOMAIN subs
      /\ UNCHANGED <<attempted, solved, records, queue, work, stalls, crashes>>
  BY SlotFacts DEF CInv, DirectJudged, At, SlotOK, SlotIn, AnswerSteps, scoreVars, bounds
<1>3. /\ OthersWait(r)
      /\ req'[r].step = IF j.verdict = "CORRECT" THEN "resolve" ELSE "idle"
      /\ j.verdict = "CORRECT" => req'[r].static = req[r].static
  BY <1>1, <1>2, SlotGoes, SlotBecomes DEF Idle
<1>4. /\ OneJudge /\ subs[req[r].sub].verdict = "INCORRECT" /\ req'[r].step \notin Deciding
      /\ req[r].step \in Deciding
  BY <1>2, <1>3 DEF CInv, Balance, OneJudge, Deciding
<1>5. /\ DOMAIN subs' = DOMAIN subs /\ \A t \in DOMAIN subs \ {req[r].sub} : subs'[t] = subs[t]
      /\ Uncredited' = Uncredited + credited(j)
  <2>1. req[r].sub \notin Correct
    BY <1>4 DEF Correct
  <2>2. /\ DOMAIN subs' = DOMAIN subs
        /\ \A t \in DOMAIN subs \ {req[r].sub} : subs'[t] = subs[t]
        /\ Uncredited' = Uncredited + (IF j.verdict = "CORRECT" THEN 1 ELSE 0)
                          - (IF req[r].sub \in Correct THEN 1 ELSE 0)
    BY <1>1, <1>2, Verdict
  <2>3. Uncredited \in Int
    BY <1>2, CountsAreNat
  <2>4. QED
    BY <2>1, <2>2, <2>3
<1>6. OneJudge'
  <2>1. \A q \in Requests \ {r} : req[q].step \in Deciding =>
          req[q].sub \in DOMAIN subs \ {req[r].sub}
    BY <1>2, <1>4 DEF OneJudge, IInv, Slots, SlotOK, SlotIn, Deciding, AnswerSteps
  <2>2. \A q \in Requests : req'[q].step \in Deciding =>
          ~req'[q].static /\ subs'[req'[q].sub].verdict = "INCORRECT"
    BY <1>3, <1>4, <1>5, <2>1 DEF OneJudge, OthersWait
  <2>3. QED
    BY <1>2, <1>3, <1>4, <2>2 DEF OneJudge, OthersWait, Works
<1>7. Again' = Again
  <2>1. \A t : Waiting(t)' <=> Waiting(t)
    BY <1>2 DEF Waiting
  <2>2. ~Waiting(req[r].sub)
    BY <1>4 DEF Waiting, OneJudge, Works
  <2>3. \A t \in DOMAIN subs \ {req[r].sub} : t \in Correct' <=> t \in Correct
    BY <1>5 DEF Correct
  <2>4. QED
    BY <1>5, <2>1, <2>2, <2>3 DEF Again, Correct
<1>8. /\ Owes(req'[r]) <= Owes(req[r]) /\ Owes(req'[r]) \in Nat /\ Owes(req[r]) \in Nat
      /\ Credits(req[r]) = 0 /\ Records(req[r]) = 0
      /\ Records(req'[r]) = 0 /\ Credits(req'[r]) = credited(j)
  BY <1>2, <1>3 DEF Owes, Credits, Records, CreditSteps, RecordSteps
<1>9. Uncovered' = Uncovered /\ Unrecorded' = Unrecorded
  BY <1>2, CountersMove
<1>10. Uncovered \in Int /\ Uncredited \in Int /\ Unrecorded \in Int /\ credited(j) \in Int
  BY <1>2, CountsAreNat
<1> HIDE DEF credited
<1>11. QED
  BY <1>2, <1>3, <1>5, <1>6, <1>7, <1>8, <1>9, <1>10, RequestTally

\* The answer goes from the request to the queue, and is owed there.
LEMMA EnqueueBalances ==
  ASSUME CInv, NEW r \in Requests, Enqueue(r)
  PROVE  Balance'
<1>1. /\ IInv /\ req[r].step = "direct" /\ req[r].sub \in DOMAIN subs
      /\ queue' = Append(queue, req[r].sub)
      /\ UNCHANGED <<attempted, solved, records, subs, work, stalls, crashes>>
  BY SlotFacts DEF CInv, Enqueue, At, SlotOK, SlotIn, AnswerSteps, scoreVars, bounds
<1>2. OthersWait(r) /\ req'[r].step = "wait"
  BY <1>1, SlotGoes DEF Enqueue
<1>3. /\ Len(queue) \in Nat /\ DOMAIN queue = 1 .. Len(queue)
      /\ Len(queue') = Len(queue) + 1 /\ DOMAIN queue' = 1 .. (Len(queue) + 1)
      /\ queue'[Len(queue) + 1] = req[r].sub
      /\ \A i \in DOMAIN queue : queue'[i] = queue[i]
  <2>1. queue \in Seq(DOMAIN subs)
    BY <1>1 DEF IInv, Rows
  <2>2. QED
    BY <1>1, <2>1
<1>4. /\ OneJudge /\ ~req[r].static /\ subs[req[r].sub].verdict = "INCORRECT"
      /\ req[r].step \in Deciding /\ req'[r].step \notin Deciding
  BY <1>1, <1>2 DEF CInv, Balance, OneJudge, Deciding
<1>5. OneJudge'
  <2>1. \A i, j \in DOMAIN queue' : i # j => queue'[i] # queue'[j]
    BY <1>3, <1>4 DEF OneJudge
  <2>2. \A q \in Requests : \A i \in DOMAIN queue' :
          req'[q].step \in Deciding => queue'[i] # req'[q].sub
    BY <1>2, <1>3, <1>4 DEF OneJudge, OthersWait
  <2>3. \A w \in Workers : \A i \in DOMAIN queue' : Works(w)' => queue'[i] # work'[w].sub
    BY <1>1, <1>3, <1>4 DEF OneJudge, Works
  <2>4. QED
    BY <1>1, <1>2, <1>4, <2>1, <2>2, <2>3 DEF OneJudge, OthersWait, Works
<1>6. Again' = Again
  <2>1. \A t : Waiting(t)' <=> Waiting(t) \/ t = req[r].sub
    BY <1>1, <1>3 DEF Waiting
  <2>2. req[r].sub \notin Correct /\ Correct' = Correct
    BY <1>1, <1>4 DEF Correct
  <2>3. QED
    BY <2>1, <2>2 DEF Again
<1>7. /\ Owes(req[r]) = 1 /\ Credits(req[r]) = 0 /\ Records(req[r]) = 0
      /\ Owes(req'[r]) = 0 /\ Records(req'[r]) = 0 /\ Credits(req'[r]) = 0
  BY <1>1, <1>2, <1>4 DEF Owes, Credits, Records, CreditSteps, RecordSteps
<1>8. Uncovered' = Uncovered - 1
  <2>1. solved \in Nat /\ attempted \in Nat /\ stalls \in Nat
    BY <1>1 DEF IInv, Rows
  <2>2. Len(queue) \in Nat /\ Len(queue') = Len(queue) + 1
    BY <1>3
  <2>3. UNCHANGED <<attempted, solved, stalls>>
    BY <1>1
  <2>4. QED
    BY <2>1, <2>2, <2>3 DEF Uncovered
<1>9. Uncredited' = Uncredited /\ Unrecorded' = Unrecorded
  BY <1>1, CountersMove
<1>10. Uncovered \in Int /\ Uncredited \in Int /\ Unrecorded \in Int
  BY <1>1, CountsAreNat
<1>11. QED
  BY <1>1, <1>2, <1>5, <1>6, <1>7, <1>8, <1>9, <1>10, RequestTally

\* Resolving the round, crediting the session and recording the score pass the
\* debt on, pay it, and write it down.
LEMMA AcceptBalances ==
  ASSUME CInv, NEW r \in Requests, ResolveRound(r) \/ CreditSession(r) \/ RecordScore(r)
  PROVE  Balance'
<1>1. /\ IInv /\ UNCHANGED <<subs, queue, work, stalls, crashes>>
      /\ solved \in Nat /\ attempted \in Nat /\ stalls \in Nat
      /\ Len(queue) \in Nat /\ Len(records) \in Nat
      /\ Cardinality(Correct) \in Nat
      /\ Uncovered \in Int /\ Uncredited \in Int /\ Unrecorded \in Int
  <2>1. IInv
    BY DEF CInv
  <2>2. /\ Cardinality(Correct) \in Nat
        /\ Uncovered \in Int /\ Uncredited \in Int /\ Unrecorded \in Int
    BY <2>1, CountsAreNat
  <2>3. /\ solved \in Nat /\ attempted \in Nat /\ stalls \in Nat
        /\ Len(queue) \in Nat /\ Len(records) \in Nat
    BY <2>1 DEF IInv, Rows
  <2>4. UNCHANGED <<subs, queue, work, stalls, crashes>>
    BY DEF ResolveRound, CreditSession, RecordScore, answerVars, bounds
  <2>5. QED
    BY <2>1, <2>2, <2>3, <2>4
<1>2. ASSUME OthersWait(r), req'[r].step \notin Deciding PROVE OneJudge' /\ Again' = Again
  BY <1>1, <1>2, JudgesStay, AgainStays DEF CInv, Balance, answerVars
<1>3. CASE ResolveRound(r)
  <2>1. /\ req[r].step = "resolve" /\ UNCHANGED <<attempted, solved, records>>
        /\ OthersWait(r) /\ req'[r].step = "credit" /\ req'[r].static = req[r].static
    BY <1>1, <1>3, SlotGoes DEF ResolveRound, At, scoreVars
  <2>2. /\ Owes(req'[r]) = Owes(req[r]) /\ Owes(req[r]) \in Int
        /\ Credits(req'[r]) = Credits(req[r]) /\ Credits(req[r]) \in Int
        /\ Records(req'[r]) = 0 /\ Records(req[r]) = 0
    BY <2>1 DEF Owes, Credits, Records, CreditSteps, RecordSteps
  <2>3. Uncovered' = Uncovered /\ Uncredited' = Uncredited /\ Unrecorded' = Unrecorded
    BY <1>1, <2>1, CountersMove
  <2>4. req'[r].step \notin Deciding
    BY <2>1 DEF Deciding
  <2>5. QED
    BY <1>1, <1>2, <2>1, <2>2, <2>3, <2>4, RequestTally
<1>4. CASE CreditSession(r)
  <2> DEFINE late == IF req[r].static THEN 1 ELSE 0
  <2>1. /\ req[r].step = "credit" /\ records' = records
        /\ solved' = solved + 1 /\ attempted' = attempted + late
        /\ OthersWait(r) /\ req'[r].step = "record"
    BY <1>1, <1>4, SlotGoes DEF CreditSession, At
  <2>2. /\ Owes(req'[r]) = 0 /\ Owes(req[r]) = 1 - late /\ late \in Int
        /\ Credits(req'[r]) = 0 /\ Credits(req[r]) = 1
        /\ Records(req'[r]) = 1 /\ Records(req[r]) = 0
    BY <2>1 DEF Owes, Credits, Records, CreditSteps, RecordSteps
  <2> HIDE DEF late
  <2>3. Uncovered' = Uncovered + late - 1
    BY <1>1, <2>1, <2>2 DEF Uncovered
  <2>4. Uncredited' = Uncredited - 1
    <3>1. Correct' = Correct
      BY <1>1 DEF Correct
    <3>2. QED
      BY <1>1, <2>1, <3>1 DEF Uncredited
  <2>5. Unrecorded' = Unrecorded + 1
    BY <1>1, <2>1 DEF Unrecorded
  <2>6. req'[r].step \notin Deciding
    BY <2>1 DEF Deciding
  <2>7. QED
    BY <1>1, <1>2, <2>1, <2>2, <2>3, <2>4, <2>5, <2>6, RequestTally
<1>5. CASE RecordScore(r)
  <2>1. /\ req[r].step = "record" /\ UNCHANGED <<attempted, solved>>
        /\ records' = Append(records, req[r].round)
        /\ Become(r, Progressing(2))
    BY <1>5 DEF RecordScore, At
  <2>2. OthersWait(r) /\ req'[r].step = "expiry"
    <3>1. Progressing(2).step = "expiry"
      BY DEF Progressing, Idle
    <3>2. QED
      BY <1>1, <2>1, <3>1, SlotBecomes
  <2>3. /\ Owes(req'[r]) = 0 /\ Owes(req[r]) = 0
        /\ Credits(req'[r]) = 0 /\ Credits(req[r]) = 0
        /\ Records(req'[r]) = 0 /\ Records(req[r]) = 1
    BY <2>1, <2>2 DEF Owes, Credits, Records, CreditSteps, RecordSteps
  <2>4. Uncovered' = Uncovered /\ Uncredited' = Uncredited
    BY <1>1, <2>1, CountersMove
  <2>5. Unrecorded' = Unrecorded - 1
    <3>1. Len(records') = Len(records) + 1
      <4>1. records \in Seq(DOMAIN rounds)
        BY <1>1 DEF IInv, Rows
      <4>2. req[r].round \in DOMAIN rounds
        BY <1>1, <2>1, SlotFacts DEF SlotOK, SlotIn, AnswerSteps
      <4>3. QED
        BY <2>1, <4>1, <4>2
    <3>2. QED
      BY <1>1, <2>1, <3>1 DEF Unrecorded
  <2>6. req'[r].step \notin Deciding
    BY <2>2 DEF Deciding
  <2>7. QED
    BY <1>1, <1>2, <2>2, <2>3, <2>4, <2>5, <2>6, RequestTally
<1>6. QED
  BY <1>3, <1>4, <1>5

-----------------------------------------------------------------------------
(* Steps of jobs.                                                          *)

LEMMA WorkerBecomes ==
  ASSUME IInv, NEW w \in Workers, NEW k, work' = [work EXCEPT ![w] = k]
  PROVE  OthersWork(w) /\ work'[w] = k
BY DEF IInv, Jobs, OthersWork

LEMMA WorkerRests ==
  ASSUME IInv, NEW w \in Workers, work' = [work EXCEPT ![w] = Resting]
  PROVE  OthersWork(w) /\ work'[w].step = "idle"
<1>1. OthersWork(w) /\ work'[w] = Resting
  BY WorkerBecomes
<1>2. QED
  BY <1>1 DEF Resting

LEMMA WorkerGoes ==
  ASSUME IInv, NEW w \in Workers, NEW step, Advance(w, step)
  PROVE  OthersWork(w) /\ work'[w].step = step /\ work'[w].sub = work[w].sub
<1>1. work \in [Workers -> [step : JobSteps, sub : Nat]]
  BY DEF IInv, Jobs
<1>2. QED
  BY <1>1 DEF Advance, OthersWork

\* A worker that keeps its answer, or gives it up, leaves every other in its place.
LEMMA JobsStay ==
  ASSUME OneJudge, NEW w \in Workers, OthersWork(w), UNCHANGED <<answerVars, req>>,
         Works(w)' => Works(w) /\ work'[w].sub = work[w].sub
  PROVE  OneJudge'
BY DEF OneJudge, OthersWork, answerVars, Works

\* An answer goes from the queue to the worker.
LEMMA TakeJobBalances ==
  ASSUME CInv, NEW w \in Workers, TakeJob(w)
  PROVE  Balance'
<1>1. /\ IInv /\ OneJudge /\ work[w].step = "idle" /\ queue # <<>> /\ queue' = Tail(queue)
      /\ UNCHANGED <<attempted, solved, records, subs, req, stalls, crashes>>
  BY DEF CInv, Balance, TakeJob, WorksAt, scoreVars, bounds
<1>2. OthersWork(w) /\ work'[w].step = "judge" /\ work'[w].sub = Head(queue)
  <2> DEFINE k == [step |-> "judge", sub |-> Head(queue)]
  <2>1. k.step = "judge" /\ k.sub = Head(queue) /\ work' = [work EXCEPT ![w] = k]
    BY DEF TakeJob
  <2> HIDE DEF k
  <2>2. QED
    BY <1>1, <2>1, WorkerBecomes
<1>3. /\ Head(queue) = queue[1] /\ Len(queue) \in Nat /\ 1 \in DOMAIN queue
      /\ Len(queue') = Len(queue) - 1
      /\ \A i \in DOMAIN queue' : i + 1 \in DOMAIN queue /\ queue'[i] = queue[i + 1] /\ i # 0
      /\ \A i \in DOMAIN queue : i = 1 \/ (i - 1 \in DOMAIN queue' /\ queue'[i - 1] = queue[i])
      /\ DOMAIN queue \subseteq Nat /\ DOMAIN queue' \subseteq Nat
  <2>1. queue \in Seq(DOMAIN subs)
    BY <1>1 DEF IInv, Rows
  <2>2. QED
    BY <1>1, <2>1
<1>4. OneJudge'
  <2>1. \A i, j \in DOMAIN queue' : i # j => queue'[i] # queue'[j]
    BY <1>1, <1>3 DEF OneJudge
  <2>2. \A q \in Requests : \A i \in DOMAIN queue' :
          req'[q].step \in Deciding => queue'[i] # req'[q].sub
    BY <1>1, <1>3 DEF OneJudge
  <2>3. \A i \in DOMAIN queue' : queue'[i] # queue[1]
    BY <1>1, <1>3 DEF OneJudge
  <2>4. \A v \in Workers : \A i \in DOMAIN queue' : Works(v)' => queue'[i] # work'[v].sub
    BY <1>1, <1>2, <1>3, <2>3 DEF OneJudge, OthersWork, Works
  <2>5. \A v, u \in Workers : Works(v)' /\ Works(u)' /\ v # u => work'[v].sub # work'[u].sub
    BY <1>1, <1>2, <1>3 DEF OneJudge, OthersWork, Works
  <2>6. \A q \in Requests : \A v \in Workers :
          req'[q].step \in Deciding /\ Works(v)' => work'[v].sub # req'[q].sub
    BY <1>1, <1>2, <1>3 DEF OneJudge, OthersWork, Works
  <2>7. QED
    BY <1>1, <2>1, <2>2, <2>4, <2>5, <2>6 DEF OneJudge
<1>5. Again' = Again
  <2>1. ASSUME NEW t, Waiting(t) PROVE Waiting(t)'
    <3>1. CASE t = queue[1]
      BY <1>2, <1>3, <3>1 DEF Waiting
    <3>2. ASSUME NEW i \in DOMAIN queue, queue[i] = t, i # 1 PROVE Waiting(t)'
      <4>1. i - 1 \in DOMAIN queue' /\ queue'[i - 1] = t
        BY <1>3, <3>2
      <4>2. QED
        BY <4>1 DEF Waiting
    <3>3. ASSUME NEW v \in Workers, work[v].step = "judge", work[v].sub = t
          PROVE  Waiting(t)'
      <4>1. v # w
        BY <1>1, <3>3
      <4>2. work'[v] = work[v]
        BY <1>2, <4>1 DEF OthersWork
      <4>3. QED
        BY <3>3, <4>2 DEF Waiting
    <3>4. QED
      BY <1>3, <2>1, <3>1, <3>2, <3>3 DEF Waiting
  <2>2. ASSUME NEW t, Waiting(t)' PROVE Waiting(t)
    BY <1>1, <1>2, <1>3, <2>2 DEF Waiting, OthersWork
  <2>3. QED
    BY <1>1, <2>1, <2>2 DEF Again, Correct
<1>6. /\ Credits(work[w]) = 0 /\ Records(work[w]) = 0 /\ May(work[w]) = 0
      /\ Credits(work'[w]) = 0 /\ Records(work'[w]) = 0 /\ May(work'[w]) = 1
  BY <1>1, <1>2 DEF Credits, Records, May, CreditSteps, RecordSteps
<1>7. Uncovered' = Uncovered + 1
  <2>1. solved \in Nat /\ attempted \in Nat /\ stalls \in Nat
    BY <1>1 DEF IInv, Rows
  <2>2. Len(queue) \in Nat /\ Len(queue') = Len(queue) - 1
    BY <1>3
  <2>3. UNCHANGED <<attempted, solved, stalls>>
    BY <1>1
  <2>4. QED
    BY <2>1, <2>2, <2>3 DEF Uncovered
<1>8. Uncredited' = Uncredited /\ Unrecorded' = Unrecorded
  BY <1>1, CountersMove
<1>9. /\ Uncovered \in Int /\ Uncredited \in Int /\ Unrecorded \in Int
      /\ Cardinality(Again) \in Nat
  BY <1>1, CountsAreNat
<1>10. Cardinality(Again') = Cardinality(Again) - 0
  BY <1>5, <1>9
<1>11. QED
  BY <1>1, <1>2, <1>4, <1>6, <1>7, <1>8, <1>9, <1>10, JobTally

\* A worker judges an answer that nobody else has.
LEMMA JudgeJobBalances ==
  ASSUME CInv, IInv', NEW w \in Workers, JudgeJob(w)
  PROVE  Balance'
<1> SUFFICES ASSUME NEW s, s = work[w].sub PROVE Balance'
  OBVIOUS
<1> DEFINE d == IF s \in Correct THEN 1 ELSE 0
           credited(j) == IF j.verdict = "CORRECT" THEN 1 ELSE 0
<1>1. PICK j \in Judgements :
        /\ subs' = JudgedAs(s, j)
        /\ work' = [work EXCEPT ![w] = IF j.verdict = "CORRECT"
                                       THEN [@ EXCEPT !.step = "resolve"] ELSE Resting]
  BY DEF JudgeJob
<1>2. /\ IInv /\ OneJudge /\ work[w].step = "judge" /\ Works(w) /\ s \in DOMAIN subs
      /\ UNCHANGED <<attempted, solved, records, queue, req, stalls, crashes>>
  BY JobFacts DEF CInv, Balance, JudgeJob, WorksAt, Works, scoreVars, bounds
<1>3. /\ OthersWork(w)
      /\ work'[w].step = IF j.verdict = "CORRECT" THEN "resolve" ELSE "idle"
      /\ j.verdict = "CORRECT" => work'[w].sub = s
  <2>1. CASE j.verdict = "CORRECT"
    <3>1. Advance(w, "resolve")
      BY <1>1, <2>1 DEF Advance
    <3>2. QED
      BY <1>2, <2>1, <3>1, WorkerGoes
  <2>2. CASE j.verdict # "CORRECT"
    BY <1>1, <1>2, <2>2, WorkerRests
  <2>3. QED
    BY <2>1, <2>2
<1>4. /\ DOMAIN subs' = DOMAIN subs /\ \A t \in DOMAIN subs \ {s} : subs'[t] = subs[t]
      /\ Uncredited' = Uncredited + credited(j) - d
  BY <1>1, <1>2, Verdict
<1>5. OneJudge'
  <2>1. \A q \in Requests : req[q].step \in Deciding => req[q].sub \in DOMAIN subs \ {s}
    BY <1>2 DEF OneJudge, IInv, Slots, SlotOK, SlotIn, Deciding, AnswerSteps
  <2>2. \A q \in Requests : req'[q].step \in Deciding =>
          ~req'[q].static /\ subs'[req'[q].sub].verdict = "INCORRECT"
    BY <1>2, <1>4, <2>1 DEF OneJudge
  <2>3. Works(w)' => work'[w].sub = s
    BY <1>3 DEF Works
  <2>4. QED
    BY <1>2, <1>3, <2>2, <2>3 DEF OneJudge, OthersWork, Works
<1>6. Cardinality(Again') = Cardinality(Again) - d
  <2>1. ~Waiting(s)'
    <3>1. \A v \in Workers \ {w} : Works(v) => work[v].sub # s
      BY <1>2 DEF OneJudge
    <3>2. \A i \in DOMAIN queue : queue[i] # s
      BY <1>2 DEF OneJudge
    <3>3. QED
      BY <1>2, <1>3, <3>1, <3>2 DEF Waiting, OthersWork, Works
  <2>2. \A t \in DOMAIN subs \ {s} : Waiting(t)' <=> Waiting(t)
    BY <1>2, <1>3 DEF Waiting, OthersWork
  <2>3. \A t \in DOMAIN subs \ {s} : t \in Again <=> t \in Again'
    BY <1>4, <2>2 DEF Again, Correct
  <2>4. Waiting(s)
    BY <1>2 DEF Waiting
  <2>5. s \notin Again' /\ (s \in Again <=> s \in Correct)
    BY <2>1, <2>4 DEF Again
  <2>6. Cardinality(Again') = Cardinality(Again)
          + (IF s \in Again' THEN 1 ELSE 0) - (IF s \in Again THEN 1 ELSE 0)
    BY <1>2, <1>4, <2>3, AgainCounts
  <2>7. Cardinality(Again) \in Nat
    BY <1>2, CountsAreNat
  <2>8. QED
    BY <2>5, <2>6, <2>7
<1>7. /\ Credits(work[w]) = 0 /\ Records(work[w]) = 0 /\ May(work[w]) = 1
      /\ Records(work'[w]) = 0 /\ Credits(work'[w]) = credited(j)
      /\ May(work'[w]) \in {0, 1} /\ credited(j) \in {0, 1} /\ d \in {0, 1}
  BY <1>2, <1>3 DEF Credits, Records, May, CreditSteps, RecordSteps
<1>8. Uncovered' = Uncovered /\ Unrecorded' = Unrecorded
  BY <1>2, CountersMove
<1>9. Uncovered \in Int /\ Uncredited \in Int /\ Unrecorded \in Int
  BY <1>2, CountsAreNat
<1> HIDE DEF credited, d
<1>10. QED
  BY <1>2, <1>3, <1>4, <1>5, <1>6, <1>7, <1>8, <1>9, JobTally

\* A job passes the debt on, pays it and writes it down; it has been counted as
\* an attempt long before.
LEMMA JobBalances ==
  ASSUME CInv, NEW w \in Workers,
         ResolveJob(w) \/ CreditJob(w) \/ ScoreJob(w) \/ RecordJob(w)
  PROVE  Balance'
<1>1. /\ IInv /\ UNCHANGED <<attempted, subs, queue, req, stalls, crashes>>
      /\ solved \in Nat /\ attempted \in Nat /\ stalls \in Nat
      /\ Len(queue) \in Nat /\ Len(records) \in Nat /\ Cardinality(Again) \in Nat
      /\ Cardinality(Correct) \in Nat
      /\ Uncovered \in Int /\ Uncredited \in Int /\ Unrecorded \in Int
  <2>1. IInv
    BY DEF CInv
  <2>2. UNCHANGED <<attempted, subs, queue, req, stalls, crashes>>
    BY DEF ResolveJob, CreditJob, ScoreJob, RecordJob, scoreVars, answerVars, bounds
  <2>3. /\ solved \in Nat /\ attempted \in Nat /\ stalls \in Nat
        /\ Len(queue) \in Nat /\ Len(records) \in Nat
    BY <2>1 DEF IInv, Rows
  <2>4. QED
    BY <2>1, <2>2, <2>3, CountsAreNat
<1>2. OthersWork(w) /\ Works(w) /\ (Works(w)' => work'[w].sub = work[w].sub)
      /\ work[w].step # "judge" /\ work'[w].step # "judge"
  <2>1. CASE ResolveJob(w) \/ CreditJob(w) \/ ScoreJob(w)
    BY <1>1, <2>1, WorkerGoes DEF ResolveJob, CreditJob, ScoreJob, WorksAt, Works
  <2>2. CASE RecordJob(w)
    BY <1>1, <2>2, WorkerRests DEF RecordJob, WorksAt, Works
  <2>3. QED
    BY <2>1, <2>2
<1>3. OneJudge' /\ Again' = Again
  <2>1. OneJudge'
    BY <1>1, <1>2, JobsStay DEF CInv, Balance, answerVars
  <2>2. \A t : Waiting(t)' <=> Waiting(t)
    BY <1>1, <1>2 DEF Waiting, OthersWork
  <2>3. QED
    BY <1>1, <2>1, <2>2 DEF Again, Correct
<1>4. Cardinality(Again') = Cardinality(Again) - 0
  BY <1>1, <1>3
<1>5. CASE ResolveJob(w) \/ ScoreJob(w)
  <2>1. /\ UNCHANGED <<solved, records>> /\ OthersWork(w)
        /\ \/ work[w].step = "resolve" /\ work'[w].step = "credit"
           \/ work[w].step = "score" /\ work'[w].step = "record"
    BY <1>1, <1>5, WorkerGoes DEF ResolveJob, ScoreJob, WorksAt, scoreVars
  <2>2. /\ Credits(work'[w]) = Credits(work[w]) /\ Credits(work[w]) \in Int
        /\ Records(work'[w]) = Records(work[w]) /\ Records(work[w]) \in Int
        /\ May(work'[w]) = May(work[w]) /\ May(work[w]) \in Int
    BY <2>1 DEF Credits, Records, May, CreditSteps, RecordSteps
  <2>3. Uncovered' = Uncovered /\ Uncredited' = Uncredited /\ Unrecorded' = Unrecorded
    BY <1>1, <2>1, CountersMove
  <2>4. QED
    BY <1>1, <1>3, <1>4, <2>1, <2>2, <2>3, JobTally
<1>6. CASE CreditJob(w)
  <2>1. /\ work[w].step = "credit" /\ records' = records /\ solved' = solved + 1
        /\ OthersWork(w) /\ work'[w].step = "score"
    BY <1>1, <1>6, WorkerGoes DEF CreditJob, WorksAt
  <2>2. /\ Credits(work'[w]) = 0 /\ Credits(work[w]) = 1
        /\ Records(work'[w]) = 1 /\ Records(work[w]) = 0
        /\ May(work'[w]) = 0 /\ May(work[w]) = 1
    BY <2>1 DEF Credits, Records, May, CreditSteps, RecordSteps
  <2>3. Uncovered' = Uncovered - 1 /\ Unrecorded' = Unrecorded + 1
    <3>1. Len(queue') = Len(queue) /\ Len(records') = Len(records)
      BY <1>1, <2>1
    <3>2. QED
      BY <1>1, <2>1, <3>1 DEF Uncovered, Unrecorded
  <2>4. Uncredited' = Uncredited - 1
    <3>1. Correct' = Correct
      BY <1>1 DEF Correct
    <3>2. QED
      BY <1>1, <2>1, <3>1 DEF Uncredited
  <2>5. QED
    BY <1>1, <1>3, <1>4, <2>1, <2>2, <2>3, <2>4, JobTally
<1>7. CASE RecordJob(w)
  <2>1. /\ work[w].step = "record" /\ solved' = solved
        /\ records' = Append(records, JobRound(w))
        /\ OthersWork(w) /\ work'[w].step = "idle"
    BY <1>1, <1>7, WorkerRests DEF RecordJob, WorksAt
  <2>2. /\ Credits(work'[w]) = 0 /\ Credits(work[w]) = 0
        /\ Records(work'[w]) = 0 /\ Records(work[w]) = 1
        /\ May(work'[w]) = 0 /\ May(work[w]) = 0
    BY <2>1 DEF Credits, Records, May, CreditSteps, RecordSteps
  <2>3. Uncovered' = Uncovered /\ Uncredited' = Uncredited
    BY <1>1, <2>1, CountersMove
  <2>4. Unrecorded' = Unrecorded - 1
    <3>1. Len(records') = Len(records) + 1
      <4>1. records \in Seq(DOMAIN rounds)
        BY <1>1 DEF IInv, Rows
      <4>2. JobRound(w) \in DOMAIN rounds
        BY <1>1, <2>1, JobFacts DEF WorksAt
      <4>3. QED
        BY <2>1, <4>1, <4>2
    <3>2. QED
      BY <1>1, <2>1, <3>1 DEF Unrecorded
  <2>5. QED
    BY <1>1, <1>3, <1>4, <2>1, <2>2, <2>3, <2>4, JobTally
<1>8. QED
  BY <1>5, <1>6, <1>7

\* A job that is handed out again may credit once more; one that is given up leaves
\* its credit, or its record, owed to nobody.
LEMMA JobLostBalances ==
  ASSUME CInv, IInv', NEW w \in Workers, Stall(w) \/ FailJob(w)
  PROVE  Balance'
<1> SUFFICES ASSUME NEW s, s = work[w].sub PROVE Balance'
  OBVIOUS
<1> DEFINE c == Credits(work[w])
           e == Records(work[w])
           m == May(work[w])
           n == IF Stall(w) THEN 1 ELSE 0
<1>1. /\ IInv /\ OneJudge /\ Covered /\ Balanced
      /\ Works(w) /\ s \in DOMAIN subs
      /\ UNCHANGED <<attempted, solved, records, subs, req>>
      /\ OthersWork(w) /\ work'[w].step = "idle"
  <2>1. IInv /\ OneJudge /\ Covered /\ Balanced
    BY DEF CInv, Balance
  <2>2. OthersWork(w) /\ work'[w].step = "idle"
    BY <2>1, WorkerRests DEF Stall, FailJob
  <2>3. UNCHANGED <<attempted, solved, records, subs, req>> /\ ~WorksAt(w, "idle")
    BY DEF Stall, FailJob, scoreVars, answerVars
  <2>4. Works(w) /\ s \in DOMAIN subs
    BY <2>1, <2>3, JobFacts DEF Works, WorksAt
  <2>5. QED
    BY <2>1, <2>2, <2>3, <2>4
<1>2. /\ Len(queue) \in Nat /\ Len(queue') = Len(queue) + n
      /\ stalls' = stalls + n /\ crashes' = crashes + 1 - n
      /\ n \in {0, 1} /\ stalls \in Nat /\ crashes \in Nat
      /\ \A i \in DOMAIN queue' :
           (i \in DOMAIN queue /\ queue'[i] = queue[i]) \/ (n = 1 /\ queue'[i] = s)
      /\ \A i \in DOMAIN queue : i \in DOMAIN queue' /\ queue'[i] = queue[i]
      /\ \A i, k \in DOMAIN queue' :
           i \notin DOMAIN queue /\ k \notin DOMAIN queue => i = k
  <2>1. queue \in Seq(DOMAIN subs) /\ stalls \in Nat /\ crashes \in Nat
    BY <1>1 DEF IInv, Rows
  <2>2. CASE Stall(w)
    <3>1. queue' = Append(queue, s) /\ stalls' = stalls + 1 /\ crashes' = crashes
      BY <2>2 DEF Stall
    <3>2. QED
      BY <1>1, <2>1, <2>2, <3>1
  <2>3. CASE ~Stall(w)
    <3>1. queue' = queue /\ stalls' = stalls /\ crashes' = crashes + 1
      BY <2>3 DEF FailJob, answerVars
    <3>2. QED
      BY <2>1, <2>3, <3>1
  <2>4. QED
    BY <2>2, <2>3
<1> HIDE DEF n
<1>3. OneJudge'
  <2>1. ~Works(w)' /\ \A v \in Workers \ {w} : (Works(v)' <=> Works(v)) /\ work'[v] = work[v]
    BY <1>1 DEF Works, OthersWork
  <2>2. \A i \in DOMAIN queue : queue[i] # s
    BY <1>1 DEF OneJudge
  <2>3. \A i, k \in DOMAIN queue' : i # k => queue'[i] # queue'[k]
    BY <1>1, <1>2, <2>2 DEF OneJudge
  <2>4. \A q \in Requests : \A i \in DOMAIN queue' :
          req'[q].step \in Deciding => queue'[i] # req'[q].sub
    BY <1>1, <1>2 DEF OneJudge
  <2>5. \A v \in Workers : \A i \in DOMAIN queue' : Works(v)' => queue'[i] # work'[v].sub
    BY <1>1, <1>2, <2>1 DEF OneJudge
  <2>6. \A v, u \in Workers : Works(v)' /\ Works(u)' /\ v # u => work'[v].sub # work'[u].sub
    BY <1>1, <2>1 DEF OneJudge
  <2>7. \A q \in Requests : \A v \in Workers :
          req'[q].step \in Deciding /\ Works(v)' => work'[v].sub # req'[q].sub
    BY <1>1, <2>1 DEF OneJudge
  <2>8. QED
    BY <1>1, <2>3, <2>4, <2>5, <2>6, <2>7 DEF OneJudge
<1>4. /\ Cardinality(Again') \in Nat
      /\ Cardinality(Again') <= Cardinality(Again) + n
  <2>1. \A t \in DOMAIN subs \ {s} : Waiting(t)' <=> Waiting(t)
    BY <1>1, <1>2 DEF Waiting, OthersWork
  <2>2. \A t \in DOMAIN subs \ {s} : t \in Again <=> t \in Again'
    BY <1>1, <2>1 DEF Again, Correct
  <2>3. n = 0 => s \notin Again'
    <3>1. \A v \in Workers \ {w} : Works(v) => work[v].sub # s
      BY <1>1 DEF OneJudge
    <3>2. \A i \in DOMAIN queue : queue[i] # s
      BY <1>1 DEF OneJudge
    <3>3. n = 0 => ~Waiting(s)'
      BY <1>1, <1>2, <3>1, <3>2 DEF Waiting, OthersWork, Works
    <3>4. QED
      BY <3>3 DEF Again
  <2>4. Cardinality(Again') = Cardinality(Again)
          + (IF s \in Again' THEN 1 ELSE 0) - (IF s \in Again THEN 1 ELSE 0)
    BY <1>1, <2>2, AgainCounts
  <2>5. Cardinality(Again) \in Nat
    BY <1>1, CountsAreNat
  <2>6. s \in Again => Cardinality(Again) # 0
    <3>1. IsFiniteSet(Again)
      <4>1. IsFiniteSet(DOMAIN subs)
        BY <1>1, SequencesAreFinite DEF IInv, Rows
      <4>2. QED
        BY <4>1, FS_Subset DEF Again, Correct
    <3>2. QED
      BY <3>1, FS_EmptySet
  <2>7. QED
    BY <1>2, <2>3, <2>4, <2>5, <2>6
<1>5. /\ c \in {0, 1} /\ e \in {0, 1} /\ m \in {0, 1} /\ c + e <= 1 /\ c <= m
      /\ Cardinality(JobsCrediting') = Cardinality(JobsCrediting) - c
      /\ Cardinality(JobsRecording') = Cardinality(JobsRecording) - e
      /\ Cardinality(JobsMay') = Cardinality(JobsMay) - m
  <2>1. Credits(work'[w]) = 0 /\ Records(work'[w]) = 0 /\ May(work'[w]) = 0
    BY <1>1 DEF Credits, Records, May, CreditSteps, RecordSteps
  <2>2. QED
    BY <1>1, <2>1, Weights, JobCounts, CountsAreNat
<1> HIDE DEF c, e, m
<1>6. /\ Crediting' = Crediting /\ Recording' = Recording /\ Counted' = Counted
      /\ Correct' = Correct
  BY <1>1 DEF Crediting, Recording, Counted, Correct
<1>7. Covered'
  <2>1. Uncovered' = Uncovered
    BY <1>1, <1>2 DEF Uncovered, IInv, Rows
  <2>2. QED
    BY <1>1, <1>5, <1>6, <2>1, CountsAreNat DEF Covered
<1>8. Balanced'
  <2>1. Uncredited' = Uncredited /\ Unrecorded' = Unrecorded
    BY <1>1, <1>6 DEF Uncredited, Unrecorded
  <2>2. LostCredits' = LostCredits + c /\ LostRecords' = LostRecords + e
    BY <1>1, <1>5, <1>6, <2>1, CountsAreNat DEF LostCredits, LostRecords
  <2>3. stalls' + crashes' = stalls + crashes + 1
    BY <1>2
  <2>4. /\ Cardinality(Again) \in Nat /\ LostCredits \in Int /\ LostRecords \in Int
        /\ Cardinality(Again) <= LostCredits + stalls
        /\ LostCredits <= stalls + crashes
        /\ LostRecords \in 0 .. (stalls + crashes)
    BY <1>1, CountsAreNat DEF Balanced
  <2>5. Cardinality(Again') <= LostCredits' + stalls'
    BY <1>2, <1>4, <1>5, <2>2, <2>4
  <2>6. LostCredits' <= stalls' + crashes'
    BY <1>2, <1>5, <2>2, <2>3, <2>4
  <2>7. LostRecords' \in 0 .. (stalls' + crashes')
    BY <1>2, <1>5, <2>2, <2>3, <2>4
  <2>8. QED
    BY <2>5, <2>6, <2>7 DEF Balanced
<1>9. QED
  BY <1>3, <1>7, <1>8 DEF Balance

-----------------------------------------------------------------------------
LEMMA InitBalances == Init => Balance
<1> SUFFICES ASSUME Init PROVE Balance
  OBVIOUS
<1>1. OneJudge
  BY DEF Init, OneJudge, Deciding, Idle, Works, Resting
<1>2. /\ Crediting = {} /\ Recording = {} /\ Counted = {} /\ Correct = {} /\ Again = {}
      /\ JobsCrediting = {} /\ JobsRecording = {} /\ JobsMay = {}
  BY DEF Init, Crediting, Recording, Counted, JobsCrediting, JobsRecording, JobsMay, Correct,
         Again, Credits, Records, Owes, May, CreditSteps, RecordSteps, Idle, Resting
<1>3. /\ Len(queue) = 0 /\ Len(records) = 0 /\ solved = 0 /\ attempted = 0
      /\ stalls = 0 /\ crashes = 0
  BY DEF Init
<1>4. Covered /\ Balanced
  BY <1>2, <1>3, FS_EmptySet
     DEF Covered, Balanced, LostCredits, LostRecords, Uncovered, Uncredited, Unrecorded
<1>5. QED
  BY <1>1, <1>4 DEF Balance

\* Steps that leave requests, jobs, answers and counters alone.
LEMMA BalanceUnchanged ==
  ASSUME Balance, UNCHANGED <<scoreVars, answerVars, req, work, bounds>>
  PROVE  Balance'
<1>1. Again' = Again
  BY AgainStays
<1>2. /\ UNCHANGED <<attempted, solved, records, subs, queue, req, work, stalls, crashes>>
  BY DEF scoreVars, answerVars, bounds
<1>3. OneJudge'
  BY <1>2 DEF Balance, OneJudge, Works
<1>4. Covered'
  BY <1>2 DEF Balance, Covered, Uncovered, Counted, JobsMay
<1>5. Balanced'
  BY <1>1, <1>2 DEF Balance, Balanced, LostCredits, LostRecords, Uncredited, Unrecorded,
     Crediting, Recording, JobsCrediting, JobsRecording, Correct
<1>6. QED
  BY <1>3, <1>4, <1>5 DEF Balance

LEMMA NextKeepsBalance == CInv /\ [Next]_vars => CInv'
<1> SUFFICES ASSUME CInv, [Next]_vars PROVE CInv'
  OBVIOUS
<1>1. IInv /\ IInv' /\ Balance
  BY NextKeepsInvariant DEF CInv
<1>2. ASSUME NEW r \in Requests, ClientCall(r) \/ Poll(r) \/ Crash(r) PROVE Balance'
  <2>1. CASE Finish(r)
    BY <1>1, <2>1, BalanceUnchanged DEF Finish
  <2>2. CASE ~Finish(r)
    BY <1>2, <2>2, QuietSteps DEF ClientCall
  <2>3. QED
    BY <2>1, <2>2
<1>3. ASSUME NEW r \in Requests, Proceed(r) PROVE Balance'
  BY <1>1, <1>3, CreateBalances, CountAttemptBalances, DirectJudgedBalances, EnqueueBalances,
     AcceptBalances, QuietSteps DEF Proceed
<1>4. ASSUME NEW w \in Workers, WorkOn(w) PROVE Balance'
  BY <1>1, <1>4, TakeJobBalances, JudgeJobBalances, JobBalances DEF WorkOn
<1>5. ASSUME NEW w \in Workers, Stall(w) \/ FailJob(w) PROVE Balance'
  BY <1>1, <1>5, JobLostBalances
<1>6. CASE TimePasses
  <2>1. UNCHANGED <<scoreVars, answerVars, req, work, bounds>>
    BY <1>6 DEF TimePasses
  <2>2. QED
    BY <1>1, <2>1, BalanceUnchanged DEF CInv
<1>7. CASE UNCHANGED vars
  <2>1. UNCHANGED <<scoreVars, answerVars, req, work, bounds>>
    BY <1>7 DEF vars
  <2>2. QED
    BY <1>1, <2>1, BalanceUnchanged DEF CInv
<1>8. QED
  BY <1>1, <1>2, <1>3, <1>4, <1>5, <1>6, <1>7 DEF CInv, Next

\* However requests, jobs and deaths interleave, an answer that is to be judged is
\* in one place, and attempts, credits and records balance up to what has died.
LEMMA BalanceHolds == Spec => []CInv
<1>1. Init => CInv
  BY InitEstablishesInvariant, InitBalances DEF CInv
<1>2. QED
  BY <1>1, NextKeepsBalance, PTL DEF Spec

\* However requests, jobs and deaths interleave, the session never has more correct
\* answers than attempts, but for one with each job that is handed out again.
THEOREM AttemptsCover == Spec => []AttemptsCoverSolves
<1>1. CInv => AttemptsCoverSolves
  <2> SUFFICES ASSUME CInv PROVE AttemptsCoverSolves
    OBVIOUS
  <2> DEFINE AtCredit == {r \in Requests : At(r, "credit") /\ ~req[r].static}
  <2>1. IInv /\ Covered
    BY DEF CInv, Balance
  <2>2. AtCredit \subseteq Counted /\ IsFiniteSet(Counted)
    <3>1. AtCredit \subseteq Counted
      BY DEF Counted, Owes, CreditSteps, At
    <3>2. Counted \subseteq Requests
      BY DEF Counted
    <3>3. QED
      BY <3>1, <3>2, SessionAssumption, FS_Subset
  <2>3. Cardinality(AtCredit) <= Cardinality(Counted) /\ Cardinality(AtCredit) \in Nat
    BY <2>2, FS_Subset, FS_CardinalityType
  <2>4. /\ solved \in Nat /\ attempted \in Nat /\ stalls \in Nat /\ Len(queue) \in Nat
        /\ Cardinality(Counted) \in Nat /\ Cardinality(JobsMay) \in Nat
    BY <2>1, CountsAreNat DEF IInv, Rows
  <2>5. solved + Cardinality(AtCredit) <= attempted + stalls
    BY <2>1, <2>3, <2>4 DEF Covered, Uncovered
  <2>6. QED
    BY <2>5 DEF AttemptsCoverSolves
<1>2. QED
  BY <1>1, BalanceHolds, PTL

\* Correct answers, credits and records are equal up to what is under way while
\* nothing dies; a death costs or doubles at most one credit and one record.
THEOREM CreditsBalance == Spec => []EveryAnswerCounts
<1>1. CInv => EveryAnswerCounts
  <2> SUFFICES ASSUME CInv PROVE EveryAnswerCounts
    OBVIOUS
  <2>1. IInv /\ Balanced
    BY DEF CInv, Balance
  <2>2. /\ Pending({"resolve", "credit"})
             = Cardinality(Crediting) + Cardinality(JobsCrediting)
        /\ Pending({"score", "record"}) = Cardinality(Recording) + Cardinality(JobsRecording)
    <3>1. /\ Crediting = {r \in Requests : req[r].step \in {"resolve", "credit"}}
          /\ Recording = {r \in Requests : req[r].step \in {"score", "record"}}
          /\ JobsCrediting = {w \in Workers : work[w].step \in {"resolve", "credit"}}
          /\ JobsRecording = {w \in Workers : work[w].step \in {"score", "record"}}
      BY DEF Crediting, Recording, JobsCrediting, JobsRecording, Credits, Records,
             CreditSteps, RecordSteps
    <3>2. QED
      BY <3>1 DEF Pending
  <2>3. solved \in Nat /\ Len(records) \in Nat
    BY <2>1 DEF IInv, Rows
  <2> DEFINE credits  == solved + Pending({"resolve", "credit"})
             recorded == Len(records) + Pending({"score", "record"})
  <2>4. /\ stalls \in Nat /\ crashes \in Nat /\ Cardinality(Again) \in Nat
        /\ Cardinality(Correct) \in Nat
        /\ Cardinality(Crediting) \in Nat /\ Cardinality(JobsCrediting) \in Nat
        /\ Cardinality(Recording) \in Nat /\ Cardinality(JobsRecording) \in Nat
    BY <2>1, CountsAreNat
  <2>5. credits \in Int /\ LostCredits = Cardinality(Correct) - credits
    BY <2>2, <2>3, <2>4 DEF LostCredits, Uncredited
  <2>6. recorded \in Int /\ LostRecords = solved - recorded
    BY <2>2, <2>3, <2>4 DEF LostRecords, Unrecorded
  <2>7. /\ Cardinality(Again) <= LostCredits + stalls
        /\ LostCredits <= stalls + crashes
        /\ LostRecords \in 0 .. (stalls + crashes)
    BY <2>1 DEF Balanced
  <2> HIDE DEF credits, recorded
  <2>8. credits <= Cardinality(Correct) + stalls
    BY <2>4, <2>5, <2>7
  <2>9. Cardinality(Correct) <= credits + stalls + crashes
    BY <2>4, <2>5, <2>7
  <2>10. recorded <= solved /\ solved <= recorded + stalls + crashes
    BY <2>3, <2>4, <2>6, <2>7
  <2>11. QED
    BY <2>8, <2>9, <2>10 DEF EveryAnswerCounts, Correct, credits, recorded
<1>2. QED
  BY <1>1, BalanceHolds, PTL

=============================================================================
