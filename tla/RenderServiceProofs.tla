-------------------------- MODULE RenderServiceProofs --------------------------
(***************************************************************************)
(* RenderService for any number of callers and any limits.                 *)
(*                                                                         *)
(* The slots: the counter is exact, no wake-up is lost, and workspaces     *)
(* belong to renders that hold a slot.  None of it depends on what the     *)
(* cache answers, so there a call is only known to be a record with a      *)
(* step.  Then the types, and the bound of the cache.                      *)
(***************************************************************************)
EXTENDS RenderService, FiniteSetTheorems, TLAPS

\* a record that has a step
IsCall(q) == "step" \in DOMAIN q /\ q.step \in Steps

Calls(f) == DOMAIN f = Callers /\ f = [c \in Callers |-> f[c]] /\ \A c \in Callers : IsCall(f[c])

Hold(f) == {c \in Callers : f[c].step \in Slotted}

\* steps during which the workspace of a call exists
Kept == {"write", "compile", "killed", "clean"}
WithDir(f) == {c \in Callers : f[c].step \in Kept}

\* Who waits is in the queue once and does nothing else.
Lined ==
  /\ queue \in Seq(Callers)
  /\ \A i \in DOMAIN queue : call[queue[i]].step = "queued"
  /\ \A i, j \in DOMAIN queue : queue[i] = queue[j] => i = j

Slots ==
  /\ active = Cardinality(Hold(call)) /\ active \in Nat /\ active <= Limit
  /\ queue # <<>> => active = Limit

IInv == Calls(call) /\ Lined /\ Slots /\ dirs \subseteq WithDir(call)

-----------------------------------------------------------------------------
(* Calls and steps.                                                        *)

\* One call changes, and is at step s then.
Moved(f, g, c, s) ==
  Calls(g) /\ g[c].step = s /\ \A d \in Callers : d # c => g[d] = f[d]

\* The forms in which the actions write it.
Writes(f, g, c, q) == g = [f EXCEPT ![c] = q]
WritesStep(f, g, c, s) == g = [f EXCEPT ![c].step = s]
WritesOk(f, g, c, s, b) == g = [f EXCEPT ![c].step = s, ![c].ok = b]
WritesFirst(f, g, c, s, b, m) == g = [f EXCEPT ![c].step = s, ![c].ok = b, ![c].first = m]

LEMMA WriteMoves ==
  ASSUME NEW f, Calls(f), NEW c \in Callers, NEW q, IsCall(q), NEW g, Writes(f, g, c, q)
  PROVE  Moved(f, g, c, q.step)
BY DEF Calls, Writes, Moved

LEMMA StepMoves ==
  ASSUME NEW f, Calls(f), NEW c \in Callers, NEW s \in Steps, NEW g, WritesStep(f, g, c, s)
  PROVE  Moved(f, g, c, s)
<1>1. PICK q : q = [f[c] EXCEPT !.step = s]
  OBVIOUS
<1>2. IsCall(q) /\ q.step = s
  BY <1>1 DEF Calls, IsCall
<1>3. Writes(f, g, c, q)
  BY <1>1 DEF WritesStep, Writes
<1> QED BY <1>2, <1>3, WriteMoves

LEMMA OkMoves ==
  ASSUME NEW f, Calls(f), NEW c \in Callers, NEW s \in Steps, NEW b, NEW g,
         WritesOk(f, g, c, s, b)
  PROVE  Moved(f, g, c, s)
<1>1. PICK q : q = [f[c] EXCEPT !.step = s, !.ok = b]
  OBVIOUS
<1>2. IsCall(q) /\ q.step = s
  BY <1>1 DEF Calls, IsCall
<1>3. Writes(f, g, c, q)
  BY <1>1 DEF WritesOk, Writes, Calls
<1> QED BY <1>2, <1>3, WriteMoves

LEMMA FirstMoves ==
  ASSUME NEW f, Calls(f), NEW c \in Callers, NEW s \in Steps, NEW b, NEW m, NEW g,
         WritesFirst(f, g, c, s, b, m)
  PROVE  Moved(f, g, c, s)
<1>1. PICK q : q = [f[c] EXCEPT !.step = s, !.ok = b, !.first = m]
  OBVIOUS
<1>2. IsCall(q) /\ q.step = s
  BY <1>1 DEF Calls, IsCall
<1>3. Writes(f, g, c, q)
  BY <1>1 DEF WritesFirst, Writes, Calls
<1> QED BY <1>2, <1>3, WriteMoves

LEMMA HoldFinite ==
  ASSUME IsFiniteSet(Callers), NEW f
  PROVE  IsFiniteSet(Hold(f)) /\ Cardinality(Hold(f)) \in Nat
<1>1. Hold(f) \subseteq Callers
  BY DEF Hold
<1> QED BY <1>1, FS_Subset, FS_CardinalityType

-----------------------------------------------------------------------------
(* The kinds of steps.                                                     *)

\* A caller moves without taking or giving back a slot, or a place in line.
LEMMA Walks ==
  ASSUME IInv, NEW c \in Callers, NEW s \in Steps, Moved(call, call', c, s),
         UNCHANGED slotVars, call[c].step # "queued", s # "queued",
         call[c].step \in Slotted <=> s \in Slotted,
         dirs' \subseteq WithDir(call')
  PROVE  IInv'
<1>1. /\ Calls(call') /\ call'[c].step = s
      /\ \A d \in Callers : d # c => call'[d] = call[d]
  BY DEF Moved
<1>2. Hold(call') = Hold(call)
  BY <1>1 DEF Hold
<1>3. Lined'
  BY <1>1 DEF IInv, Lined, slotVars
<1>4. Slots'
  BY <1>2 DEF IInv, Slots, slotVars
<1> QED BY <1>1, <1>3, <1>4 DEF IInv

\* acquire
LEMMA Acquires ==
  ASSUME IInv, RenderAssumption, NEW c \in Callers, Acquire(c),
         call[c].step = "sweep", dirs' = dirs
  PROVE  IInv'
<1>0. Limit \in Nat /\ IsFiniteSet(Callers)
  BY DEF RenderAssumption
<1>1. ASSUME NEW s \in {"make", "queued"}, Goto(c, s)
      PROVE  /\ Calls(call') /\ call'[c].step = s
             /\ \A d \in Callers : d # c => call'[d] = call[d]
             /\ dirs' \subseteq WithDir(call')
  <2>1. s \in Steps
    BY DEF Steps, Slotted, Kept
  <2>2. WritesStep(call, call', c, s)
    BY <1>1 DEF Goto, WritesStep
  <2>3. Moved(call, call', c, s)
    BY <2>1, <2>2, StepMoves DEF IInv
  <2>4. c \notin dirs
    BY DEF IInv, WithDir, Slotted, Kept
  <2> QED BY <2>3, <2>4 DEF IInv, WithDir, Moved
<1>2. \A i \in DOMAIN queue : queue[i] # c
  BY DEF IInv, Lined
<1>3. c \notin Hold(call)
  BY DEF Hold, Slotted, Kept
<1>4. CASE MayAcquire /\ active' = active + 1 /\ Goto(c, "make") /\ UNCHANGED queue
  <2>1. Lined'
    <3>1. \A i \in DOMAIN queue : queue[i] \in Callers
      BY DEF IInv, Lined
    <3> QED BY <1>1, <1>2, <1>4, <3>1 DEF IInv, Lined
  <2>2. Hold(call') = Hold(call) \union {c}
    BY <1>1, <1>4 DEF Hold, Slotted, Kept
  <2>3. Cardinality(Hold(call')) = Cardinality(Hold(call)) + 1
    BY <1>0, <1>3, <2>2, HoldFinite, FS_AddElement
  <2>4. Slots'
    BY <1>0, <1>4, <2>3 DEF IInv, Slots, MayAcquire
  <2> QED BY <1>1, <1>4, <2>1, <2>4 DEF IInv
<1>5. CASE ~MayAcquire /\ queue' = Append(queue, c) /\ Goto(c, "queued") /\ UNCHANGED active
  <2>1. Lined'
    <3>1. /\ queue \in Seq(Callers) /\ queue' \in Seq(Callers)
          /\ DOMAIN queue = 1..Len(queue) /\ Len(queue) \in Nat
          /\ DOMAIN queue' = 1..(Len(queue) + 1)
          /\ \A i \in DOMAIN queue : queue'[i] = queue[i] /\ queue[i] \in Callers
          /\ queue'[Len(queue) + 1] = c
      BY <1>5 DEF IInv, Lined
    <3>2. \A i \in DOMAIN queue' : i \in DOMAIN queue \/ i = Len(queue) + 1
      BY <3>1
    <3>3. \A i \in DOMAIN queue' : call'[queue'[i]].step = "queued"
      BY <1>1, <1>2, <1>5, <3>1, <3>2 DEF IInv, Lined
    <3>4. \A i, j \in DOMAIN queue' : queue'[i] = queue'[j] => i = j
      BY <1>2, <3>1, <3>2 DEF IInv, Lined
    <3> QED BY <3>1, <3>3, <3>4 DEF Lined
  <2>2. Hold(call') = Hold(call)
    BY <1>1, <1>3, <1>5 DEF Hold, Slotted, Kept
  <2>3. Slots'
    BY <1>0, <1>5, <2>2 DEF IInv, Slots, MayAcquire
  <2> QED BY <1>1, <1>5, <2>1, <2>3 DEF IInv
<1> QED BY <1>4, <1>5 DEF Acquire

\* release, with the workspace gone
LEMMA Releases ==
  ASSUME IInv, RenderAssumption, NEW c \in Callers, NEW b, NEW m, Release(c, b, m),
         call[c].step \in Slotted, dirs' = dirs \ {c}
  PROVE  IInv'
<1>0. Limit \in Nat /\ IsFiniteSet(Callers)
  BY DEF RenderAssumption
<1>1. PICK done :
        /\ WritesFirst(call, done, c, "answer", b, m)
        /\ IF Wakes THEN /\ queue' = Tail(queue) /\ UNCHANGED active
                         /\ call' = [done EXCEPT ![Head(queue)].step = "make"]
           ELSE call' = done /\ active' = active - 1 /\ UNCHANGED queue
  BY DEF Release, WritesFirst
<1>2. Moved(call, done, c, "answer")
  <2>1. "answer" \in Steps
    BY DEF Steps
  <2> QED BY <1>1, <2>1, FirstMoves DEF IInv
<1>3. /\ Calls(done) /\ done[c].step = "answer"
      /\ \A d \in Callers : d # c => done[d] = call[d]
  BY <1>2 DEF Moved
<1>4. c \in Hold(call) /\ c \notin Hold(done) /\ Hold(done) = Hold(call) \ {c}
  BY <1>3 DEF Hold, Slotted, Kept
<1>5. Cardinality(Hold(done)) = Cardinality(Hold(call)) - 1
  BY <1>0, <1>4, HoldFinite, FS_RemoveElement
<1>6. dirs' \subseteq WithDir(done)
  BY <1>3 DEF IInv, WithDir
<1>7. \A i \in DOMAIN queue : queue[i] \in Callers /\ queue[i] # c
  BY DEF IInv, Lined, Slotted, Kept
<1>8. CASE ~Wakes
  <2>1. queue = <<>> /\ queue' = queue /\ call' = done /\ active' = active - 1
    BY <1>1, <1>8 DEF Wakes
  <2>2. Lined'
    BY <1>3, <1>7, <2>1 DEF IInv, Lined
  <2>3. Slots'
    BY <1>0, <1>5, <2>1, HoldFinite DEF IInv, Slots
  <2> QED BY <1>3, <1>6, <2>1, <2>2, <2>3 DEF IInv
<1>9. CASE Wakes
  <2>0. PICK h : h = Head(queue)
    OBVIOUS
  <2>1. /\ queue \in Seq(Callers) /\ queue # <<>> /\ 1 \in DOMAIN queue /\ queue[1] = h
        /\ queue' = Tail(queue) /\ queue' \in Seq(Callers)
        /\ \A i \in DOMAIN queue' : i + 1 \in DOMAIN queue /\ queue'[i] = queue[i + 1] /\ i \in Nat
    <3>1. queue \in Seq(Callers) /\ queue # <<>> /\ queue' = Tail(queue)
      BY <1>1, <1>9 DEF Wakes, IInv, Lined
    <3>2. /\ Len(queue) \in Nat \ {0} /\ DOMAIN queue = 1..Len(queue)
          /\ queue' \in Seq(Callers) /\ Len(queue') = Len(queue) - 1
          /\ \A i \in 1..(Len(queue) - 1) : queue'[i] = queue[i + 1]
      BY <3>1
    <3>3. DOMAIN queue' = 1..Len(queue')
      BY <3>2
    <3> QED BY <2>0, <3>1, <3>2, <3>3
  <2>2. h \in Callers /\ h # c /\ done[h] = call[h] /\ done[h].step = "queued"
    BY <1>3, <1>7, <2>1 DEF IInv, Lined
  <2>3. Moved(done, call', h, "make")
    <3>1. "make" \in Steps
      BY DEF Steps, Slotted, Kept
    <3>2. WritesStep(done, call', h, "make")
      BY <1>1, <1>9, <2>0 DEF WritesStep
    <3> QED BY <1>3, <2>2, <3>1, <3>2, StepMoves
  <2>4. /\ Calls(call') /\ call'[h].step = "make"
        /\ \A d \in Callers : d # h => call'[d] = done[d]
    BY <2>3 DEF Moved
  <2>5. \A i \in DOMAIN queue' :
          /\ i + 1 \in DOMAIN queue /\ i + 1 # 1
          /\ queue'[i] = queue[i + 1] /\ queue[i + 1] # h
    BY <2>1 DEF IInv, Lined
  <2>6. \A i \in DOMAIN queue' : call'[queue'[i]].step = "queued"
    BY <1>3, <1>7, <2>4, <2>5 DEF IInv, Lined
  <2>7. \A i, j \in DOMAIN queue' : queue'[i] = queue'[j] => i = j
    <3>1. ASSUME NEW i \in DOMAIN queue', NEW j \in DOMAIN queue', queue'[i] = queue'[j]
          PROVE  i = j
      <4>1. i + 1 = j + 1
        BY <2>5, <3>1 DEF IInv, Lined
      <4> QED BY <2>1, <4>1
    <3> QED BY <3>1
  <2>8. Lined'
    BY <2>1, <2>6, <2>7 DEF Lined
  <2>9. Hold(call') = Hold(done) \union {h} /\ h \notin Hold(done)
    BY <2>2, <2>4 DEF Hold, Slotted, Kept
  <2>10. Cardinality(Hold(call')) = Cardinality(Hold(done)) + 1
    BY <1>0, <2>9, HoldFinite, FS_AddElement
  <2>11. Slots'
    <3>1. active' = active /\ active = Limit
      BY <1>1, <1>9, <2>1 DEF IInv, Slots
    <3>2. Cardinality(Hold(call)) \in Nat
      BY <1>0, HoldFinite
    <3> QED BY <1>0, <1>5, <2>10, <3>1, <3>2 DEF IInv, Slots
  <2>12. h \notin WithDir(done)
    BY <2>2 DEF WithDir, Slotted, Kept
  <2>13. dirs' \subseteq WithDir(call')
    BY <1>6, <2>4, <2>12 DEF WithDir
  <2> QED BY <2>4, <2>8, <2>11, <2>13 DEF IInv
<1> QED BY <1>8, <1>9

-----------------------------------------------------------------------------
(* The steps.                                                              *)

LEMMA InitHolds == ASSUME RenderAssumption PROVE Init => IInv
<1> SUFFICES ASSUME Init PROVE IInv
  OBVIOUS
<1>1. Calls(call)
  <2>1. \A c \in Callers : call[c] = [step |-> "idle", key |-> AnyKey, first |-> TRUE, ok |-> FALSE]
    BY DEF Init, Free, Idle
  <2>2. "idle" \in Steps
    BY DEF Steps
  <2> QED BY <2>1, <2>2 DEF Calls, IsCall, Init, Free
<1>2. Lined
  BY DEF Init, Lined
<1>3. Hold(call) = {}
  BY DEF Init, Free, Idle, Hold, Slotted, Kept
<1>4. Slots
  BY <1>3, FS_EmptySet DEF Init, Slots, RenderAssumption
<1> QED BY <1>1, <1>2, <1>4 DEF IInv, Init

\* A crash leaves idle callers.
LEMMA CrashHolds == ASSUME RenderAssumption, Crash PROVE IInv'
<1>1. Calls(call')
  <2>1. \A c \in Callers : call'[c] = [step |-> "idle", key |-> AnyKey, first |-> TRUE, ok |-> FALSE]
    BY DEF Crash, Free, Idle
  <2>2. "idle" \in Steps
    BY DEF Steps
  <2> QED BY <2>1, <2>2 DEF Calls, IsCall, Crash, Free
<1>2. Lined'
  BY DEF Crash, Lined
<1>3. Hold(call') = {}
  BY DEF Crash, Free, Idle, Hold, Slotted, Kept
<1>4. Slots'
  BY <1>3, FS_EmptySet DEF Crash, Slots, RenderAssumption
<1> QED BY <1>1, <1>2, <1>4 DEF IInv, Crash

\* Nothing of a call changes.
LEMMA QuietHolds ==
  ASSUME IInv, UNCHANGED <<slotVars, call, dirs>> PROVE IInv'
BY DEF IInv, Lined, Slots, slotVars

\* A workspace that is there stays with its render, also when it is made now.
LEMMA DirsKept ==
  ASSUME IInv, NEW c \in Callers, NEW s \in Steps, Moved(call, call', c, s),
         dirs' = dirs \/ dirs' = dirs \union {c},
         s \in Kept \/ (dirs' = dirs /\ c \notin dirs)
  PROVE  dirs' \subseteq WithDir(call')
BY DEF IInv, WithDir, Kept, Moved

LEMMA BeginHolds ==
  ASSUME IInv, NEW c \in Callers, NEW k \in Keys, Begin(c, k) PROVE IInv'
<1> DEFINE q == [step |-> "sweep", key |-> k, first |-> TRUE, ok |-> FALSE]
<1>1. IsCall(q) /\ q.step = "sweep"
  BY DEF IsCall, Steps
<1>2. Writes(call, call', c, q) /\ UNCHANGED <<slotVars, dirs>> /\ call[c].step = "idle"
  BY DEF Begin, Writes
<1> HIDE DEF q
<1>3. Moved(call, call', c, "sweep") /\ "sweep" \in Steps
  BY <1>1, <1>2, WriteMoves DEF IInv, Steps
<1>4. c \notin dirs /\ call[c].step \notin Slotted
  BY <1>2 DEF IInv, WithDir, Slotted, Kept
<1>5. dirs' \subseteq WithDir(call')
  BY <1>2, <1>3, <1>4, DirsKept
<1> QED BY <1>2, <1>3, <1>4, <1>5, Walks DEF Slotted, Kept

LEMMA LookUpHolds ==
  ASSUME IInv, RenderAssumption, NEW c \in Callers, LookUp(c) PROVE IInv'
<1>1. call[c].step = "sweep" /\ dirs' = dirs
  BY DEF LookUp
<1>2. CASE Acquire(c)
  BY <1>1, <1>2, Acquires
<1>3. CASE /\ UNCHANGED slotVars
           /\ \E b : WritesOk(call, call', c, "answer", b)
  <2>1. PICK b : WritesOk(call, call', c, "answer", b)
    BY <1>3
  <2>2. "answer" \in Steps
    BY DEF Steps
  <2>3. Moved(call, call', c, "answer")
    BY <2>1, <2>2, OkMoves DEF IInv
  <2>4. c \notin dirs /\ call[c].step \notin Slotted
    BY <1>1 DEF IInv, WithDir, Slotted, Kept
  <2>5. dirs' \subseteq WithDir(call')
    BY <1>1, <2>2, <2>3, <2>4, DirsKept
  <2> QED BY <1>1, <1>3, <2>2, <2>3, <2>4, <2>5, Walks DEF Slotted, Kept
<1> QED BY <1>2, <1>3 DEF LookUp, WritesOk

\* Make, Write and TimesOut
LEMMA GotoHolds ==
  ASSUME IInv, NEW c \in Callers, NEW s \in Kept, Goto(c, s),
         UNCHANGED slotVars, call[c].step \in Slotted,
         dirs' = dirs \/ dirs' = dirs \union {c}
  PROVE  IInv'
<1>1. s \in Steps
  BY DEF Steps, Slotted, Kept
<1>2. WritesStep(call, call', c, s)
  BY DEF Goto, WritesStep
<1>3. Moved(call, call', c, s)
  BY <1>1, <1>2, StepMoves DEF IInv
<1>4. dirs' \subseteq WithDir(call')
  BY <1>1, <1>3, DirsKept
<1> QED BY <1>1, <1>3, <1>4, Walks DEF Slotted, Kept

\* Compiled, Killed and Throws
LEMMA FinishHolds ==
  ASSUME IInv, NEW c \in Callers, NEW b, Finish(c, b), call[c].step \in Slotted
  PROVE  IInv'
<1>1. "clean" \in Steps
  BY DEF Steps, Slotted, Kept
<1>2. WritesOk(call, call', c, "clean", b)
  BY DEF Finish, WritesOk
<1>3. Moved(call, call', c, "clean")
  BY <1>1, <1>2, OkMoves DEF IInv
<1>4. dirs' = dirs /\ UNCHANGED slotVars
  BY DEF Finish
<1>5. dirs' \subseteq WithDir(call')
  BY <1>1, <1>3, <1>4, DirsKept DEF Slotted, Kept
<1> QED BY <1>1, <1>3, <1>4, <1>5, Walks DEF Slotted, Kept

LEMMA AnswerHolds ==
  ASSUME IInv, NEW c \in Callers, Answer(c) PROVE IInv'
<1>1. call[c].step = "answer" /\ UNCHANGED <<slotVars, dirs>>
  BY DEF Answer
<1>2. PICK q : IsCall(q) /\ q.step \in {"sweep", "idle"} /\ Writes(call, call', c, q)
  <2>1. CASE TriesAgain(c)
    <3>1. PICK q : q = [step |-> "sweep", first |-> FALSE, ok |-> FALSE,
                        key |-> Fallback[call[c].key]]
      OBVIOUS
    <3>2. IsCall(q) /\ q.step = "sweep"
      BY <3>1 DEF IsCall, Steps
    <3> QED BY <2>1, <3>1, <3>2 DEF Answer, Writes
  <2>2. CASE ~TriesAgain(c)
    <3>1. PICK q : q = Idle(AnyKey)
      OBVIOUS
    <3>2. IsCall(q) /\ q.step = "idle"
      BY <3>1 DEF IsCall, Idle, Steps
    <3> QED BY <2>2, <3>1, <3>2 DEF Answer, Writes
  <2> QED BY <2>1, <2>2
<1>3. PICK s \in {"sweep", "idle"} : s = q.step
  BY <1>2
<1>4. s \in Steps /\ Moved(call, call', c, s)
  BY <1>2, <1>3, WriteMoves DEF IInv, Steps
<1>5. c \notin dirs /\ call[c].step \notin Slotted
  BY <1>1 DEF IInv, WithDir, Slotted, Kept
<1>6. dirs' \subseteq WithDir(call')
  BY <1>1, <1>4, <1>5, DirsKept
<1> QED BY <1>1, <1>4, <1>5, <1>6, Walks DEF Slotted, Kept

LEMMA RenderHolds ==
  ASSUME IInv, RenderAssumption, NEW c \in Callers, Render(c) PROVE IInv'
<1>1. CASE LookUp(c)
  BY <1>1, LookUpHolds
<1>2. CASE Make(c)
  <2>1. /\ "write" \in Kept /\ call[c].step \in Slotted
        /\ Goto(c, "write") /\ UNCHANGED slotVars /\ dirs' = dirs \union {c}
    BY <1>2 DEF Make, Slotted, Kept
  <2> QED BY <2>1, GotoHolds
<1>3. CASE Write(c)
  <2>1. /\ "compile" \in Kept /\ call[c].step \in Slotted
        /\ Goto(c, "compile") /\ UNCHANGED slotVars /\ dirs' = dirs
    BY <1>3 DEF Write, Slotted, Kept
  <2> QED BY <2>1, GotoHolds
<1>4. CASE TimesOut(c)
  <2>1. /\ "killed" \in Kept /\ call[c].step \in Slotted
        /\ Goto(c, "killed") /\ UNCHANGED slotVars /\ dirs' = dirs
    BY <1>4 DEF TimesOut, Slotted, Kept
  <2> QED BY <2>1, GotoHolds
<1>5. CASE Compiled(c)
  <2>1. Finish(c, call[c].key \in Good) /\ call[c].step \in Slotted
    BY <1>5 DEF Compiled, Slotted, Kept
  <2> QED BY <2>1, FinishHolds
<1>6. CASE Killed(c)
  <2>1. Finish(c, FALSE) /\ call[c].step \in Slotted
    BY <1>6 DEF Killed, Slotted, Kept
  <2> QED BY <2>1, FinishHolds
<1>7. CASE Clean(c)
  <2>1. /\ Release(c, call[c].ok, call[c].first) /\ call[c].step \in Slotted
        /\ dirs' = dirs \ {c}
    BY <1>7 DEF Clean, Cleaned, Slotted, Kept
  <2>2. PICK b, f : Release(c, b, f)
    BY <2>1
  <2> QED BY <2>1, <2>2, Releases
<1>8. CASE Answer(c)
  BY <1>8, AnswerHolds
<1> QED BY <1>1, <1>2, <1>3, <1>4, <1>5, <1>6, <1>7, <1>8 DEF Render

LEMMA FaultHolds ==
  ASSUME IInv, RenderAssumption, NEW c \in Callers, RenderFails(c) PROVE IInv'
<1>1. CASE MakeFails(c)
  <2>1. Release(c, FALSE, FALSE) /\ call[c].step \in Slotted /\ dirs' = dirs \ {c}
    BY <1>1 DEF MakeFails, Slotted, Kept, IInv, WithDir
  <2> QED BY <2>1, Releases
<1>2. CASE Throws(c)
  <2>1. Finish(c, FALSE) /\ call[c].step \in Slotted
    BY <1>2 DEF Throws, Slotted, Kept
  <2> QED BY <2>1, FinishHolds
<1>3. CASE CleanFails(c)
  <2>1. Release(c, FALSE, FALSE) /\ call[c].step \in Slotted /\ dirs' = dirs \ {c}
    BY <1>3 DEF CleanFails, Slotted, Kept
  <2> QED BY <2>1, Releases
<1> QED BY <1>1, <1>2, <1>3 DEF RenderFails

LEMMA NextHolds ==
  ASSUME IInv, RenderAssumption, [Next]_vars PROVE IInv'
<1>1. CASE UNCHANGED vars
  BY <1>1, QuietHolds DEF vars
<1>2. CASE \E c \in Callers : Render(c) \/ RenderFails(c) \/ \E k \in Keys : Begin(c, k)
  BY <1>2, RenderHolds, FaultHolds, BeginHolds
<1>3. CASE \E e \in cache : Expire(e)
  BY <1>3, QuietHolds DEF Expire
<1>4. CASE ChecksPass \/ CheckFails \/ Signal \/ Exit \/ Start
  BY <1>4, QuietHolds DEF ChecksPass, CheckFails, Signal, Exit, Start
<1>5. CASE Crash
  BY <1>5, CrashHolds
<1> QED BY <1>1, <1>2, <1>3, <1>4, <1>5 DEF Next

LEMMA InvariantHolds == ASSUME RenderAssumption PROVE Spec => []IInv
BY InitHolds, NextHolds, PTL DEF Spec

-----------------------------------------------------------------------------
(* The cache and the types.                                                *)

CallRecord == [step : Steps, key : Keys, first : BOOLEAN, ok : BOOLEAN]
CacheEntry == [key : Keys, ok : BOOLEAN, old : BOOLEAN]

CacheOK == cache \subseteq CacheEntry /\ IsFiniteSet(cache) /\ CacheBounded

CallsTyped == call \in [Callers -> CallRecord]

Counters ==
  /\ phase \in {"checking", "ready", "closing", "stopped", "killed"}
  /\ attempts \in 0..MaxAttempts
  /\ calls \in 0..MaxCalls /\ faults \in 0..MaxFaults

TInv == IInv /\ CallsTyped /\ CacheOK /\ Counters

\* Taking entries away leaves a cache; a smaller one if there was something
\* to take.
LEMMA Fewer ==
  ASSUME CacheOK, RenderAssumption, NEW T \in SUBSET cache
  PROVE  /\ T \subseteq CacheEntry /\ IsFiniteSet(T)
         /\ Cardinality(T) \in Nat /\ Cardinality(T) <= MaxEntries
         /\ \A d, e \in T : d.key = e.key => d = e
         /\ \A U \in SUBSET T : IsFiniteSet(U) /\ Cardinality(U) \in Nat
                                /\ Cardinality(U) <= Cardinality(T)
         /\ \A e \in T : Cardinality(T \ {e}) = Cardinality(T) - 1
<1>1. IsFiniteSet(T) /\ Cardinality(T) <= Cardinality(cache)
  BY FS_Subset DEF CacheOK
<1>2. Cardinality(T) \in Nat /\ Cardinality(cache) \in Nat /\ MaxEntries \in Nat
  BY <1>1, FS_CardinalityType DEF CacheOK, RenderAssumption
<1>3. \A U \in SUBSET T : IsFiniteSet(U) /\ Cardinality(U) \in Nat
                          /\ Cardinality(U) <= Cardinality(T)
  BY <1>1, FS_Subset, FS_CardinalityType
<1>4. \A e \in T : Cardinality(T \ {e}) = Cardinality(T) - 1
  BY <1>1, FS_RemoveElement
<1>5. T \subseteq CacheEntry /\ \A d, e \in T : d.key = e.key => d = e
  BY DEF CacheOK, CacheBounded
<1>6. Cardinality(T) <= MaxEntries
  BY <1>1, <1>2 DEF CacheOK, CacheBounded
<1> QED BY <1>1, <1>2, <1>3, <1>4, <1>5, <1>6

LEMMA Shrinks == ASSUME CacheOK, RenderAssumption, cache' \subseteq cache PROVE CacheOK'
<1>1. cache' \in SUBSET cache
  OBVIOUS
<1> QED BY <1>1, Fewer DEF CacheOK, CacheBounded, CacheEntry

\* Of entries that leave room, those with another key, and a new one.
LEMMA AddsOne ==
  ASSUME CacheOK, RenderAssumption, NEW T \in SUBSET cache, Cardinality(T) < MaxEntries,
         NEW x \in CacheEntry, cache' = Without(T, x.key) \union {x}
  PROVE  CacheOK'
<1> DEFINE U == Without(T, x.key)
<1>1. U \in SUBSET T /\ U \in SUBSET cache
  BY DEF Without
<1>2. /\ IsFiniteSet(U) /\ Cardinality(U) \in Nat /\ Cardinality(T) \in Nat
      /\ Cardinality(U) <= Cardinality(T) /\ U \subseteq CacheEntry
      /\ \A d, e \in U : d.key = e.key => d = e
  BY <1>1, Fewer
<1>3. x \notin U /\ \A e \in U : e.key # x.key
  BY DEF Without
<1> HIDE DEF U
<1>4. IsFiniteSet(U \union {x}) /\ Cardinality(U \union {x}) = Cardinality(U) + 1
  BY <1>2, <1>3, FS_AddElement
<1>5. cache' = U \union {x} /\ MaxEntries \in Nat
  BY DEF U, RenderAssumption
<1>6. \A d, e \in U \union {x} : d.key = e.key => d = e
  BY <1>2, <1>3
<1>7. Cardinality(cache') <= MaxEntries
  <2>1. Cardinality(U) + 1 <= MaxEntries
    BY <1>2, <1>5
  <2> QED BY <1>4, <1>5, <2>1
<1> QED BY <1>2, <1>4, <1>5, <1>6, <1>7 DEF CacheOK, CacheBounded, CacheEntry

LEMMA StoreBounded ==
  ASSUME CacheOK, RenderAssumption, NEW k \in Keys, NEW b \in BOOLEAN, Stores(k, b)
  PROVE  CacheOK'
<1> DEFINE x == [key |-> k, ok |-> b, old |-> FALSE]
<1>1. x \in CacheEntry /\ x.key = k
  BY DEF CacheEntry
<1>2. Pruned(cache) \in SUBSET cache
  BY DEF Pruned
<1>3. CASE Full(Pruned(cache))
  <2>1. PICK e \in Pruned(cache) : cache' = Without(Pruned(cache) \ {e}, k) \union {x}
    BY <1>3 DEF Stores
  <2>2. Pruned(cache) \ {e} \in SUBSET cache
    BY <1>2
  <2>3. /\ Cardinality(Pruned(cache)) \in Nat /\ Cardinality(Pruned(cache)) <= MaxEntries
        /\ Cardinality(Pruned(cache) \ {e}) = Cardinality(Pruned(cache)) - 1
    BY <1>2, Fewer
  <2>4. Cardinality(Pruned(cache) \ {e}) < MaxEntries
    BY <2>3 DEF RenderAssumption
  <2> HIDE DEF x
  <2> QED BY <1>1, <2>1, <2>2, <2>4, AddsOne
<1>4. CASE ~Full(Pruned(cache))
  <2>1. cache' = Without(Pruned(cache), k) \union {x}
    BY <1>4 DEF Stores
  <2>2. Cardinality(Pruned(cache)) \in Nat
    BY <1>2, Fewer
  <2>3. Cardinality(Pruned(cache)) < MaxEntries
    BY <1>4, <2>2 DEF Full, RenderAssumption
  <2> HIDE DEF x
  <2> QED BY <1>1, <1>2, <2>1, <2>3, AddsOne
<1> QED BY <1>3, <1>4

\* An entry that grows old keeps its key.
LEMMA ExpireBounded ==
  ASSUME CacheOK, RenderAssumption, NEW e \in cache, Expire(e)
  PROVE  CacheOK'
<1> DEFINE T == cache \ {e}
           x == [e EXCEPT !.old = TRUE]
<1>1. x \in CacheEntry /\ x.key = e.key
  BY DEF CacheOK, CacheEntry
<1>2. T \in SUBSET cache /\ cache' = T \union {x}
  BY DEF Expire
<1>3. Cardinality(T) < MaxEntries
  <2>1. cache \in SUBSET cache
    OBVIOUS
  <2>2. /\ Cardinality(cache) \in Nat /\ Cardinality(cache) <= MaxEntries
        /\ Cardinality(T) = Cardinality(cache) - 1
    BY <2>1, Fewer
  <2> QED BY <2>2 DEF RenderAssumption
<1>4. T = Without(T, x.key)
  BY <1>1 DEF Without, CacheOK, CacheBounded
<1> HIDE DEF T, x
<1> QED BY <1>1, <1>2, <1>3, <1>4, AddsOne

\* One record of a call changes.
LEMMA CallBecomes ==
  ASSUME CallsTyped, NEW c \in Callers, NEW q \in CallRecord, call' = [call EXCEPT ![c] = q]
  PROVE  CallsTyped'
BY DEF CallsTyped

\* What release does to the records.
LEMMA ReleaseTyped ==
  ASSUME TInv, NEW c \in Callers, NEW b \in BOOLEAN, NEW m \in BOOLEAN, Release(c, b, m)
  PROVE  CallsTyped'
<1>1. "answer" \in Steps /\ "make" \in Steps
  BY DEF Steps, Slotted
<1> DEFINE done == [call EXCEPT ![c].step = "answer", ![c].ok = b, ![c].first = m]
<1>2. done \in [Callers -> CallRecord]
  <2>1. call \in [Callers -> CallRecord]
    BY DEF TInv, CallsTyped
  <2>2. [call[c] EXCEPT !.step = "answer", !.ok = b, !.first = m] \in CallRecord
    BY <1>1, <2>1 DEF CallRecord
  <2>3. done = [call EXCEPT ![c] = [call[c] EXCEPT !.step = "answer", !.ok = b, !.first = m]]
    BY <2>1
  <2> QED BY <2>1, <2>2, <2>3
<1>3. CASE Wakes
  <2>1. Head(queue) \in Callers
    BY <1>3 DEF Wakes, TInv, IInv, Lined
  <2>2. call' = [done EXCEPT ![Head(queue)].step = "make"]
    BY <1>3 DEF Release
  <2> HIDE DEF done
  <2>3. call' \in [Callers -> CallRecord]
    BY <1>1, <1>2, <2>1, <2>2 DEF CallRecord
  <2> QED BY <2>3 DEF CallsTyped, CallRecord, Steps, Slotted
<1>4. CASE ~Wakes
  <2>1. call' = done
    BY <1>4 DEF Release
  <2> HIDE DEF done
  <2> QED BY <1>2, <2>1 DEF CallsTyped, CallRecord, Steps, Slotted
<1> QED BY <1>3, <1>4

\* A result is kept, in the cache and in the record of the call.
LEMMA FinishTyped ==
  ASSUME TInv, RenderAssumption, NEW c \in Callers, NEW b \in BOOLEAN, Finish(c, b)
  PROVE  CallsTyped' /\ CacheOK'
<1>1. call[c].key \in Keys
  BY DEF TInv, CallsTyped, CallRecord
<1>2. CacheOK'
  BY <1>1, StoreBounded DEF Finish, TInv
<1>3. PICK q : q = [call[c] EXCEPT !.step = "clean", !.ok = b]
  OBVIOUS
<1>4. q \in CallRecord
  BY <1>3 DEF TInv, CallsTyped, CallRecord, Steps, Slotted
<1>5. call' = [call EXCEPT ![c] = q]
  BY <1>3 DEF Finish, TInv, CallsTyped
<1> QED BY <1>2, <1>4, <1>5, CallBecomes DEF TInv

LEMMA GotoTyped ==
  ASSUME TInv, NEW c \in Callers, NEW s \in Steps, Goto(c, s)
  PROVE  CallsTyped'
<1>1. PICK q : q = [call[c] EXCEPT !.step = s]
  OBVIOUS
<1>2. q \in CallRecord
  BY <1>1 DEF TInv, CallsTyped, CallRecord
<1>3. call' = [call EXCEPT ![c] = q]
  BY <1>1 DEF Goto
<1> QED BY <1>2, <1>3, CallBecomes DEF TInv

LEMMA LookUpTyped ==
  ASSUME TInv, RenderAssumption, NEW c \in Callers, LookUp(c)
  PROVE  CallsTyped' /\ CacheOK'
<1>1. /\ call[c] \in CallRecord /\ call[c].key \in Keys
      /\ {"answer", "make", "queued"} \subseteq Steps
  BY DEF TInv, CallsTyped, CallRecord, Steps, Slotted
<1>2. ASSUME NEW b \in BOOLEAN,
             call' = [call EXCEPT ![c].step = "answer", ![c].ok = b]
      PROVE  CallsTyped'
  <2>1. PICK q : q = [call[c] EXCEPT !.step = "answer", !.ok = b]
    OBVIOUS
  <2>2. q \in CallRecord
    BY <1>1, <2>1 DEF CallRecord
  <2>3. call' = [call EXCEPT ![c] = q]
    BY <1>2, <2>1 DEF TInv, CallsTyped
  <2> QED BY <2>2, <2>3, CallBecomes DEF TInv
<1>3. ASSUME NEW e \in Hits(call[c].key), UNCHANGED <<cache, slotVars>>,
             call' = [call EXCEPT ![c].step = "answer", ![c].ok = e.ok]
      PROVE  CallsTyped' /\ CacheOK'
  <2>1. e.ok \in BOOLEAN
    BY <1>3 DEF Hits, TInv, CacheOK, CacheEntry
  <2>2. CacheOK'
    BY <1>3, Shrinks DEF TInv
  <2> QED BY <1>2, <1>3, <2>1, <2>2
<1>4. ASSUME Stores(call[c].key, FALSE),
             call' = [call EXCEPT ![c].step = "answer", ![c].ok = FALSE]
      PROVE  CallsTyped' /\ CacheOK'
  BY <1>1, <1>2, <1>4, StoreBounded DEF TInv
<1>5. ASSUME cache' = Without(cache, call[c].key), Acquire(c)
      PROVE  CallsTyped' /\ CacheOK'
  <2>1. CacheOK'
    BY <1>5, Shrinks DEF TInv, Without
  <2> QED BY <1>1, <1>5, <2>1, GotoTyped DEF Acquire
<1> QED BY <1>3, <1>4, <1>5 DEF LookUp

LEMMA AnswerTyped ==
  ASSUME TInv, RenderAssumption, NEW c \in Callers, Answer(c)
  PROVE  CallsTyped' /\ CacheOK'
<1>1. {"sweep", "idle"} \subseteq Steps /\ AnyKey \in Keys /\ Fallback \in [Keys -> Keys]
  BY DEF Steps, AnyKey, RenderAssumption
<1>2. call[c].key \in Keys
  BY DEF TInv, CallsTyped, CallRecord
<1>3. CacheOK'
  BY Shrinks DEF Answer, Pruned, TInv
<1>4. PICK q \in CallRecord : call' = [call EXCEPT ![c] = q]
  <2>1. CASE TriesAgain(c)
    <3>1. [step |-> "sweep", first |-> FALSE, ok |-> FALSE, key |-> Fallback[call[c].key]]
            \in CallRecord
      BY <1>1, <1>2 DEF CallRecord
    <3> QED BY <2>1, <3>1 DEF Answer
  <2>2. CASE ~TriesAgain(c)
    <3>1. Idle(AnyKey) \in CallRecord
      BY <1>1 DEF CallRecord, Idle
    <3> QED BY <2>2, <3>1 DEF Answer
  <2> QED BY <2>1, <2>2
<1> QED BY <1>3, <1>4, CallBecomes DEF TInv

LEMMA BeginTyped ==
  ASSUME TInv, RenderAssumption, NEW c \in Callers, NEW k \in Keys, Begin(c, k)
  PROVE  CallsTyped' /\ CacheOK' /\ Counters'
<1>1. CacheOK'
  BY Shrinks DEF Begin, Pruned, TInv
<1>2. [step |-> "sweep", key |-> k, first |-> TRUE, ok |-> FALSE] \in CallRecord
  BY DEF CallRecord, Steps
<1>3. CallsTyped'
  BY <1>2, CallBecomes DEF Begin, TInv
<1>4. Counters'
  BY DEF Begin, TInv, Counters, lifeVars, RenderAssumption
<1> QED BY <1>1, <1>3, <1>4

\* A step of a render, whether something fails or not.
LEMMA RenderTyped ==
  ASSUME TInv, RenderAssumption, NEW c \in Callers, Render(c) \/ RenderFails(c)
  PROVE  CallsTyped' /\ CacheOK' /\ Counters'
<1>0. /\ {"write", "compile", "killed"} \subseteq Steps
      /\ call[c].ok \in BOOLEAN /\ call[c].first \in BOOLEAN
      /\ TRUE \in BOOLEAN /\ FALSE \in BOOLEAN
  BY DEF Steps, Slotted, TInv, CallsTyped, CallRecord
<1>1. Counters'
  <2>1. UNCHANGED <<lifeVars, calls>> /\ (faults' = faults \/ Fault)
    <3>1. CASE Render(c)
      BY <3>1 DEF Render, LookUp, Make, Write, Compiled, TimesOut, Killed, Clean, Answer, Finish
    <3>2. CASE RenderFails(c)
      BY <3>2 DEF RenderFails, MakeFails, Throws, CleanFails, Finish
    <3> QED BY <3>1, <3>2
  <2> QED BY <2>1 DEF Fault, TInv, Counters, lifeVars, RenderAssumption
<1>2. UNCHANGED cache => CacheOK'
  BY Shrinks DEF TInv
<1>3. CASE LookUp(c) \/ Answer(c)
  BY <1>1, <1>3, LookUpTyped, AnswerTyped
<1>4. CASE Make(c) \/ Write(c) \/ TimesOut(c)
  BY <1>0, <1>1, <1>2, <1>4, GotoTyped DEF Make, Write, TimesOut
<1>5. CASE Compiled(c) \/ Killed(c) \/ Throws(c)
  <2>1. PICK b \in BOOLEAN : Finish(c, b)
    <3>1. (call[c].key \in Good) \in BOOLEAN
      OBVIOUS
    <3>2. CASE Compiled(c)
      BY <3>1, <3>2 DEF Compiled
    <3>3. CASE Killed(c) \/ Throws(c)
      BY <1>0, <3>3 DEF Killed, Throws
    <3> QED BY <1>5, <3>2, <3>3
  <2> QED BY <1>1, <2>1, FinishTyped
<1>6. CASE Clean(c) \/ MakeFails(c) \/ CleanFails(c)
  <2>1. PICK b \in BOOLEAN, m \in BOOLEAN : Release(c, b, m) /\ UNCHANGED cache
    BY <1>0, <1>6 DEF Clean, MakeFails, CleanFails
  <2> QED BY <1>1, <1>2, <2>1, ReleaseTyped
<1> QED BY <1>3, <1>4, <1>5, <1>6 DEF Render, RenderFails

LEMMA TypedInit == ASSUME RenderAssumption PROVE Init => TInv
<1> SUFFICES ASSUME Init PROVE TInv
  OBVIOUS
<1>1. IInv
  BY InitHolds
<1>2. CacheOK
  <2>1. Cardinality({}) = 0 /\ IsFiniteSet({})
    BY FS_EmptySet
  <2> QED BY <2>1 DEF Init, CacheOK, CacheBounded, RenderAssumption
<1>3. Idle(AnyKey) \in CallRecord
  BY DEF AnyKey, RenderAssumption, Idle, CallRecord, Steps
<1>4. CallsTyped
  BY <1>3 DEF Init, Free, CallsTyped
<1>5. Counters
  BY DEF Init, Counters, RenderAssumption
<1> QED BY <1>1, <1>2, <1>4, <1>5 DEF TInv

LEMMA CrashTyped ==
  ASSUME TInv, RenderAssumption, Crash
  PROVE  CallsTyped' /\ CacheOK' /\ Counters'
<1>1. CacheOK'
  BY Shrinks DEF Crash, TInv
<1>2. Idle(AnyKey) \in CallRecord
  BY DEF AnyKey, RenderAssumption, Idle, CallRecord, Steps
<1>3. call' \in [Callers -> CallRecord]
  BY <1>2 DEF Crash, Free
<1>4. CallsTyped'
  BY <1>3 DEF CallsTyped, CallRecord, Steps, Slotted
<1>5. Counters'
  BY DEF Crash, Fault, TInv, Counters, RenderAssumption
<1> QED BY <1>1, <1>4, <1>5

LEMMA TypedNext == ASSUME TInv, RenderAssumption, [Next]_vars PROVE TInv'
<1>1. IInv'
  BY NextHolds DEF TInv
<1>2. UNCHANGED <<cache, call>> => CacheOK' /\ CallsTyped'
  BY Shrinks DEF TInv, CallsTyped, CallRecord, Steps, Slotted
<1>3. CASE UNCHANGED vars
  BY <1>1, <1>2, <1>3 DEF vars, TInv, Counters, lifeVars
<1>4. CASE \E c \in Callers : Render(c) \/ RenderFails(c) \/ \E k \in Keys : Begin(c, k)
  BY <1>1, <1>4, RenderTyped, BeginTyped DEF TInv
<1>5. CASE \E e \in cache : Expire(e)
  <2>1. PICK e \in cache : Expire(e)
    BY <1>5
  <2>2. CacheOK'
    BY <2>1, ExpireBounded DEF TInv
  <2>3. CallsTyped' /\ Counters'
    BY <2>1 DEF Expire, TInv, CallsTyped, CallRecord, Steps, Slotted, Counters, lifeVars
  <2> QED BY <1>1, <2>2, <2>3 DEF TInv
<1>6. CASE ChecksPass \/ CheckFails \/ Signal \/ Exit \/ Start
  <2>1. UNCHANGED <<cache, call>>
    BY <1>6 DEF ChecksPass, CheckFails, Signal, Exit, Start
  <2>2. Counters'
    BY <1>6 DEF ChecksPass, CheckFails, Signal, Exit, Start, Fault, TInv, Counters,
       RenderAssumption
  <2> QED BY <1>1, <1>2, <2>1, <2>2 DEF TInv
<1>7. CASE Crash
  BY <1>1, <1>7, CrashTyped DEF TInv
<1> QED BY <1>3, <1>4, <1>5, <1>6, <1>7 DEF Next

LEMMA TypedInvariance == ASSUME RenderAssumption PROVE Spec => []TInv
BY TypedInit, TypedNext, PTL DEF Spec

-----------------------------------------------------------------------------
(* The slots as a pool.                                                    *)

\* Both modules count with the same operator, under two names.
LEMMA SameCardinality == \A S : Pool!Cardinality(S) = Cardinality(S)
BY DEF Cardinality, Pool!Cardinality

LEMMA HoldIsHolding == Hold(call) = Holding /\ Hold(call') = Holding'
BY DEF Hold, Holding

\* Nobody takes or gives back a slot, or comes to the line.
LEMMA PoolStill ==
  ASSUME NEW c \in Callers, NEW s \in Steps, Calls(call), Moved(call, call', c, s),
         UNCHANGED slotVars, call[c].step \in Slotted <=> s \in Slotted
  PROVE  UNCHANGED Pool!poolVars
BY DEF Moved, Calls, Holding, slotVars, Pool!poolVars

LEMMA AcquireTakesOrWaits ==
  ASSUME IInv, RenderAssumption, NEW c \in Callers, call[c].step = "sweep", Acquire(c)
  PROVE  Pool!PoolNext
<1>1. Limit \in Nat /\ active = Cardinality(Holding) /\ active \in Nat /\ active <= Limit
  BY HoldIsHolding DEF RenderAssumption, IInv, Slots
<1>2. Pool!Newcomer(c)
  <2>1. c \notin Holding
    BY DEF Holding, Slotted
  <2>2. \A i \in DOMAIN queue : queue[i] # c
    BY DEF IInv, Lined
  <2> QED BY <2>1, <2>2 DEF Pool!Newcomer, Pool!Waiting
<1>3. CASE MayAcquire
  <2>1. Goto(c, "make") /\ UNCHANGED queue /\ active < Limit
    BY <1>3 DEF Acquire, MayAcquire
  <2>2. queue = <<>>
    BY <1>1, <2>1 DEF IInv, Slots
  <2>3. Holding' = Holding \union {c}
    BY <2>1 DEF Goto, Holding, Slotted, IInv, Calls
  <2>4. Pool!Take(c)
    BY <1>1, <1>2, <2>1, <2>2, <2>3, SameCardinality DEF Pool!Take
  <2> QED BY <2>4 DEF Pool!PoolNext
<1>4. CASE ~MayAcquire
  <2>1. queue' = Append(queue, c) /\ Goto(c, "queued") /\ ~(active < Limit)
    BY <1>4 DEF Acquire, MayAcquire
  <2>2. Cardinality(Holding) = Limit
    BY <1>1, <2>1
  <2>3. Holding' = Holding
    BY <2>1 DEF Goto, Holding, Slotted, IInv, Calls
  <2>4. Pool!Wait(c)
    BY <1>2, <2>1, <2>2, <2>3, SameCardinality DEF Pool!Wait
  <2> QED BY <2>4 DEF Pool!PoolNext
<1> QED BY <1>3, <1>4

LEMMA ReleaseGivesBack ==
  ASSUME IInv, NEW c \in Callers, NEW b, NEW m, Release(c, b, m), call[c].step \in Slotted
  PROVE  Pool!PoolNext
<1>1. PICK done :
        /\ WritesFirst(call, done, c, "answer", b, m)
        /\ IF Wakes THEN /\ queue' = Tail(queue)
                         /\ call' = [done EXCEPT ![Head(queue)].step = "make"]
           ELSE call' = done /\ UNCHANGED queue
  BY DEF Release, WritesFirst
<1>2. Moved(call, done, c, "answer")
  <2>1. "answer" \in Steps
    BY DEF Steps
  <2> QED BY <1>1, <2>1, FirstMoves DEF IInv
<1>3. /\ Calls(done) /\ done[c].step = "answer"
      /\ \A d \in Callers : d # c => done[d] = call[d]
  BY <1>2 DEF Moved
<1>4. c \in Holding /\ Hold(done) = Holding \ {c}
  BY <1>3 DEF Hold, Holding, Slotted
<1>5. CASE ~Wakes
  <2>1. queue = <<>> /\ queue' = queue /\ Holding' = Holding \ {c}
    BY <1>1, <1>4, <1>5, HoldIsHolding DEF Wakes
  <2>2. Pool!GiveBack(c)
    BY <1>4, <2>1 DEF Pool!GiveBack
  <2> QED BY <2>2 DEF Pool!PoolNext
<1>6. CASE Wakes
  <2>1. PICK h : h = Head(queue)
    OBVIOUS
  <2>2. h \in Callers /\ queue # <<>>
    BY <1>6, <2>1 DEF Wakes, IInv, Lined
  <2>3. Moved(done, call', h, "make")
    <3>1. "make" \in Steps
      BY DEF Steps, Slotted
    <3>2. WritesStep(done, call', h, "make")
      BY <1>1, <1>6, <2>1 DEF WritesStep
    <3> QED BY <1>3, <2>2, <3>1, <3>2, StepMoves
  <2>4. Hold(call') = Hold(done) \union {h}
    BY <2>2, <2>3 DEF Moved, Hold, Slotted
  <2>5. Holding' = (Holding \ {c}) \union {Head(queue)}
    BY <1>4, <2>1, <2>4, HoldIsHolding
  <2>6. Pool!HandOver(c)
    BY <1>1, <1>4, <1>6, <2>2, <2>5 DEF Pool!HandOver
  <2> QED BY <2>6 DEF Pool!PoolNext
<1> QED BY <1>5, <1>6

\* Every step of a call is one of the pool, or nothing to it.
LEMMA RenderInPool ==
  ASSUME IInv, RenderAssumption, NEW c \in Callers,
         Render(c) \/ RenderFails(c) \/ \E k \in Keys : Begin(c, k)
  PROVE  Pool!PoolNext \/ UNCHANGED Pool!poolVars
<1>1. Calls(call) /\ {"make", "write", "compile", "killed", "clean", "sweep", "answer",
                      "idle"} \subseteq Steps
  BY DEF IInv, Steps, Slotted
<1>2. ASSUME NEW s \in Kept, call[c].step \in Slotted, UNCHANGED slotVars, Goto(c, s)
      PROVE  UNCHANGED Pool!poolVars
  <2>1. s \in Steps /\ s \in Slotted
    BY DEF Kept, Steps, Slotted
  <2>2. Moved(call, call', c, s)
    BY <1>1, <1>2, <2>1, StepMoves DEF Goto, WritesStep
  <2> QED BY <1>1, <1>2, <2>1, <2>2, PoolStill
<1>3. ASSUME NEW b, Finish(c, b), call[c].step \in Slotted
      PROVE  UNCHANGED Pool!poolVars
  <2>1. "clean" \in Steps /\ "clean" \in Slotted
    BY DEF Steps, Slotted
  <2>2. Moved(call, call', c, "clean") /\ UNCHANGED slotVars
    BY <1>1, <1>3, <2>1, OkMoves DEF Finish, WritesOk
  <2> QED BY <1>1, <1>3, <2>1, <2>2, PoolStill
<1>4. CASE LookUp(c)
  <2>1. CASE Acquire(c)
    BY <1>4, <2>1, AcquireTakesOrWaits DEF LookUp
  <2>2. ASSUME NEW b, WritesOk(call, call', c, "answer", b), UNCHANGED slotVars
        PROVE  UNCHANGED Pool!poolVars
    <3>1. Moved(call, call', c, "answer")
      BY <1>1, <2>2, OkMoves
    <3> QED BY <1>1, <1>4, <2>2, <3>1, PoolStill DEF LookUp, Slotted
  <2> QED BY <1>4, <2>1, <2>2 DEF LookUp, WritesOk
<1>5. CASE Make(c) \/ Write(c) \/ TimesOut(c)
  BY <1>2, <1>5 DEF Make, Write, TimesOut, Kept, Slotted
<1>6. CASE Compiled(c) \/ Killed(c) \/ Throws(c)
  BY <1>3, <1>6 DEF Compiled, Killed, Throws, Slotted
<1>7. CASE Clean(c) \/ MakeFails(c) \/ CleanFails(c)
  BY <1>7, ReleaseGivesBack DEF Clean, MakeFails, CleanFails, Slotted
<1>8. CASE Answer(c) \/ \E k \in Keys : Begin(c, k)
  <2>1. call[c].step \in {"answer", "idle"} /\ UNCHANGED slotVars
    BY <1>8 DEF Answer, Begin
  <2>2. PICK q : q.step \in {"sweep", "idle"} /\ Writes(call, call', c, q)
    <3>1. CASE Answer(c) /\ TriesAgain(c)
      <4>1. PICK q : q = [step |-> "sweep", first |-> FALSE, ok |-> FALSE,
                          key |-> Fallback[call[c].key]]
        OBVIOUS
      <4>2. q.step = "sweep"
        BY <4>1
      <4> QED BY <3>1, <4>1, <4>2 DEF Answer, Writes
    <3>2. CASE Answer(c) /\ ~TriesAgain(c)
      <4>1. PICK q : q = Idle(AnyKey)
        OBVIOUS
      <4>2. q.step = "idle"
        BY <4>1 DEF Idle
      <4> QED BY <3>2, <4>1, <4>2 DEF Answer, Writes
    <3>3. CASE \E k \in Keys : Begin(c, k)
      <4>1. PICK k \in Keys : Begin(c, k)
        BY <3>3
      <4>2. PICK q : q = [step |-> "sweep", key |-> k, first |-> TRUE, ok |-> FALSE]
        OBVIOUS
      <4>3. q.step = "sweep"
        BY <4>2
      <4>4. Writes(call, call', c, q)
        BY <4>1, <4>2 DEF Begin, Writes
      <4> QED BY <4>3, <4>4
    <3> QED BY <1>8, <3>1, <3>2, <3>3
  <2>3. Holding' = Holding
    BY <1>1, <2>1, <2>2 DEF Writes, Calls, Holding, Slotted
  <2> QED BY <2>1, <2>3 DEF slotVars, Pool!poolVars
<1> QED BY <1>4, <1>5, <1>6, <1>7, <1>8 DEF Render, RenderFails

LEMMA StepsInPool ==
  ASSUME IInv, RenderAssumption, [Next]_vars
  PROVE  [Pool!PoolNext]_(Pool!poolVars)
<1>1. UNCHANGED <<call, slotVars>> => UNCHANGED Pool!poolVars
  BY DEF Holding, slotVars, Pool!poolVars
<1>2. CASE UNCHANGED vars
  BY <1>1, <1>2 DEF vars
<1>3. CASE \E c \in Callers : Render(c) \/ RenderFails(c) \/ \E k \in Keys : Begin(c, k)
  BY <1>3, RenderInPool
<1>4. CASE (\E e \in cache : Expire(e)) \/ ChecksPass \/ CheckFails \/ Signal \/ Exit \/ Start
  BY <1>1, <1>4 DEF Expire, ChecksPass, CheckFails, Signal, Exit, Start
<1>5. CASE Crash
  <2>1. Holding' = {} /\ queue' = <<>>
    BY <1>5 DEF Crash, Free, Idle, Holding, Slotted
  <2> QED BY <2>1 DEF Pool!Vanish, Pool!PoolNext
<1> QED BY <1>2, <1>3, <1>4, <1>5 DEF Next

LEMMA PoolStarts == Init => Pool!PoolInit
BY DEF Init, Free, Idle, Holding, Slotted, Pool!PoolInit

-----------------------------------------------------------------------------
\* withRenderSlot counts exactly the renders that hold a slot, and never more
\* than the limit.
THEOREM SlotsExact == Spec => []SlotsCounted
<1>1. IInv => SlotsCounted
  BY DEF IInv, Slots, SlotsCounted, Hold, Holding
<1> QED BY <1>1, InvariantHolds, RenderAssumption, PTL

\* release wakes somebody whenever somebody waits: the queue is only used when
\* every slot is taken.
THEOREM NoWakeUpIsLost == Spec => []NobodyWaitsForAFreeSlot
<1>1. IInv => NobodyWaitsForAFreeSlot
  BY DEF IInv, Slots, NobodyWaitsForAFreeSlot
<1> QED BY <1>1, InvariantHolds, RenderAssumption, PTL

\* renderTypstToSvg removes its workspace before it gives its slot back.
THEOREM WorkspacesHaveOwners == Spec => []WorkspacesOwned
<1>1. IInv => WorkspacesOwned
  BY DEF IInv, WithDir, Kept, Slotted, WorkspacesOwned, Holding
<1> QED BY <1>1, InvariantHolds, RenderAssumption, PTL

\* Types hold for any number of callers, keys and faults.
THEOREM TypeCorrect == Spec => []TypeOK
<1>1. TInv => TypeOK
  BY DEF TInv, IInv, Lined, Slots, WithDir, CacheOK, CallsTyped, Counters, CallRecord,
     CacheEntry, TypeOK
<1> QED BY <1>1, TypedInvariance, RenderAssumption, PTL

\* setCachedRenderResult keeps the Map within maxEntries, one entry for a key.
THEOREM CacheIsBounded == Spec => []CacheBounded
<1>1. TInv => CacheBounded
  BY DEF TInv, CacheOK
<1> QED BY <1>1, TypedInvariance, RenderAssumption, PTL

\* withRenderSlot is a pool with one line: a caller gets a slot at once only if
\* nobody waits, and a release gives it to who has waited longest.
THEOREM SlotsAreFair == Spec => FairSlots
<1>1. IInv /\ [Next]_vars => [Pool!PoolNext]_(Pool!poolVars)
  BY StepsInPool, RenderAssumption
<1> QED BY <1>1, PoolStarts, InvariantHolds, RenderAssumption, PTL
        DEF Spec, FairSlots, Pool!PoolSpec
=============================================================================
