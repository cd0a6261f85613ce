---------------------------- MODULE RenderService ----------------------------
(***************************************************************************)
(* The render service of the worker process: renderTypstToSvg with its     *)
(* cache, its slots, its workspaces and its compiler processes, called by  *)
(* queue jobs and by the preview route, from the start of the process to   *)
(* its exit (apps/worker/src/renderer and apps/worker/src/index.ts).       *)
(*                                                                         *)
(* Each action of a call ends where the code awaits.  A source is its      *)
(* cache key.  What the compiler says of a source is fixed by the key      *)
(* (Good, Unsafe, neither), but a render of it may also time out or fail.  *)
(*                                                                         *)
(* Abstracted: SVG and log contents, hashes, statistics, log records, the  *)
(* internal token, and time: entries age, and timers fire, at any moment.  *)
(* Directories left by a crash or a failed rm are not kept: only the sweep *)
(* touches them, and it leaves alone what is younger than a render lasts.  *)
(* The order of insertion of the cache is not kept: any entry may be the   *)
(* oldest.                                                                 *)
(***************************************************************************)
EXTENDS Integers, FiniteSets, Sequences

CONSTANTS
  Callers,      \* job processors and preview requests of the process
  Jobs,         \* those of them that BullMQ runs
  Keys,         \* purpose and source, as the cache key has them
  Good,         \* sources Typst compiles
  Unsafe,       \* sources the preflight refuses
  Fallback,     \* the quoted form a math preview tries next, or the key itself
  Limit,        \* TYPST_MAX_CONCURRENT_RENDERS
  MaxEntries,   \* RENDER_CACHE_MAX_ENTRIES (the code takes at least 10)
  MaxAttempts,  \* WORKER_STARTUP_MAX_ATTEMPTS
  MaxCalls,     \* bound: calls taken
  MaxFaults     \* bound: crashes, failed checks and failed system calls

ASSUME RenderAssumption ==
  /\ IsFiniteSet(Callers) /\ Jobs \subseteq Callers
  /\ Keys # {} /\ Good \subseteq Keys /\ Unsafe \subseteq Keys
  /\ Fallback \in [Keys -> Keys]
  /\ {Limit, MaxEntries, MaxAttempts} \subseteq Nat \ {0}
  /\ {MaxCalls, MaxFaults} \subseteq Nat

VARIABLES
  phase,     \* runtimeState and whether the process still runs
  attempts,  \* failed startup checks
  active,    \* activeRenders
  queue,     \* callers whose resolve function waits for a slot
  cache,     \* entries of the Map
  call,      \* what every caller is doing
  dirs,      \* callers whose workspace directory exists
  calls,     \* calls taken so far
  faults     \* faults so far

lifeVars == <<phase, attempts>>
slotVars == <<active, queue>>
vars == <<lifeVars, slotVars, cache, call, dirs, calls, faults>>

\* Steps during which a caller holds a slot.
Slotted == {"make", "write", "compile", "killed", "clean"}
Steps == {"idle", "sweep", "queued", "answer"} \union Slotted

Idle(k) == [step |-> "idle", key |-> k, first |-> TRUE, ok |-> FALSE]
AnyKey == CHOOSE k \in Keys : TRUE
Free == [c \in Callers |-> Idle(AnyKey)]

Holding == {c \in Callers : call[c].step \in Slotted}
Busy == {c \in Callers : call[c].step # "idle"}

TypeOK ==
  /\ phase \in {"checking", "ready", "closing", "stopped", "killed"}
  /\ attempts \in 0..MaxAttempts
  /\ active \in Nat
  /\ queue \in Seq(Callers)
  /\ cache \subseteq [key : Keys, ok : BOOLEAN, old : BOOLEAN]
  /\ call \in [Callers -> [step : Steps, key : Keys, first : BOOLEAN, ok : BOOLEAN]]
  /\ dirs \subseteq Callers
  /\ calls \in 0..MaxCalls /\ faults \in 0..MaxFaults

Init ==
  /\ phase = "checking" /\ attempts = 0
  /\ active = 0 /\ queue = <<>>
  /\ cache = {}
  /\ call = Free
  /\ dirs = {}
  /\ calls = 0 /\ faults = 0

Alive == phase \in {"checking", "ready", "closing"}

Fault == faults < MaxFaults /\ faults' = faults + 1

-----------------------------------------------------------------------------
(***************************************************************************)
(* Cache.                                                                  *)
(***************************************************************************)
Fresh(e) == ~e.old

\* pruneExpiredEntries
Pruned(s) == {e \in s : Fresh(e)}

\* cache.delete
Without(s, k) == {e \in s : e.key # k}

OverFull(s) == Cardinality(s) > MaxEntries   \* mutant of Full: one entry too many
Full(s) == Cardinality(s) >= MaxEntries

\* setCachedRenderResult: the oldest key goes when the Map is full, even if the
\* new one is there already and only its value is replaced.
Stores(k, isOk) ==
  LET pruned == Pruned(cache)
      entry == [key |-> k, ok |-> isOk, old |-> FALSE]
  IN IF Full(pruned)
     THEN \E e \in pruned : cache' = Without(pruned \ {e}, k) \union {entry}
     ELSE cache' = Without(pruned, k) \union {entry}

\* Time passes for an entry.
Expire(e) ==
  /\ ~e.old
  /\ cache' = (cache \ {e}) \union {[e EXCEPT !.old = TRUE]}
  /\ UNCHANGED <<lifeVars, slotVars, call, dirs, calls, faults>>

-----------------------------------------------------------------------------
(***************************************************************************)
(* Slots.                                                                  *)
(***************************************************************************)
Goto(c, step) == call' = [call EXCEPT ![c].step = step]

AcquireAtLimit == active <= Limit   \* mutant of MayAcquire: one slot too many
MayAcquire == active < Limit

\* acquire
Acquire(c) ==
  \/ /\ MayAcquire
     /\ active' = active + 1
     /\ Goto(c, "make")
     /\ UNCHANGED queue
  \/ /\ ~MayAcquire
     /\ queue' = Append(queue, c)
     /\ Goto(c, "queued")
     /\ UNCHANGED active

WakeNobody == FALSE   \* mutant of Wakes: a slot is freed and the queue sleeps on
Wakes == queue # <<>>

\* mutant of Release: the caller that is woken is not counted
ReleaseUncounted(c, isOk, more) ==
  LET done == [call EXCEPT ![c].step = "answer", ![c].ok = isOk, ![c].first = more] IN
  /\ active' = active - 1
  /\ queue' = IF queue = <<>> THEN queue ELSE Tail(queue)
  /\ call' = IF queue = <<>> THEN done
             ELSE [done EXCEPT ![Head(queue)].step = "make"]

\* mutant of Release: who came last is served first
ReleaseToLast(c, isOk, more) ==
  LET done == [call EXCEPT ![c].step = "answer", ![c].ok = isOk, ![c].first = more]
      last == Len(queue)
  IN /\ queue' = IF Wakes THEN SubSeq(queue, 1, last - 1) ELSE queue
     /\ call' = IF Wakes THEN [done EXCEPT ![queue[last]].step = "make"] ELSE done
     /\ active' = IF Wakes THEN active ELSE active - 1

\* release by a caller that goes on to answer (more: it may render again): the
\* first of the queue is counted again in the same turn.
Release(c, isOk, more) ==
  LET done == [call EXCEPT ![c].step = "answer", ![c].ok = isOk, ![c].first = more] IN
  IF Wakes
  THEN /\ queue' = Tail(queue)
       /\ call' = [done EXCEPT ![Head(queue)].step = "make"]
       /\ UNCHANGED active
  ELSE /\ active' = active - 1
       /\ call' = done
       /\ UNCHANGED queue

-----------------------------------------------------------------------------
(***************************************************************************)
(* renderTypstToSvg.                                                       *)
(***************************************************************************)
\* A job is taken as soon as the queue worker exists, before the startup
\* checks have passed; the preview route listens only afterwards.
Open(c) ==
  \/ phase = "ready"
  \/ phase = "checking" /\ c \in Jobs

\* configureRenderCache prunes; then the sweep is awaited.
Begin(c, k) ==
  /\ Open(c) /\ call[c].step = "idle"
  /\ calls < MaxCalls /\ calls' = calls + 1
  /\ cache' = Pruned(cache)
  /\ call' = [call EXCEPT ![c] = [step |-> "sweep", key |-> k,
                                  first |-> TRUE, ok |-> FALSE]]
  /\ UNCHANGED <<lifeVars, slotVars, dirs, faults>>

Alike(e, k) == Fresh(e) /\ e.key = k
Hits(k) == {e \in cache : Alike(e, k)}

\* getCachedRenderResult, runRenderPreflight, acquire: one turn.
LookUp(c) ==
  /\ Alive /\ call[c].step = "sweep"
  /\ LET k == call[c].key IN
     \/ \E e \in Hits(k) :
          /\ call' = [call EXCEPT ![c].step = "answer", ![c].ok = e.ok]
          /\ UNCHANGED <<cache, slotVars>>
     \/ /\ Hits(k) = {} /\ k \in Unsafe
        /\ Stores(k, FALSE)
        /\ call' = [call EXCEPT ![c].step = "answer", ![c].ok = FALSE]
        /\ UNCHANGED slotVars
     \/ /\ Hits(k) = {} /\ k \notin Unsafe
        /\ cache' = Without(cache, k)
        /\ Acquire(c)
  /\ UNCHANGED <<lifeVars, dirs, calls, faults>>

\* createRenderWorkspace; when it throws, withRenderSlot still releases.
Make(c) ==
  /\ Alive /\ call[c].step = "make"
  /\ dirs' = dirs \union {c}
  /\ Goto(c, "write")
  /\ UNCHANGED <<lifeVars, slotVars, cache, calls, faults>>

MakeFails(c) ==
  /\ Alive /\ call[c].step = "make"
  /\ Fault
  /\ Release(c, FALSE, FALSE)
  /\ UNCHANGED <<lifeVars, cache, dirs, calls>>

\* writeRenderSource, then runTypstCompile spawns the compiler.
Write(c) ==
  /\ Alive /\ call[c].step = "write"
  /\ Goto(c, "compile")
  /\ UNCHANGED <<lifeVars, slotVars, cache, dirs, calls, faults>>

\* A result is cached, whatever it is, and the workspace is removed.
Finish(c, isOk) ==
  /\ Stores(call[c].key, isOk)
  /\ call' = [call EXCEPT ![c].step = "clean", ![c].ok = isOk]
  /\ UNCHANGED <<lifeVars, slotVars, dirs, calls>>

\* Writing or spawning throws: mapUnexpectedRenderError, cached as a failure.
Throws(c) ==
  /\ Alive /\ call[c].step \in {"write", "compile"}
  /\ Fault
  /\ Finish(c, FALSE)

\* The compiler exits and its output is read.
Compiled(c) ==
  /\ Alive /\ call[c].step = "compile"
  /\ Finish(c, call[c].key \in Good)
  /\ UNCHANGED faults

\* The timer kills it first; the close event follows, and timedOut decides.
TimesOut(c) ==
  /\ Alive /\ call[c].step = "compile"
  /\ Goto(c, "killed")
  /\ UNCHANGED <<lifeVars, slotVars, cache, dirs, calls, faults>>

Killed(c) ==
  /\ Alive /\ call[c].step = "killed"
  /\ Finish(c, FALSE)
  /\ UNCHANGED faults

\* cleanupRenderWorkspace, then release.
CleanNothing(c) == dirs   \* mutant of Cleaned: the workspace stays
Cleaned(c) == dirs \ {c}

Clean(c) ==
  /\ Alive /\ call[c].step = "clean"
  /\ dirs' = Cleaned(c)
  /\ Release(c, call[c].ok, call[c].first)
  /\ UNCHANGED <<lifeVars, cache, calls, faults>>

\* Its rm throws: the caller gets the error, the directory stays.
CleanFails(c) ==
  /\ Alive /\ call[c].step = "clean"
  /\ Fault
  /\ dirs' = dirs \ {c}
  /\ Release(c, FALSE, FALSE)
  /\ UNCHANGED <<lifeVars, cache, calls>>

\* The preview route tries the quoted form of a math source that failed,
\* after its first render has given its slot back.
TriesAgain(c) ==
  /\ c \notin Jobs /\ call[c].first /\ ~call[c].ok
  /\ Fallback[call[c].key] # call[c].key

Answer(c) ==
  /\ Alive /\ call[c].step = "answer"
  /\ IF TriesAgain(c)
     THEN /\ call' = [call EXCEPT ![c] = [step |-> "sweep", first |-> FALSE,
                        ok |-> FALSE, key |-> Fallback[call[c].key]]]
          /\ cache' = Pruned(cache)
     ELSE /\ call' = [call EXCEPT ![c] = Idle(AnyKey)]
          /\ UNCHANGED cache
  /\ UNCHANGED <<lifeVars, slotVars, dirs, calls, faults>>

-----------------------------------------------------------------------------
(***************************************************************************)
(* The process.                                                            *)
(***************************************************************************)
\* runWorkerStartupChecksWithRetry; the process listens when they pass.
ChecksPass ==
  /\ phase = "checking"
  /\ phase' = "ready"
  /\ UNCHANGED <<attempts, slotVars, cache, call, dirs, calls, faults>>

CheckFails ==
  /\ phase = "checking" /\ attempts < MaxAttempts
  /\ Fault
  /\ attempts' = attempts + 1
  /\ phase' = IF attempts' = MaxAttempts THEN "closing" ELSE phase
  /\ UNCHANGED <<slotVars, cache, call, dirs, calls>>

\* SIGTERM: nothing new is taken, what runs is awaited.  The handler is
\* registered after the start; a signal before that is a Crash.
Signal ==
  /\ phase = "ready"
  /\ phase' = "closing"
  /\ UNCHANGED <<attempts, slotVars, cache, call, dirs, calls, faults>>

Drained == Busy = {}

\* worker.close() and app.close() have settled.
Exit ==
  /\ phase = "closing" /\ Drained
  /\ phase' = "stopped"
  /\ UNCHANGED <<attempts, slotVars, cache, call, dirs, calls, faults>>

\* An uncaught exception, a kill, or the shutdown timer.  The container takes
\* the compilers with it; directories stay.
Crash ==
  /\ Alive /\ Fault
  /\ phase' = "killed"
  /\ attempts' = 0
  /\ active' = 0 /\ queue' = <<>> /\ cache' = {} /\ call' = Free
  /\ dirs' = {}
  /\ UNCHANGED calls

\* The container is started again and sweeps before its checks.
Start ==
  /\ phase = "killed"
  /\ phase' = "checking"
  /\ UNCHANGED <<attempts, slotVars, cache, call, dirs, calls, faults>>

-----------------------------------------------------------------------------
Render(c) ==
  \/ LookUp(c) \/ Make(c) \/ Write(c) \/ Compiled(c) \/ TimesOut(c) \/ Killed(c)
  \/ Clean(c) \/ Answer(c)

RenderFails(c) == MakeFails(c) \/ Throws(c) \/ CleanFails(c)

Next ==
  \/ \E c \in Callers :
       Render(c) \/ RenderFails(c) \/ \E k \in Keys : Begin(c, k)
  \/ \E e \in cache : Expire(e)
  \/ ChecksPass \/ CheckFails \/ Signal \/ Exit \/ Crash \/ Start

Spec == Init /\ [][Next]_vars

\* Awaited system calls return, the compiler exits or its timer fires, and a
\* process that may exit does.  Nothing makes a caller call.
Fairness == (\A c \in Callers : WF_vars(Render(c))) /\ WF_vars(Exit)

FairSpec == Spec /\ Fairness

-----------------------------------------------------------------------------
(***************************************************************************)
(* Properties.                                                             *)
(***************************************************************************)
\* The counter of the slots is the number of renders that hold one, and never
\* exceeds the limit, whichever of them fail, time out or queue.
SlotsCounted == active = Cardinality(Holding) /\ active <= Limit

\* No caller waits while a slot is free: no wake-up is lost.
NobodyWaitsForAFreeSlot == queue # <<>> => active = Limit

\* Every workspace that is not left to the sweep belongs to a render that
\* holds a slot, so at most Limit of them exist.
WorkspacesOwned == dirs \subseteq Holding

\* The cache has one entry for a key and never more than its limit, although
\* renders of one source that overlap store their results one after the other.
CacheBounded ==
  /\ Cardinality(cache) <= MaxEntries
  /\ \A d, e \in cache : d.key = e.key => d = e

\* The slots are given in the order in which callers ask for them: who comes
\* while others wait never overtakes them, and each release serves the first.
Pool == INSTANCE SlotPool WITH
  Users <- Callers, Size <- Limit, holders <- Holding, line <- queue

FairSlots == Pool!PoolSpec

\* Every call ends, by an answer or with the process, although a preview may
\* take a slot twice and renders queue for slots.
CallsEnd == \A c \in Callers : call[c].step # "idle" ~> call[c].step = "idle"

\* A process that was told to stop does stop: what it drains comes to its end
\* although renders wait for each other's slots.
ShutdownEnds == phase = "closing" ~> phase \in {"stopped", "killed"}
=============================================================================
