# Verification of typ-nique

typ-nique is a game in which players retype rendered formulas in Typst. A
Fastify API keeps all state in Postgres through Prisma, a BullMQ worker renders
and compares answers, and a Next.js front end polls the API or listens on a
WebSocket. This project models the parts of that system whose correctness
depends on the order in which requests, jobs and clients run.

Paths below are relative to `src/`; `ms` stands for
`apps/api/src/services/multiplayer-service.ts`.

## Inventory

| Component | State it keeps | Operations | What is hard | What makes it correct |
|---|---|---|---|---|
| Multiplayer room (`ms`, `multiplayer-standings.ts`) | match row (status, roomVersion, host, countdownEndsAt), membership rows, linked session rows | create, join, leave, ready, start, reset, get; `reconcileMultiplayerRoom` after each | transactions at READ COMMITTED that load, decide and compare-and-swap `roomVersion`; several transactions per request; some writes without the version | seats, host, countdown, sessions and status agree; no status is skipped; places stand; countdowns and races end |
| Solo session and crediting (`submission-service.ts`, `session-progression-service.ts`, `game-service.ts`, `render-check-job.ts`) | session, rounds, submissions, score records, render queue | submit, skip, finish, poll, expire, progress, extend; the job | no transactions at all; a request that waits for the worker and gives up; stalled jobs | one credit per correct answer, one record per credit, rounds in order, the session ends and moves on |
| Live room delivery (`multiplayer-gateway.ts`, `multiplayer-live-hub.ts`, `use-multiplayer-room.ts`, `multiplayer-room-sync.ts`) | connections, subscriptions, sequence numbers, the page's cursor | upgrade, subscribe, heartbeat, scan, close, publish, merge | awaits between reading and writing a connection; two sequence spaces; events published out of commit order; cuts and restarts | the screen never goes back, commits reach it, page and row end connected |
| Render service (`apps/worker/src/renderer`, `index.ts`) | slots, waiters, cache, workspaces, the state of the process | acquire, release, cache, compile with timeout, start, shutdown | every path must release; fallback renders take a second slot; shutdown waits for renders | never more than the limit, no waiter forgotten, calls and shutdowns end |
| Identity (`lib/auth.ts`, `auth-service.ts`) | cookies, player and auth sessions | login, promote, logout, who a request is | three updates without a transaction, while answers are credited | scores and runs belong to the same user |
| Daily runs and the play page (`game-service.ts`, `challenge-service.ts`, `play-client.tsx`, `auth-controls.tsx`) | the day's challenge, runs, the page's session, its stored run | create, get, answer, skip, finish; bootstrap, poll, refresh | racing creators; answers that overtake each other; two player sessions on a first visit | the page comes back to the true state of a run |
| Round editor (`use-round-play.ts`, `live-render-preview.tsx`, `multiplayer-race-client.tsx`) | text, drafts, preview, answers in flight | type, preview, submit, skip, show a round | aborts and effects of one commit; the page submits by itself | previews are of what is on screen, one call at a time, drafts are the text |
| Challenge streams (`ms` 578-660, 1341-1388) | list of challenges of a room and of its sessions | start, extend, draw | read-modify-write by several players, no version check | everyone plays the same challenges in the same order |
| Leaderboards (`leaderboard-service.ts`) | the 15 s cache | the queries and the cache | requests overwrite each other's entries while runs end or change owner | boards list each player once, the right day, one player's runs |
| Rate limits (`rate-limit.ts`) | buckets | count a request | the edge of a window | never more than twice the limit in a window's time |
| Answer checker, routes, start-up, screens, seeds | none | pure functions, input and output | | not modelled |

How they interact: clients call the routes; the room service creates and
activates sessions, `finishGameSession` and the progression call back into the
room (`syncMultiplayerSessionState`); the submission service queues jobs and
polls the database for their verdict; the room publishes snapshots to the hub
after its transactions; the gateway calls the room service. Jobs and previews
share the slots of the render service. A login moves a guest's runs and scores to
the user.

## Modules

| Module | What it is |
|---|---|
| `MultiplayerRoom` | the room: every operation as the transactions and reconciliation it runs |
| `RoomLifecycle` | the abstract room: who is in, host, ready, racing, and the allowed changes of status |
| `MCMultiplayerRoom` | symmetry for the small instances |
| `MultiplayerRoomProofs` | safety of the room and its refinement of `RoomLifecycle` for all parameters |
| `SessionPlay` | one solo session, its submissions, jobs, credits and progression |
| `MCSessionPlay` | symmetry for the small instances |
| `SessionPlayProofs` | types, the order of rounds and the balance of credits for all parameters |
| `LiveRoom` | one page of a room: publications, hub, gateway, sockets and hook |
| `RateLimiter` | the buckets of `checkRateLimit` |
| `GatewayProofs` | what holds of `LiveRoom` and `RateLimiter`, both in front of the gateway, for all parameters |
| `SlotPool` | the abstract pool: some slots and one line in front of them |
| `RenderService`, `MCRenderService`, `RenderServiceProofs` | slots, cache, workspaces and life of the worker process; its sources for TLC; slots, their fairness, types and the bound of the cache for all parameters |
| `PlayerRuns` | the API behind the daily page: identity, promotion, runs and scores |
| `PlayFlow`, `PlayFlowProofs` | `PlayerRuns` with the page in front of it; types and owners of scores for all parameters |
| `RoundEditor`, `RoundEditorProofs` | the editor of a race, proved for all parameters |
| `ChallengeStream`, `ChallengeStreamProofs` | the shared list of a race, proved for all parameters |
| `Leaderboards`, `LeaderboardsProofs` | boards and their cache, proved for all parameters |

### MultiplayerRoom

State: `status`, `version`, `host`, `countdown` are the columns of
`MultiplayerMatch`; `joined`, `left`, `ready`, `place` those of
`MultiplayerMatchPlayer` (`leftAt`/`readyAt` set or not); `session` the status
of the linked `GameSession`. `req[r]` is a request in flight: the transaction
it is in (`step`), what it loaded that its writes use, and how many calls of
`reconcileMultiplayerRoom` the handler still has to make.

Each operation is two actions, `XLoad` (the load and the checks after it) and
`XCommit` (the writes and `updateRoomVersioned`). A request whose version is no
longer current takes `Conflict`: the transaction rolls back and the handler
ends with "Room version conflict.". A load is one action although Prisma issues
several SELECTs for it; one that runs later can only show a change
that raised the version too, so that the commit is refused, or the end of a
session, as a later load would. Reconciliation is `ReconcileLoad`, which picks one branch as the
code does, and the actions of that branch. Two branches are not like the others and
are modelled as they are: `activateCountdownStart` loads the room a second time
(`ActivateReload`) and takes the version from there, and
`finalizePlacementsInTransaction` loads three times and writes places without
looking at the version unless it completes the room (`PlacesLoad`,
`PlacesCommit`, `CompleteLoad`, `CompleteCommit`). `Crash` ends a request
between its transactions.

Abstracted: times (the countdown is none, running or due), the random next host
and the order of the standings (any choice), connection status, challenge ids,
published events. Calls that fail a check change nothing and are left out.
`EndSession` is any end of a session (finish, expiry noticed by a poll) and is
unconditional because `finishGameSession` is. `finalizeMultiplayerPlacements`
is exported and has no caller.

### SessionPlay

State: the session row (`status`, `expired`, `listed`, `attempted`, `solved`),
`rounds` by position, `subs` (submissions), `records` (score records), `queue`
(waiting jobs), and what each request and worker slot is doing. No handler here
uses a transaction, so each action is one query that changes state; a read is
joined to the action next to it only when no other step can come between them
to any effect (the comments say why). `SubmitLoad` to `WaitTimesOut` are
`submitAttempt`, `ResolveRound` to `RecordScore` are
`acceptResolvedSubmission`, `TakeJob` to `RecordJob` are
`handleRenderCheckJob` (a job is taken, rendered and judged; it may be lost or fail
before its verdict is written as well as after), `SkipLoad` to `CountSkip` are
`skipCurrentRound`, and `NotYetExpired` to `InsertRound` are `ensureSessionProgression`.

Abstracted: the checker (any verdict), points (each credit counts one, so
`solved` is also the total), streaks, challenge ids (`listed` is a length), and
the look-up of an equal source within ten seconds (that request only moves the
session on, as a poll does). The queue is BullMQ, modelled from how the worker
uses it: a job is handed out in order, handed out again when its worker is lost
(`Stall`), and given up when it fails, because jobs are added with one attempt
(`FailJob`).

### LiveRoom

One player's page of one room; the other pages act as `OthersCommit`,
`RoundResolved` and `OthersDirect`. A snapshot is the version of the room and its
news, because a resolved round is published without a new version. `pub` holds the
calls of `publishAuthoritativeRoomEvents` under way, which load the room
(`PublishLoad`) and send it (`PublishSend`) at different moments. `link[s]` is a
socket as the gateway and the hub know it: `room.subscribe` is `SubscribeLoad`,
`SubscribeAttach` and `SubscribeMark`, the end of a connection is `HandleClosed` and
`MarkDisconnected`, the scan `ScanMark` and `ScanClose`, each split where the code
awaits. `page`, `shown` and `cursor` are the hook. Cuts, restarts of the API, silent
pages, failed subscriptions and closed tabs are the faults. Abstracted: the checks
of the upgrade request, the audit log, a second page of the same player,
`room.leave` over the socket.

### RenderService

`call[c]` is where a caller is inside `renderTypstToSvg`, one action for every
stretch between two awaits; `active` and `queue` are the semaphore, whose release
wakes the first waiter and counts it again in the same turn (`Release`). A source is
its cache key, and the compiler's verdict belongs to the key, but any render may
time out (`TimesOut`, `Killed`) or fail (`MakeFails`, `Throws`, `CleanFails`). The
cache is a set of entries: a full `Map` gives up its oldest key, here any entry may be
the oldest, since no property asks which. Jobs are taken before the start-up checks
have passed and previews afterwards, as in `index.ts`. A shutdown drains; the timer
that ends it by force is a `Crash`. Time is left out: an entry ages and a timer fires
at any moment. Directories left by a crash are not kept: only the sweep touches them.

### PlayerRuns and PlayFlow

`PlayerRuns` has the rows (`players`, `auths`, `daily`, `runs`, `scores`) and the
cookies of one browser. A request carries the cookies of the moment it was sent and
goes through its handler query by query; `Identify` is
`resolveAuthContextFromHeaders` with `ensurePlayerSession`; `LinkPlayer`, `ClaimRuns`
and `ClaimScores` are the three updates of `promoteGuestHistory`, any of which may
fail. `FindRun` may find any active run of its owner: the code takes the one with the
latest `startedAt`, which overlapping creations take before their insert. A credit and the step to the next round
are one action here, because `SessionPlay` has them in detail. `PlayFlow` adds the
page: each answer it handles is one action that includes the React commit and the
effects that follow it; one that follows an answer still queued for the worker may
fetch the session at once (`Refetches`). Other tabs log in and out. The page's own `isPending` is
that of its finish button (`play-client.tsx`:13), so several answers may be in
flight; only a skip waits for them.

### RoundEditor

The race page only: the solo page gives the same hook another flag. A React commit
and its effects are one action, the preview's effect before those of `useRoundPlay`.
Next renders with its own React 19, where a transition with an async function is
pending until its promise settles; so `Pending` is `calls # {}`. An effect of the
render that shows a new round still sees the text and preview of the old one
(`Show`): the old text may be submitted for the new round by itself. The module has
that step; the theorems say what holds all the same.

### ChallengeStream

`stream` is the list of the room, `lists` the copies, `rounds` what was drawn. An
extension loads (`Extended`, `ExtendLoad`) and commits (`ExtendCommit`) and nothing
keeps two of them apart; they agree because a cycle is a function of the seed and
the list (`NextCycle`). Nothing in the code keeps a held-up extension or start from
writing an older, shorter list back, so a race may end early for a player; the module
has these steps and claims nothing about the length of lists. That no transaction
lasts as long as a player takes for a whole cycle is `Prompt`, which is no part of
`Spec` but a hypothesis of the theorems. One race is modelled; a request of the race
before is not.

### Leaderboards and RateLimiter

A board is the set of runs it lists; its order is `Above`. A request looks up the
owner (`Owner`), reads its one or two lists in any order and stores them whatever
the entry holds by then (`Store`), while runs end and change (`Ends`, `Changed`).
`RateLimiter` is `checkRateLimit` with any times between requests; `passed` is a
record of what was allowed that no code reads. Its names begin with `Limit` where
`LiveRoom` has the same, so that `GatewayProofs` can extend both.

## Runs

| Run | Question | Instance |
|---|---|---|
| `room_concurrent` | what the version check keeps true when two requests overlap in every way, and which one change is not a step of the abstract room | 3 people, 2 seats, 2 requests, version up to 10 |
| `room_serial` | whether the room is the abstract room and places stand when requests do not overlap, and whether races end, also the second and after a crash | 3 people and seats, 1 request, 1 crash, version up to 16 |
| `room_progress` | whether countdowns, races and empty rooms come to an end when requests overlap | 2 people, 2 requests, version up to 8 |
| `room_start_race` (violation) | a race with one player | 2 people, 2 requests |
| `room_place_clash` (violation) | a place given twice | 3 people, 1 request |
| `session_answers` | rounds in order, credits and records balanced up to what dies | practice, 2 requests, 1 worker, 2 calls, 1 stall, 1 crash |
| `session_progress` | the session ends, moves on, and correct answers are scored, but for one for each death | daily with 2 challenges, 2 requests, 1 worker, 2 calls, 1 crash |
| `session_double_credit` (violation) | a round credited twice | 1 request, 1 worker, 2 calls |
| `live_room` | whether screen and connection status follow the room whatever is lost or reordered | 1 publication at a time, 2 changes or calls, 1 fault, so 2 sockets |
| `live_reconnect` (violation) | an event dropped after a reconnect | the same |
| `render_service` | slots exact, nobody overtaken or forgotten, the cache within its limit, calls and shutdowns end | 1 job and 2 previews, 1 slot, cache of 1, 3 calls, 1 fault |
| `play_flow` | scores keep their owner, the page comes back to a true state | 1 user, 2 requests, 2 rounds, 2 calls, 1 poll, 1 fault |

Why the bounds are enough. In the room, three people and two seats are the
smallest instance with a last seat to compete for, a host to replace and a player to
be placed after another; two requests give every pair of overlapping
transactions, and each transaction only compares its own version with the
room's. Version 10 is beyond a full life (join, two readies, start, race,
complete, reset), 16 reaches a second race after a reset, which the place clash
needs; no new client transaction starts at the bound, those under way finish. So the
bound is also an assumption of the liveness properties: people come to rest.
Version 8 of `room_progress` lets a leave or an unready commit during the countdown
(which starts at version 6 after a join and two readies) and a leave during the race,
each against an overlapping reconciliation; crashes, a third player and the race after
a reset are in `room_serial`. In the session, two calls give two answers to one round,
an answer against a skip, and a second round; one stall and one crash, at any step,
are faults the balance is not exempt from: it says how much they may cost. In the live room, one fault costs one socket, so the second is the
reconnect, and two changes give a stale snapshot and a newer one. Three callers of
one slot give a holder and two waiters; a cache of one entry evicts at once, and
a caller that looked before it queued stores a key that is there already; one of the
sources fails and has a quoted form that does not, one is refused unrendered. In
the play flow two requests are the page's and another tab's, or two of the page's,
and two calls give a login during an answer, or an answer that overtakes another. The
proofs below remove these bounds for the properties they cover.

Four modules have no run. `RoundEditor`, `Leaderboards`, `RateLimiter` and
`ChallengeStream` have times, identifiers or lists without bounds, and their
questions are safety questions that the proofs answer for all of them.

Which properties are checked where is a statement about the code. `PlacesStand` and
`KeepsLifecycle` are claimed with one request only: with two, finalization writes
places without a version check and an activation may be decided on an older room, and
TLC finds both violated. The properties of `room_concurrent` and `room_progress` need
no such restriction. `DoneRaceEnds` and `FinishersGetPlaces` except `PlacesTaken`: where
a departed player still holds a place that the finalization computes, the unique index
refuses it every time (the finding of `room_place_clash`), and such a race does not end.
`OnlyProgressIsUnversioned` says what a page may rely on between two snapshots of one
version: all they show of the room agrees, but for sessions that end and places that
are given, which are written without a version. That the host is present,
a cancelled room empty and the countdown time set exactly in a countdown
(`HostIsPresent`, `CancelledIsEmpty`, `CountdownMatchesStatus`) is proved, and that nobody waits for a free slot
(`NobodyWaitsForAFreeSlot`) from `FairSlots`, so no run repeats them.

### Fairness

`MultiplayerRoom`: a request under way goes on (`WF` of `Proceed`), time passes
(`CountdownEnds`), and somebody comes back to the room again and again
(`Visit`). The last is an assumption about clients, and a needed one: nothing in
the API wakes up by itself, so a room nobody fetches stays as it is. The room
page fetches when it is mounted, when its countdown runs out and on refresh; a
WebSocket that (re)connects subscribes, which fetches; every join, leave or
readiness reconciles as well. Heartbeats do not, and the poll of the race page
fetches the session, which reaches the room only when it ends that session. What
the liveness properties say is therefore: whatever was lost, the next fetches
make up for it. `SessionPlay`: requests
and jobs go on, and the page polls every 1.5 s while the session is active
(`play-client.tsx`:104); that the time limit runs out is not assumed, so that
`MovesOn` cannot be met by waiting for it. No fairness is assumed for any action a
player may choose.

`LiveRoom`: what the process has accepted it finishes, the network delivers on an
open socket, and the page's timers fire (reconnect after 1.5 s, heartbeats). That
the second half of a close is finished needs `SF`, because it starts a publication
and the slots of the model for those may be taken again and again.
`RenderService`: awaited system calls return, the compiler exits or its timer kills
it, and a process that may exit does. `PlayFlow`: requests are handled and answered,
and the interval of the page fires (`SF` of `Poll`, since a slot for a request is
not always free).

## What the violation runs show

- **A race may start with one player.** `reconcileMultiplayerRoom` decides on
  the room it loaded; `activateCountdownStart` repeats `canStartCountdown` on
  that same load, loads again and updates under the newer version. A leave or
  an unready that commits in between goes unnoticed (`ms`:738-743).
- **Places can collide.** A player who left keeps a `finalPlace` through a
  reset; the next race computes places from the number of placed rows and runs
  into the unique index, on every later reconciliation (`ms`:816).
- **A round can be credited twice.** Submitting to a resolved round is
  accepted, by the API and by a late job (`submission-service.ts`:69, 431).
- **Events are dropped after a reconnect.** A test expects the snapshot after a
  reconnect to reset the ordering (`multiplayer-room-sync.test.ts`:62, 84). Direct
  replies are numbered by one counter of the process and room events by one of the
  room (`multiplayer-live-hub.ts`:120, 82), and the page compares the two: standings
  published later at the same version carry a lower number and are dropped.

## What is proved

For every set of players, requests, capacity and bound (`RoomAssumption`:
finitely many players, positive capacity), `MultiplayerRoomProofs` proves

- `InvariantHolds`: `Spec => []IInv`, with `IInv` = types, `Optimistic` and
  `Safety`. The safety properties are not inductive alone: a commit writes
  what an earlier load justified. `Optimistic` says that a transaction whose
  version is still the room's sees the room it loaded, with every check of
  its load still true (`LoadHolds`). It is kept because every change of those
  facts raises the version (`BumpKeepsOptimistic`), and the changes that do not
  (the ends of sessions, places, the countdown running out) disturb none of them
  (`ThenKeepsOptimistic`).
- from it `TypeCorrect`, `NeverOverbooked`, `HostStays`, `CancelledRoomsAreEmpty`,
  `SessionsRunInRaces`, `EveryoneRaces`, `CompletionIsFinal`,
  `CountdownFollowsStatus`, and the action properties `ChecksHold` and
  `SnapshotsAgree`.

The same module relates the room to the abstract `RoomLifecycle`. `LooseRefinement`
holds however many requests overlap: each step is one that the abstract room allows
on the room as it then is, or starts the race of those present (`LateGo`), which is
the activation that was decided on an older load (`OnlyActivationIsLate`, checked by
`room_concurrent`). `Refinement` says the same of the strict abstract room, for any
number of requests: every step is one of its steps or none, except where an activation
commits though the room does not count down with at least two players, all ready
(`LateStart`). So a late activation is the only thing that keeps the code from
implementing `RoomLifecycle`, and one that is not late does implement it
(`TimelyRaceIsGo`).

`SessionPlayProofs` (`SessionAssumption`: finitely many requests and workers, a list
that is not empty) proves

- `TypeCorrect` and `RoundsInOrder`. There is no lock; the argument is growth
  (`Grows`): rows are only added and a resolved round stays resolved, so what a
  request has seen stays true (`RequestStep`), in particular that the round behind
  which it will add the next one is resolved.
- `AttemptsCover` and `CreditsBalance`. Counts only agree if no answer has two who
  credit it, so the invariant (`Balance`) says that a submission not judged yet
  belongs to one request or to one job, queued or taken, never to two (`OneJudge`). Then
  each step moves one answer from one count to the next: attempted and not yet
  credited (`Covered`), correct and not yet credited, credited and not yet recorded
  (`Balanced`). A job handed out again may credit once more and a death may cost one
  credit or one record, so the counts differ by at most `stalls` and `crashes`; there is
  no hypothesis that either is zero.

`GatewayProofs` (`LiveAssumption`: finitely many publications) proves of `LiveRoom`

- `LiveTypes`, from an invariant that says every version was paid for by a change,
  where a leave on its way has paid already (`Paid`);
- `NoGhosts`: a socket in the hub is one the gateway knows and has subscribed. It is
  inductive because `SubscribeAttach` looks the connection up again after its await
  and `HandleClosed` drops both marks at once;
- `PushedForward`, the action property `PushNeverGoesBack`, from `shown.version <=
  cursor.version`: an error event moves the cursor and not the screen, so the two are
  not equal, but never the other way round;

and of `RateLimiter` `AtMostTwiceTheLimit`: windows of a key do not overlap, so two of
them cover any stretch as long as one.

`RenderServiceProofs` (`RenderAssumption`: finitely many callers, positive limits,
some source) proves `SlotsExact`, `NoWakeUpIsLost` and `WorkspacesHaveOwners`. The
invariant adds that who waits is in the queue once and does nothing else (`Lined`),
which is what makes the hand-over in `Release` count right; no slot depends on what
the cache answers. `TypeCorrect` and `CacheIsBounded` add the cache: it never holds
more than its limit because a full one gives up an entry before it takes one
(`StoreBounded`), and stays within it when entries expire. `SlotsAreFair` is the
refinement of `SlotPool`: the holders of a slot and the queue take the steps of a pool
with one line, or none. It needs `Slots` and `Lined`: a slot is free only when nobody
waits, so who takes one at once overtakes nobody, and who is woken holds none yet.

`PlayFlowProofs` (`PlayerAssumption`) proves `TypeCorrect` and `ScoresFollow`. The
argument is that rows only grow, and a run that belongs to a user never changes it: so
the user a promotion or an answer has loaded is still the run's when it writes.

`RoundEditorProofs` proves that previews that may come back are of the text and
round on screen (`PreviewsFollowTheScreen`), from it `OneCallAtATime`, and
`DraftsFollowTheText`. `LeaderboardsProofs` proves of the queries that reading only the
first candidates of the day loses nobody's best run (`DailyBestIsBest`) and what cached boards may list (`DailyBoards`,
`PersonalBoards`).
`ChallengeStreamProofs` (assuming `Catalogue`: every cycle is an order of a
catalogue that is not empty, and the behaviour assumption `Prompt`) proves
`EveryonePlaysTheSame` and `NoRepeats`. Its invariant says that all lists and rounds are beginnings of the
room's list, and that extensions under way together have the same list (`Lone`), of
which the room's is either that list or that list with their cycle.

Only model-checked: everything about liveness, `PageCatchesUp` included (liveness
and `ENABLED` are out of the prover's reach), `PlacesStand` and `KeepsLifecycle`, which
hold with one request only, and that the four claims of the violation runs fail. Every
other invariant, action property and refinement of a passing run is also a theorem.

## Not modelled, and what is left

1. A second page of the same player and `room.leave` over the socket in `LiveRoom`.
2. The solo page's editor, which may have several answers in flight; the practice
   mode's bootstrap.
3. The practice list, whose cycles are shuffled, so that two requests at its end
   lose one of two; requests of one race that are still under way in the next.
4. Streak bonuses and the notifications of the room in `SessionPlay`; bounded checks
   of the comparison of standings.

Left out for good: rendering of pages, routing, configuration, logging, seeds
(no state or only input and output); the text and SVG normalisation of the
checker (character-level work; its verdict is an input of `SessionPlay`);
password hashing and tokens. Some behaviours the models reach are promised
otherwise nowhere in the repository, so no property is about them; `PROJECT.json`
lists them under its hazards with a note.
