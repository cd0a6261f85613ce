-------------------------------- MODULE PlayFlow --------------------------------
(***************************************************************************)
(* The daily play page in a browser whose other tabs log in and out: how   *)
(* the page gets its run, keeps polling it, answers and skips, and what it *)
(* does when its run is refused (apps/web/src/components/play-client.tsx,  *)
(* hooks/use-round-play.ts, components/auth-controls.tsx, auth-form.tsx).  *)
(* The API behind it is PlayerRuns.                                        *)
(*                                                                         *)
(* A state of the session on screen is its run, status and round.  What    *)
(* React does in one commit (render and effects) is part of the action.    *)
(* A second fetch of the same function takes the slot of the first.        *)
(*                                                                         *)
(* Abstracted: the editor, drafts and previews (the page may submit at any *)
(* time, by hand or by a matching preview), the lock of a skip, wording,   *)
(* the timer on screen.                                                    *)
(***************************************************************************)
EXTENDS PlayerRuns

CONSTANT
  MaxPolls   \* bound: polls under way at once

ASSUME FlowAssumption == MaxPolls \in Nat

VARIABLES
  page,    \* session on screen, bootstrapPromiseRef, mounted or not
  store    \* localStorage: the run of the mode, or 0

pageVars == <<page, store>>
vars == <<runsVars, pageVars>>

PageInit ==
  /\ Init
  /\ page = [up |-> TRUE, boot |-> FALSE, run |-> 0, status |-> "PENDING", round |-> 0]
  /\ store = 0

PageTypeOK ==
  /\ TypeOK
  /\ page \in [up : BOOLEAN, boot : BOOLEAN, run : 0..Len(runs),
               status : Statuses, round : 0..Rounds]
  /\ store \in 0..Len(runs)

-----------------------------------------------------------------------------
(***************************************************************************)
(* Calls.                                                                  *)
(***************************************************************************)
\* the slot of the next call (slots are alike, so the choice is fixed)
Vacant == {r \in Requests : At(r, "none")}

Sends(kind, tag, user, run, round) ==
  \E r \in Vacant :
    /\ r = CHOOSE q \in Vacant : TRUE
    /\ req' = [req EXCEPT ![r] = Request(kind, tag, user, run, round)]

Counted == calls < MaxCalls /\ calls' = calls + 1

\* bootstrapSession: the stored run if it answers, otherwise a new one.
BootCall == IF store # 0 THEN Request("get", "boot", None, store, 0)
            ELSE Request("create", "boot", None, 0, 0)

\* The site is opened for the first time: the page boots, and AuthControls asks who is signed in.
\* (Other tabs ask too when they open; they have the cookies by then.)
Mount ==
  /\ ~page.boot /\ players = <<>> /\ faults = 0
  /\ \E r, q \in Requests :
       /\ r # q /\ Vacant = Requests
       /\ r = CHOOSE p \in Requests : TRUE
       /\ req' = [req EXCEPT ![r] = BootCall, ![q] = Request("session", "tab", None, 0, 0)]
  /\ page' = [page EXCEPT !.boot = TRUE]
  /\ UNCHANGED <<jar, serverVars, calls, faults, store>>

\* auth-form.tsx and the button in AuthControls, in another tab
Login(u) ==
  /\ Counted
  /\ Sends("login", "tab", u, 0, 0)
  /\ UNCHANGED <<jar, serverVars, faults, page, store>>

SignOut ==
  /\ jar.auth # 0
  /\ Counted
  /\ Sends("logout", "tab", None, 0, 0)
  /\ UNCHANGED <<jar, serverVars, faults, page, store>>

\* The interval runs while the run on screen is active.
Poll ==
  /\ page.up /\ page.run # 0 /\ page.status = "ACTIVE"
  /\ Cardinality({r \in Requests : req[r].tag = "poll"}) < MaxPolls
  /\ Sends("get", "poll", None, page.run, 0)
  /\ UNCHANGED <<jar, serverVars, calls, faults, page, store>>

Underway(tag, kinds) ==
  \E r \in Requests : ~At(r, "none") /\ req[r].tag = tag /\ req[r].kind \in kinds

\* The isPending of the page, which turns the editor and the buttons of
\* round-play-shell.tsx off, is that of the finish button only.
Playing ==
  /\ page.up /\ page.run # 0 /\ page.status = "ACTIVE"
  /\ ~Underway("page", {"finish"})

\* The isPending of useRoundPlay: an answer or a skip and the refresh after a
\* refused one (up to the bootstrap that a failed refresh starts).
IsPending == Underway("page", {"submit", "skip"}) \/ Underway("refresh", {"get"})

\* handleSubmit, by hand: other answers may be on their way.
Submit ==
  /\ Playing /\ Counted
  /\ Sends("submit", "page", None, page.run, page.round)
  /\ UNCHANGED <<jar, serverVars, faults, page, store>>

\* handleSkip waits for them.
SkipRound ==
  /\ Playing /\ ~IsPending /\ Counted
  /\ Sends("skip", "page", None, page.run, page.round)
  /\ UNCHANGED <<jar, serverVars, faults, page, store>>

FinishRun ==
  /\ Playing /\ Counted
  /\ Sends("finish", "page", None, page.run, page.round)
  /\ UNCHANGED <<jar, serverVars, faults, page, store>>

-----------------------------------------------------------------------------
(***************************************************************************)
(* Answers.                                                                *)
(***************************************************************************)
Frees(r) == req' = [req EXCEPT ![r] = Free]

\* The same function goes on with another fetch, with the cookies by now.
Fetches(r, call) ==
  req' = [req EXCEPT ![r] = [call EXCEPT !.guest = jar'.guest, !.auth = jar'.auth]]

\* setSession and the effects of the next commit: a run that is over leaves
\* for its results.
Shows(r, boot, stored) ==
  IF page.up
  THEN /\ page' = [up |-> req[r].status # "COMPLETED", boot |-> boot, run |-> req[r].run,
                   status |-> req[r].status, round |-> req[r].round]
       /\ store' = IF req[r].status = "COMPLETED" THEN 0 ELSE stored
  ELSE /\ page' = [page EXCEPT !.boot = boot]
       /\ store' = stored

\* bootstrapSession goes on: a stored run that does not answer is given up.
BootAnswered(r) ==
  /\ req[r].tag = "boot"
  /\ \/ /\ req[r].result = "ok"
        /\ Shows(r, FALSE, IF req[r].kind = "create" THEN req[r].run ELSE store)
        /\ Frees(r)
     \/ /\ req[r].result # "ok" /\ req[r].kind = "get"
        /\ Fetches(r, Request("create", "boot", None, 0, 0))
        /\ UNCHANGED <<page, store>>
     \/ /\ req[r].result # "ok" /\ req[r].kind = "create"
        /\ page' = [page EXCEPT !.boot = FALSE]
        /\ Frees(r)
        /\ UNCHANGED store

NoBoot(r) == FALSE   \* mutant of Boots: a refused poll starts nothing
Boots(r) == ~page.boot

\* refreshSession
PollAnswered(r) ==
  /\ req[r].tag \in {"poll", "refresh"}
  /\ IF req[r].result = "ok" THEN Shows(r, page.boot, store) /\ Frees(r)
     ELSE /\ store' = IF req[r].run = store THEN 0 ELSE store
          /\ IF Boots(r)
             THEN /\ page' = [page EXCEPT !.boot = TRUE]
                  /\ Fetches(r, IF store' # 0 THEN Request("get", "boot", None, store', 0)
                                ELSE Request("create", "boot", None, 0, 0))
             ELSE Frees(r) /\ UNCHANGED page

Refetches(r) == Fetches(r, Request("get", "refresh", None, req[r].run, 0))

\* onSubmitRound and onSkipRound: a refused round is refreshed, and so is one
\* whose answer waits for its rendered output (queuedRenderCheck).
RoundAnswered(r) ==
  /\ req[r].tag = "page" /\ req[r].kind \in {"submit", "skip"}
  /\ \/ /\ req[r].result = "ok"
        /\ Shows(r, page.boot, store)
        /\ Frees(r) \/ (req[r].kind = "submit" /\ Refetches(r))
     \/ /\ req[r].result = "denied"
        /\ Refetches(r)
        /\ UNCHANGED <<page, store>>
     \/ /\ req[r].result = "lost"
        /\ Frees(r)
        /\ UNCHANGED <<page, store>>

\* handleFinish leaves for the results whatever the answer is.
FinishAnswered(r) ==
  /\ req[r].tag = "page" /\ req[r].kind = "finish"
  /\ page' = [page EXCEPT !.up = FALSE]
  /\ store' = 0
  /\ Frees(r)

TabAnswered(r) ==
  /\ req[r].tag = "tab"
  /\ Frees(r)
  /\ UNCHANGED <<page, store>>

Answered(r) ==
  /\ At(r, "reply")
  /\ Received(r)
  /\ \/ BootAnswered(r) \/ PollAnswered(r) \/ RoundAnswered(r) \/ FinishAnswered(r)
     \/ TabAnswered(r)
  /\ UNCHANGED <<serverVars, calls, faults>>

-----------------------------------------------------------------------------
Serve(r) == Handle(r) /\ UNCHANGED pageVars
Lost(r) == Fails(r) /\ UNCHANGED pageVars

Next ==
  \/ \E r \in Requests : Serve(r) \/ Lost(r) \/ Answered(r)
  \/ Mount \/ (\E u \in Users : Login(u)) \/ SignOut
  \/ Poll \/ Submit \/ SkipRound \/ FinishRun

Spec == PageInit /\ [][Next]_vars

\* Requests are handled and answered, and the interval fires.
Fairness ==
  /\ \A r \in Requests : WF_vars(Serve(r)) /\ WF_vars(Answered(r))
  /\ SF_vars(Poll)

FairSpec == Spec /\ Fairness

-----------------------------------------------------------------------------
\* The page shows what the database says of a run it may still use.
UpToDate ==
  /\ page.run # 0
  /\ runs[page.run].status = page.status /\ runs[page.run].round = page.round

\* No first run was ever shown, and nothing will fetch one.
NeverStarted == page.run = 0

\* Whatever answers overtake each other, get lost or are refused, whoever logs
\* in or out meanwhile, a page that has a run and stays open comes back to the
\* true state of a run.
PageCatchesUp == []<>(~page.up \/ NeverStarted \/ UpToDate)
=============================================================================
