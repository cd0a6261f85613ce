------------------------------ MODULE RoundEditor ------------------------------
(***************************************************************************)
(* The editor of a race: text and drafts, the live preview with its        *)
(* debounce and aborts, and the answers the page submits by itself when a  *)
(* preview matches (apps/web/src/components/multiplayer-race-client.tsx,   *)
(* live-render-preview.tsx, typst-editor.tsx, hooks/use-round-play.ts, and *)
(* the API's routes/render-routes.ts).  Here any answer or poll may show   *)
(* any round.  (The page of solo play gives the same parts another flag,   *)
(* that of its finish button: see PlayFlow.)                               *)
(*                                                                         *)
(* A commit of React and the effects it runs are one action, the effects   *)
(* of the preview (a child) before those of useRoundPlay.  They see the    *)
(* state of the render: the text and the preview of the round before, when *)
(* a round is shown.  A transition is pending until its promise settles.   *)
(*                                                                         *)
(* Abstracted: texts (trimmed) are opaque, status lines, the picture.      *)
(***************************************************************************)

CONSTANTS
  Rounds, NoRound,   \* rounds; no round on screen
  Texts, Empty,      \* texts; nothing typed
  Tiers,             \* how a preview says it matched
  Target             \* Target[r]: texts that render like the target of r

VARIABLES
  round,    \* session.currentRound
  source,   \* the text in the editor
  latest,   \* latestPreview
  key,      \* autoSubmitKeyRef
  lock,     \* skipLockRef
  drafts,   \* localStorage: draft of each round
  asks,     \* previews: debounced (waiting) or fetched; live until aborted
  calls     \* answers and skips in flight

editorVars == <<round, source, drafts>>
refVars == <<key, lock>>
vars == <<editorVars, latest, refVars, asks, calls>>

Sources == Texts \union {Empty}
NoPreview == [ok |-> FALSE]
Previews == [ok : {TRUE}, text : Texts, hit : BOOLEAN, tier : Tiers]
NoKey == <<>>

Init ==
  /\ round = NoRound /\ source = Empty
  /\ latest = NoPreview /\ key = NoKey /\ lock = NoRound
  /\ drafts \in [Rounds -> Sources]   \* of an earlier visit
  /\ asks = {} /\ calls = {}

TypeOK ==
  /\ round \in Rounds \union {NoRound}
  /\ source \in Sources
  /\ latest \in Previews \union {NoPreview}
  /\ key \in (Rounds \X Texts \X Tiers) \union {NoKey}
  /\ lock \in Rounds \union {NoRound}
  /\ drafts \in [Rounds -> Sources]
  /\ asks \subseteq [text : Texts, round : Rounds, sent : BOOLEAN, live : BOOLEAN]
  /\ calls \subseteq [kind : {"auto", "manual", "skip"}, round : Rounds, text : Sources]

Pending == calls # {}

\* clearTimeout and abort: a timer is gone, the answer of a fetch is ignored.
Aborted == {[q EXCEPT !.live = FALSE] : q \in {p \in asks : p.sent}}

\* The effect of LiveRenderPreview after a change of text, round or enabled.
Previewing(text, r, enabled) ==
  asks' = IF ~enabled \/ text = Empty THEN Aborted
          ELSE Aborted \union {[text |-> text, round |-> r, sent |-> FALSE, live |-> TRUE]}

\* What the same effect leaves of the preview.
Kept(text, enabled) == IF ~enabled \/ text = Empty THEN NoPreview ELSE latest

-----------------------------------------------------------------------------
\* autoSubmitStrategy "multiplayer": what the API said of the round it was asked for
Matched(preview) == preview.ok /\ preview.hit

\* The effect that submits by itself, with the key it last used, for a
\* render with this round, text and preview.
Submits(r, text, preview, used) ==
  /\ r # NoRound /\ text # Empty /\ ~Pending
  /\ Matched(preview)
  /\ used # <<r, text, preview.tier>>

OwnAnswer(r, text) == [kind |-> "auto", round |-> r, text |-> text]

\* It submits: the commit of isPending turns the preview off.
Submitted(r, text) ==
  /\ calls' = {OwnAnswer(r, text)}
  /\ key' = <<r, text, latest.tier>>
  /\ latest' = NoPreview
  /\ asks' = Aborted

-----------------------------------------------------------------------------
\* onChange of the text area, which is off while isPending.
Type(t) ==
  /\ round # NoRound /\ ~Pending
  /\ source' = t
  /\ drafts' = [drafts EXCEPT ![round] = t]
  /\ IF Submits(round, t, latest, key) THEN Submitted(round, t)
     ELSE /\ Previewing(t, round, TRUE)
          /\ latest' = Kept(t, TRUE)
          /\ UNCHANGED <<calls, key>>
  /\ UNCHANGED <<round, lock>>

\* handleClearDraft
ClearDraft ==
  /\ round # NoRound /\ ~Pending
  /\ source' = Empty
  /\ drafts' = [drafts EXCEPT ![round] = Empty]
  /\ asks' = Aborted
  /\ latest' = NoPreview
  /\ UNCHANGED <<round, refVars, calls>>

\* The debounce of 700 ms is over.
Fetch(q) ==
  /\ q \in asks /\ ~q.sent
  /\ asks' = (asks \ {q}) \union {[q EXCEPT !.sent = TRUE]}
  /\ UNCHANGED <<editorVars, latest, refVars, calls>>

\* POST /render/preview: rendered, and compared with the target of the round
\* when it belongs to the session and the session to the actor.
Rendered(q) == {p \in Previews : p.text = q.text /\ (p.hit => q.text \in Target[q.round])}

\* ... or refused, not rendered, or lost.
Outcomes(q) == Rendered(q) \union {NoPreview}

PreviewAnswered(q) ==
  /\ q \in asks /\ q.sent
  /\ \E p \in Outcomes(q) :
       IF q.live /\ Submits(round, source, p, key)
       THEN /\ calls' = {OwnAnswer(round, source)}
            /\ key' = <<round, source, p.tier>>
            /\ latest' = NoPreview
            /\ asks' = Aborted \ {[q EXCEPT !.live = FALSE]}
       ELSE /\ latest' = IF q.live THEN p ELSE latest
            /\ asks' = asks \ {q}
            /\ UNCHANGED <<calls, key>>
  /\ UNCHANGED <<editorVars, lock>>

-----------------------------------------------------------------------------
\* handleSubmit from the button or the keyboard, off while isPending.
Submit ==
  /\ round # NoRound /\ source # Empty /\ ~Pending
  /\ calls' = {[kind |-> "manual", round |-> round, text |-> source]}
  /\ latest' = NoPreview
  /\ asks' = Aborted
  /\ UNCHANGED <<editorVars, refVars>>

\* handleSkip
Skip ==
  /\ round # NoRound /\ lock # round /\ ~Pending
  /\ calls' = {[kind |-> "skip", round |-> round, text |-> Empty]}
  /\ lock' = round
  /\ latest' = NoPreview
  /\ asks' = Aborted
  /\ UNCHANGED <<editorVars, key>>

\* A poll, or the answer to a call before its transition ends, shows a round.
\* The effects load its draft and reset the refs, and may then submit the text
\* and the preview of the render for it.
Show(r) ==
  /\ r \in Rounds \ {round}
  /\ round' = r
  /\ source' = drafts[r]
  /\ lock' = NoRound
  /\ latest' = NoPreview
  /\ IF Submits(r, source, latest, NoKey)
     THEN /\ calls' = {OwnAnswer(r, source)}
          /\ key' = <<r, source, latest.tier>>
          /\ asks' = Aborted
     ELSE /\ key' = NoKey
          /\ Previewing(drafts[r], r, ~Pending)
          /\ UNCHANGED calls
  /\ UNCHANGED drafts

\* The session on screen has no open round: the page shows no editor, whose
\* preview is cleaned up; nothing is loaded or reset.
ShowNone ==
  /\ round' = NoRound
  /\ asks' = Aborted
  /\ UNCHANGED <<source, drafts, latest, refVars, calls>>

\* The transition of a call ends: its draft is cleared after a correct answer
\* or a skip; a failed skip gives up its lock.
Settled(c) ==
  /\ c \in calls
  /\ calls' = calls \ {c}
  /\ \/ /\ drafts' = [drafts EXCEPT ![c.round] = Empty]
        /\ UNCHANGED lock
     \/ /\ lock' = IF c.kind = "skip" THEN NoRound ELSE lock
        /\ UNCHANGED drafts
  /\ latest' = Kept(source, round # NoRound)
  /\ Previewing(source, round, round # NoRound)
  /\ UNCHANGED <<round, source, key>>

-----------------------------------------------------------------------------
Next ==
  \/ \E t \in Sources \ {source} : Type(t)
  \/ \E q \in asks : Fetch(q) \/ PreviewAnswered(q)
  \/ ClearDraft \/ Submit \/ Skip
  \/ (\E r \in Rounds : Show(r)) \/ ShowNone
  \/ \E c \in calls : Settled(c)

Spec == Init /\ [][Next]_vars

-----------------------------------------------------------------------------
\* The page never has two answers or skips in flight, by hand or by itself.
OneCall == \A c, d \in calls : c = d

\* A preview that may still come back is of the text and round on the screen,
\* whatever was typed and shown since it was asked for.
PreviewsAreCurrent ==
  \A q \in asks : q.live => q.text = source /\ q.round = round /\ ~Pending

\* While a call is in flight there is no preview to submit by itself.
QuietWhilePending == Pending => latest = NoPreview

\* The draft kept for the round on screen is its text, or cleared.
DraftIsText == round # NoRound => drafts[round] \in {source, Empty}
=============================================================================
