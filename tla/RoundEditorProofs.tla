--------------------------- MODULE RoundEditorProofs ---------------------------
(***************************************************************************)
(* RoundEditor for any rounds, texts and targets: a preview that may still *)
(* act is of what is on the screen, the page answers one thing at a time,  *)
(* and the draft of the round on screen is its text.                       *)
(***************************************************************************)
EXTENDS RoundEditor, TLAPS

IInv ==
  /\ TypeOK
  /\ OneCall
  /\ PreviewsAreCurrent
  /\ QuietWhilePending
  /\ DraftIsText

-----------------------------------------------------------------------------
(***************************************************************************)
(* What the effects leave.                                                 *)
(***************************************************************************)
\* clearTimeout and abort leave no preview that may act.
LEMMA AbortedType ==
  ASSUME TypeOK
  PROVE  /\ Aborted \subseteq [text : Texts, round : Rounds, sent : BOOLEAN, live : BOOLEAN]
         /\ \A q \in Aborted : ~q.live
  BY DEF TypeOK, Aborted

\* The effect of LiveRenderPreview leaves at most one, of what it was given.
LEMMA PreviewingType ==
  ASSUME TypeOK, NEW text \in Sources, NEW r, NEW enabled \in BOOLEAN,
         enabled => r \in Rounds, Previewing(text, r, enabled)
  PROVE  /\ asks' \subseteq [text : Texts, round : Rounds, sent : BOOLEAN, live : BOOLEAN]
         /\ \A q \in asks' : q.live => enabled /\ q.text = text /\ q.round = r
<1>1. CASE ~enabled \/ text = Empty
  BY <1>1, AbortedType DEF Previewing
<1>2. CASE enabled /\ text # Empty
  <2> DEFINE new == [text |-> text, round |-> r, sent |-> FALSE, live |-> TRUE]
  <2>1. text \in Texts /\ r \in Rounds
    BY <1>2 DEF Sources
  <2>2. new \in [text : Texts, round : Rounds, sent : BOOLEAN, live : BOOLEAN]
    BY <2>1
  <2>3. asks' = Aborted \union {new}
    BY <1>2 DEF Previewing
  <2>4. asks' \subseteq [text : Texts, round : Rounds, sent : BOOLEAN, live : BOOLEAN]
    BY <2>2, <2>3, AbortedType
  <2>5. \A q \in asks' : q.live => q = new
    BY <2>3, AbortedType
  <2>6. enabled /\ new.text = text /\ new.round = r
    BY <1>2
  <2> HIDE DEF new
  <2> QED BY <2>4, <2>5, <2>6
<1> QED BY <1>1, <1>2

LEMMA KeptType ==
  ASSUME TypeOK, NEW text, NEW enabled \in BOOLEAN
  PROVE  /\ Kept(text, enabled) \in Previews \union {NoPreview}
         /\ Kept(text, enabled) \in {latest, NoPreview}
  BY DEF TypeOK, Kept

LEMMA OwnAnswerType ==
  ASSUME NEW r \in Rounds, NEW text \in Sources
  PROVE  OwnAnswer(r, text) \in [kind : {"auto", "manual", "skip"}, round : Rounds, text : Sources]
  BY DEF OwnAnswer

\* A matched preview is one that was rendered, with a tier for the key.
LEMMA KeyType ==
  ASSUME NEW r \in Rounds, NEW text \in Texts, NEW p \in Previews \union {NoPreview},
         Matched(p)
  PROVE  <<r, text, p.tier>> \in (Rounds \X Texts \X Tiers) \union {NoKey}
<1>1. p \in Previews
  BY DEF Matched, NoPreview
<1>2. p.tier \in Tiers
  BY <1>1 DEF Previews
<1> QED BY <1>2

-----------------------------------------------------------------------------
LEMMA InitHolds == Init => IInv
  BY DEF Init, IInv, TypeOK, OneCall, PreviewsAreCurrent, QuietWhilePending,
         DraftIsText, Sources, Pending, NoPreview, Previews, NoKey

LEMMA TypeHolds ==
  ASSUME IInv, NEW t \in Sources \ {source}, Type(t)
  PROVE  IInv'
<1> USE DEF IInv
<1>1. round \in Rounds /\ calls = {} /\ t \in Sources /\ drafts \in [Rounds -> Sources]
  BY DEF Type, TypeOK, Pending
<1>2. /\ source' = t /\ round' = round /\ lock' = lock
      /\ drafts' \in [Rounds -> Sources] /\ drafts'[round] = t
  BY <1>1 DEF Type
<1>3. CASE Submits(round, t, latest, key)
  <2>1. /\ calls' = {OwnAnswer(round, t)} /\ key' = <<round, t, latest.tier>>
        /\ latest' = NoPreview /\ asks' = Aborted
    BY <1>3 DEF Type, Submitted
  <2>2. t \in Texts /\ Matched(latest)
    BY <1>1, <1>3 DEF Submits, Sources
  <2>3. key' \in (Rounds \X Texts \X Tiers) \union {NoKey}
    BY <1>1, <2>1, <2>2, KeyType DEF TypeOK
  <2>4. TypeOK'
    BY <1>1, <1>2, <2>1, <2>3, AbortedType, OwnAnswerType DEF TypeOK
  <2> QED BY <1>1, <1>2, <2>1, <2>4, AbortedType
          DEF OneCall, PreviewsAreCurrent, QuietWhilePending, DraftIsText
<1>4. CASE ~Submits(round, t, latest, key)
  <2>1. /\ Previewing(t, round, TRUE) /\ latest' = Kept(t, TRUE)
        /\ calls' = calls /\ key' = key
    BY <1>4 DEF Type
  <2>2. /\ asks' \subseteq [text : Texts, round : Rounds, sent : BOOLEAN, live : BOOLEAN]
        /\ \A q \in asks' : q.live => q.text = t /\ q.round = round
    BY <1>1, <2>1, PreviewingType
  <2>3. latest' \in Previews \union {NoPreview}
    BY <2>1, KeptType
  <2> QED BY <1>1, <1>2, <2>1, <2>2, <2>3
          DEF TypeOK, OneCall, PreviewsAreCurrent, QuietWhilePending, DraftIsText, Pending
<1> QED BY <1>3, <1>4

LEMMA ClearDraftHolds == ASSUME IInv, ClearDraft PROVE IInv'
<1> USE DEF IInv
<1>1. /\ calls' = calls /\ calls = {} /\ source' = Empty /\ round' = round
      /\ latest' = NoPreview /\ asks' = Aborted /\ UNCHANGED refVars
  BY DEF ClearDraft, Pending
<1>2. drafts' \in [Rounds -> Sources] /\ (round # NoRound => drafts'[round] = Empty)
  BY DEF ClearDraft, TypeOK, Sources
<1> QED BY <1>1, <1>2, AbortedType
        DEF TypeOK, OneCall, PreviewsAreCurrent, QuietWhilePending, DraftIsText,
            Pending, Sources, refVars

LEMMA FetchHolds == ASSUME IInv, NEW q \in asks, Fetch(q) PROVE IInv'
<1> USE DEF IInv
<1> DEFINE sent == [q EXCEPT !.sent = TRUE]
<1>1. asks' = (asks \ {q}) \union {sent} /\ UNCHANGED <<editorVars, latest, refVars, calls>>
  BY DEF Fetch
<1>2. q \in [text : Texts, round : Rounds, sent : BOOLEAN, live : BOOLEAN]
  BY DEF TypeOK
<1>3. /\ sent \in [text : Texts, round : Rounds, sent : BOOLEAN, live : BOOLEAN]
      /\ sent.live = q.live /\ sent.text = q.text /\ sent.round = q.round
  BY <1>2
<1> QED BY <1>1, <1>3
        DEF TypeOK, OneCall, PreviewsAreCurrent, QuietWhilePending, DraftIsText,
            Pending, editorVars, refVars

LEMMA PreviewAnsweredHolds == ASSUME IInv, NEW q \in asks, PreviewAnswered(q) PROVE IInv'
<1> USE DEF IInv
<1>1. PICK p \in Outcomes(q) :
        IF q.live /\ Submits(round, source, p, key)
        THEN /\ calls' = {OwnAnswer(round, source)} /\ key' = <<round, source, p.tier>>
             /\ latest' = NoPreview /\ asks' = Aborted \ {[q EXCEPT !.live = FALSE]}
        ELSE /\ latest' = (IF q.live THEN p ELSE latest)
             /\ asks' = asks \ {q} /\ UNCHANGED <<calls, key>>
  BY DEF PreviewAnswered
<1>2. UNCHANGED <<editorVars, lock>>
  BY DEF PreviewAnswered
<1>3. p \in Previews \union {NoPreview}
  BY DEF Outcomes, Rendered
<1>4. CASE q.live /\ Submits(round, source, p, key)
  <2>1. round \in Rounds /\ source \in Texts /\ Matched(p)
    BY <1>4 DEF Submits, TypeOK, Sources
  <2>2. key' \in (Rounds \X Texts \X Tiers) \union {NoKey}
    BY <1>1, <1>3, <1>4, <2>1, KeyType
  <2>3. OwnAnswer(round, source) \in [kind : {"auto", "manual", "skip"}, round : Rounds, text : Sources]
    BY <2>1, OwnAnswerType DEF Sources
  <2> QED BY <1>1, <1>2, <1>4, <2>2, <2>3, AbortedType
          DEF TypeOK, OneCall, PreviewsAreCurrent, QuietWhilePending, DraftIsText,
              editorVars, Pending
<1>5. CASE ~(q.live /\ Submits(round, source, p, key))
  <2>1. /\ latest' = (IF q.live THEN p ELSE latest) /\ asks' = asks \ {q}
        /\ UNCHANGED <<calls, key>>
    BY <1>1, <1>5
  <2>2. q.live => ~Pending
    BY DEF PreviewsAreCurrent
  <2> QED BY <1>2, <1>3, <2>1, <2>2
          DEF TypeOK, OneCall, PreviewsAreCurrent, QuietWhilePending, DraftIsText,
              editorVars, Pending
<1> QED BY <1>4, <1>5

LEMMA CallHolds == ASSUME IInv, Submit \/ Skip PROVE IInv'
<1> USE DEF IInv
<1>1. /\ UNCHANGED <<editorVars, key>> /\ latest' = NoPreview /\ asks' = Aborted
      /\ round \in Rounds /\ lock' \in {lock, round}
      /\ \E k \in {"manual", "skip"}, t \in Sources :
           calls' = {[kind |-> k, round |-> round, text |-> t]}
  BY DEF Submit, Skip, refVars, editorVars, TypeOK, Sources
<1> QED BY <1>1, AbortedType
        DEF TypeOK, OneCall, PreviewsAreCurrent, QuietWhilePending, DraftIsText,
            editorVars, Pending

LEMMA ShowHolds == ASSUME IInv, NEW r \in Rounds, Show(r) PROVE IInv'
<1> USE DEF IInv
<1>1. /\ round' = r /\ source' = drafts[r] /\ lock' = NoRound /\ latest' = NoPreview
      /\ drafts' = drafts /\ drafts \in [Rounds -> Sources] /\ source' \in Sources
  BY DEF Show, TypeOK
<1>2. CASE Submits(r, source, latest, NoKey)
  <2>1. calls' = {OwnAnswer(r, source)} /\ key' = <<r, source, latest.tier>> /\ asks' = Aborted
    BY <1>2 DEF Show
  <2>2. source \in Texts /\ Matched(latest)
    BY <1>2 DEF Submits, TypeOK, Sources
  <2>3. key' \in (Rounds \X Texts \X Tiers) \union {NoKey}
    BY <2>1, <2>2, KeyType DEF TypeOK
  <2>4. OwnAnswer(r, source) \in [kind : {"auto", "manual", "skip"}, round : Rounds, text : Sources]
    BY <2>2, OwnAnswerType DEF Sources
  <2> QED BY <1>1, <2>1, <2>3, <2>4, AbortedType
          DEF TypeOK, OneCall, PreviewsAreCurrent, QuietWhilePending, DraftIsText, Pending
<1>3. CASE ~Submits(r, source, latest, NoKey)
  <2>1. key' = NoKey /\ Previewing(drafts[r], r, ~Pending) /\ calls' = calls
    BY <1>3 DEF Show
  <2>2. /\ asks' \subseteq [text : Texts, round : Rounds, sent : BOOLEAN, live : BOOLEAN]
        /\ \A q \in asks' : q.live => ~Pending /\ q.text = drafts[r] /\ q.round = r
    BY <1>1, <2>1, PreviewingType DEF Pending
  <2> QED BY <1>1, <2>1, <2>2
          DEF TypeOK, OneCall, PreviewsAreCurrent, QuietWhilePending, DraftIsText, Pending
<1> QED BY <1>2, <1>3

LEMMA ShowNoneHolds == ASSUME IInv, ShowNone PROVE IInv'
  BY AbortedType
  DEF ShowNone, IInv, TypeOK, OneCall, PreviewsAreCurrent, QuietWhilePending,
      DraftIsText, Pending, refVars

LEMMA SettledHolds == ASSUME IInv, NEW c \in calls, Settled(c) PROVE IInv'
<1> USE DEF IInv
<1>1. calls' = {} /\ UNCHANGED <<round, source, key>>
  BY DEF Settled, OneCall
<1>2. c.round \in Rounds
  BY DEF TypeOK
<1>3. /\ drafts' \in [Rounds -> Sources] /\ lock' \in Rounds \union {NoRound}
      /\ round # NoRound => drafts'[round] \in {drafts[round], Empty}
  BY <1>2 DEF Settled, TypeOK, Sources
<1>4. latest' \in Previews \union {NoPreview}
  BY KeptType DEF Settled
<1>5. /\ asks' \subseteq [text : Texts, round : Rounds, sent : BOOLEAN, live : BOOLEAN]
      /\ \A q \in asks' : q.live => q.text = source /\ q.round = round
  BY PreviewingType DEF Settled, TypeOK
<1> QED BY <1>1, <1>3, <1>4, <1>5
        DEF TypeOK, OneCall, PreviewsAreCurrent, QuietWhilePending, DraftIsText, Pending

LEMMA StutterHolds == ASSUME IInv, UNCHANGED vars PROVE IInv'
  BY DEF vars, editorVars, refVars, IInv, TypeOK, OneCall, PreviewsAreCurrent,
         QuietWhilePending, DraftIsText, Pending

LEMMA Invariance == Spec => []IInv
<1>1. IInv /\ [Next]_vars => IInv'
  BY TypeHolds, ClearDraftHolds, FetchHolds, PreviewAnsweredHolds, CallHolds, ShowHolds,
     ShowNoneHolds, SettledHolds, StutterHolds DEF Next
<1> QED BY <1>1, InitHolds, PTL DEF Spec

-----------------------------------------------------------------------------
\* Every variable of the editor keeps its type.
THEOREM Typed == Spec => []TypeOK
<1>1. IInv => TypeOK
  BY DEF IInv
<1> QED BY <1>1, Invariance, PTL

\* A preview that comes back is of the text and round on the screen and never
\* meets an answer in flight: every change of them aborts the ones before
\* (live-render-preview.tsx).
THEOREM PreviewsFollowTheScreen == Spec => [](PreviewsAreCurrent /\ QuietWhilePending)
<1>1. IInv => PreviewsAreCurrent /\ QuietWhilePending
  BY DEF IInv
<1> QED BY <1>1, Invariance, PTL

\* However previews, polls, typing and shown rounds fall together, the page
\* has one answer or skip in flight at a time, by hand or by itself.
THEOREM OneCallAtATime == Spec => []OneCall
<1>1. IInv => OneCall
  BY DEF IInv
<1> QED BY <1>1, Invariance, PTL

\* The draft of the round on screen is its text or was cleared, although the
\* text of the last round is still in the editor when a round is shown.
THEOREM DraftsFollowTheText == Spec => []DraftIsText
<1>1. IInv => DraftIsText
  BY DEF IInv
<1> QED BY <1>1, Invariance, PTL
=============================================================================
