---------------------------- MODULE RoomLifecycle ----------------------------
(***************************************************************************)
(* What a multiplayer room promises its players, without requests, loads,  *)
(* versions or sessions rows: who is in it, who is host, who is ready, who *)
(* is still racing, and which changes of its status are allowed.           *)
(***************************************************************************)
EXTENDS Integers, FiniteSets

CONSTANTS Players, NoPlayer, Seats

VARIABLES
  phase,    \* "PENDING", "COUNTDOWN", "ACTIVE", "COMPLETED" or "CANCELLED"
  roster,   \* players who are in the room
  gone,     \* players who have left it, for good
  owner,    \* the player who may start and reopen, if any
  willing,  \* players who are ready
  racing    \* players whose session runs

lifeVars == <<phase, roster, gone, owner, willing, racing>>

LifeInit ==
  /\ phase = "PENDING"
  /\ owner \in Players
  /\ roster = {owner}
  /\ gone = {} /\ willing = {} /\ racing = {}

Enter(p) ==
  /\ phase = "PENDING"
  /\ p \notin roster \union gone
  /\ Cardinality(roster) < Seats
  /\ roster' = roster \union {p}
  /\ UNCHANGED <<phase, gone, owner, willing, racing>>

\* Leaving stops the player's session and passes the room on.
Quit(p) ==
  /\ p \in roster
  /\ roster' = roster \ {p}
  /\ gone' = gone \union {p}
  /\ willing' = willing \ {p}
  /\ racing' = racing \ {p}
  /\ owner' \in IF owner # p THEN {owner}
                ELSE IF roster = {p} THEN {NoPlayer} ELSE roster \ {p}
  /\ UNCHANGED phase

Elect ==
  /\ owner = NoPlayer /\ roster # {}
  /\ owner' \in roster
  /\ UNCHANGED <<phase, roster, gone, willing, racing>>

ChangeMind(p) ==
  /\ phase \in {"PENDING", "COUNTDOWN"}
  /\ p \in roster
  /\ willing' \in {willing \union {p}, willing \ {p}}
  /\ UNCHANGED <<phase, roster, gone, owner, racing>>

Quorate == Cardinality(roster) >= 2 /\ roster = willing

\* A legal change of phase that moves nobody.
Move(from, to) ==
  /\ phase \in from
  /\ phase' = to
  /\ UNCHANGED <<roster, gone, owner>>

CountDown == Move({"PENDING"}, "COUNTDOWN") /\ Quorate /\ UNCHANGED <<willing, racing>>
CallOff   == Move({"COUNTDOWN"}, "PENDING") /\ ~Quorate /\ UNCHANGED <<willing, racing>>
Go        == Move({"COUNTDOWN"}, "ACTIVE") /\ Quorate /\ racing' = roster /\ UNCHANGED willing
CrossLine(p) == p \in racing /\ racing' = racing \ {p}
                /\ UNCHANGED <<phase, roster, gone, owner, willing>>
Finish    == Move({"ACTIVE"}, "COMPLETED") /\ racing = {} /\ roster # {}
             /\ UNCHANGED <<willing, racing>>
Reopen    == Move({"COMPLETED"}, "PENDING") /\ roster # {} /\ willing' = {} /\ UNCHANGED racing
Close     == Move({"PENDING", "COUNTDOWN", "ACTIVE", "COMPLETED"}, "CANCELLED")
             /\ roster = {} /\ UNCHANGED <<willing, racing>>

LifeNext ==
  \/ \E p \in Players : Enter(p) \/ Quit(p) \/ ChangeMind(p) \/ CrossLine(p)
  \/ Elect \/ CountDown \/ CallOff \/ Go \/ Finish \/ Reopen \/ Close

LifeSpec == LifeInit /\ [][LifeNext]_lifeVars

\* A start that was decided on an earlier room: the race is on, whatever the
\* phase is by now and whoever is ready; those who are in the room run.
LateGo ==
  /\ phase' = "ACTIVE"
  /\ racing' = roster
  /\ UNCHANGED <<roster, gone, owner, willing>>

\* What is left of the promise when requests overlap.
LooseSpec == LifeInit /\ [][LifeNext \/ LateGo]_lifeVars

=============================================================================
