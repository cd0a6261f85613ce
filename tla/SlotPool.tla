------------------------------- MODULE SlotPool -------------------------------
(***************************************************************************)
(* What withRenderSlot promises its callers, without counters, promises to *)
(* resolve or renders: some slots, a line in front of them, and nobody who *)
(* passes the line.                                                        *)
(***************************************************************************)
EXTENDS Integers, FiniteSets, Sequences

CONSTANTS Users, Size

VARIABLES
  holders,  \* who has a slot
  line      \* who waits for one, in the order they came

poolVars == <<holders, line>>

Waiting == {line[i] : i \in DOMAIN line}

PoolInit == holders = {} /\ line = <<>>

Newcomer(u) == u \in Users \ (holders \union Waiting)

\* A slot is free, and nobody waits for it.
Take(u) ==
  /\ Newcomer(u)
  /\ line = <<>> /\ Cardinality(holders) < Size
  /\ holders' = holders \union {u}
  /\ UNCHANGED line

Wait(u) ==
  /\ Newcomer(u)
  /\ Cardinality(holders) = Size
  /\ line' = Append(line, u)
  /\ UNCHANGED holders

\* A slot is given back when nobody waits, else to who has waited longest.
GiveBack(u) ==
  /\ u \in holders
  /\ line = <<>>
  /\ holders' = holders \ {u}
  /\ UNCHANGED line

HandOver(u) ==
  /\ u \in holders
  /\ line # <<>>
  /\ holders' = (holders \ {u}) \union {Head(line)}
  /\ line' = Tail(line)

\* The process ends with everyone in it.
Vanish == holders' = {} /\ line' = <<>>

PoolNext ==
  \/ \E u \in Users : Take(u) \/ Wait(u) \/ GiveBack(u) \/ HandOver(u)
  \/ Vanish

PoolSpec == PoolInit /\ [][PoolNext]_poolVars
=============================================================================
