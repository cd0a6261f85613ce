------------------------ MODULE ChallengeStreamProofs ------------------------
(***************************************************************************)
(* Any number of players of a race, extending their common list at the     *)
(* same time, play the same challenges in the same order.  Whoever begins  *)
(* a new cycle has seen the whole list, and those who begin it together    *)
(* write the same, because a cycle is a function of the seed and the list. *)
(***************************************************************************)
EXTENDS ChallengeStream, TLAPS

Spaced(a) == Size > 1 => \A i \in 1..(Len(a) - 1) : a[i] # a[i + 1]

Working == {"loaded", "ready", "extend"}
Starting == {"due", "start"}

\* What a request holds, for a list of the room and the rounds of all.
Holds(q, list, drawn) ==
  /\ q \in Kinds
  /\ q.step = "start" => q.list = list
  /\ q.step \in Working =>
       /\ q.session \in Sessions
       /\ q.list \in Lists
       /\ Begins(q.list, list)
       /\ q.next \in Nat /\ q.next <= Len(drawn[q.session]) /\ q.next <= Len(q.list)
       /\ q.step = "ready" => q.next < Len(q.list)
       /\ q.step = "extend" =>
            /\ Len(q.list) > 0
            /\ q.cycle = NextCycle(q.list)
            /\ list = q.list \/ list = q.list \o q.cycle

Lone == \A q, r \in Requests : At(q, "extend") =>
  /\ req[r].step \notin Starting
  /\ At(r, "extend") => req[r].list = req[q].list

Rows ==
  /\ stream \in Lists /\ Len(stream) > 0 /\ Spaced(stream)
  /\ lists = [s \in Sessions |-> stream]
  /\ status \in [Sessions -> {"PENDING", "ACTIVE", "COMPLETED"}]
  /\ rounds \in [Sessions -> Lists]
  /\ \A s \in Sessions : Begins(rounds[s], stream)
  /\ open \in [Sessions -> BOOLEAN]
  /\ starts \in Nat

Reqs ==
  /\ req \in [Requests -> Kinds]
  /\ \A r \in Requests : Holds(req[r], stream, rounds)

NotStarted == starts = 0 =>
  /\ \A s \in Sessions : rounds[s] = <<>>
  /\ \A r \in Requests : req[r].step \notin Working

IInv == Rows /\ Reqs /\ Lone /\ NotStarted

-----------------------------------------------------------------------------
(* Lists.                                                                  *)

LEMMA CycleIsOrder ==
  ASSUME Catalogue, NEW list \in Lists, Len(list) > 0
  PROVE  /\ NextCycle(list) \in Lists
         /\ Len(NextCycle(list)) = Size
         /\ Spaced(NextCycle(list))
         /\ Size > 1 => NextCycle(list)[1] # list[Len(list)]
<1> DEFINE k == Len(list) \div Size + 1
           c == Order[k]
<1>1. Size \in Nat /\ Size > 0
  BY DEF Catalogue
<1>2. Len(list) \in Nat
  BY DEF Lists
<1>3. k \in Nat
  BY <1>1, <1>2
<1>4. c \in Lists /\ Len(c) = Size /\ \A i, j \in 1..Size : c[i] = c[j] => i = j
  BY <1>3 DEF Catalogue
<1> HIDE DEF c, k
<1>5. NextCycle(list) =
        IF Size > 1 /\ c[1] = list[Len(list)] THEN Append(Tail(c), c[1]) ELSE c
  BY DEF NextCycle, c, k
<1>6. CASE ~(Size > 1 /\ c[1] = list[Len(list)])
  <2>1. NextCycle(list) = c
    BY <1>5, <1>6
  <2>2. Spaced(c)
    BY <1>1, <1>4 DEF Spaced
  <2> QED BY <1>4, <1>6, <2>1, <2>2
<1>7. CASE Size > 1 /\ c[1] = list[Len(list)]
  <2> DEFINE d == Append(Tail(c), c[1])
  <2>1. NextCycle(list) = d
    BY <1>5, <1>7
  <2>2. c \in Seq(Challenges) /\ c # <<>> /\ c[1] \in Challenges
    BY <1>1, <1>4 DEF Lists
  <2>3. /\ Tail(c) \in Seq(Challenges) /\ Len(Tail(c)) = Size - 1
        /\ \A i \in 1..(Size - 1) : Tail(c)[i] = c[i + 1]
    BY <1>1, <1>4, <2>2
  <2>4. /\ d \in Seq(Challenges) /\ Len(d) = Size
        /\ \A i \in 1..(Size - 1) : d[i] = c[i + 1]
        /\ d[Size] = c[1]
    BY <1>1, <2>2, <2>3
  <2> HIDE DEF d
  <2>5. Spaced(d)
    <3> SUFFICES ASSUME NEW i \in 1..(Size - 1) PROVE d[i] # d[i + 1]
      BY <2>4 DEF Spaced
    <3>1. CASE i + 1 = Size
      BY <1>1, <1>4, <1>7, <2>4, <3>1
    <3>2. CASE i + 1 < Size
      BY <1>1, <1>4, <2>4, <3>2
    <3> QED BY <1>1, <3>1, <3>2
  <2>6. d[1] # c[1]
    BY <1>1, <1>4, <1>7, <2>4
  <2> QED BY <1>7, <2>1, <2>4, <2>5, <2>6 DEF Lists
<1> QED BY <1>6, <1>7

LEMMA Joined ==
  ASSUME NEW a \in Lists, NEW b \in Lists
  PROVE  /\ a \o b \in Lists
         /\ Len(a \o b) = Len(a) + Len(b)
         /\ Begins(a, a \o b)
         /\ \A i \in 1..Len(b) : (a \o b)[Len(a) + i] = b[i]
BY DEF Lists, Begins

LEMMA BeginsTransitive ==
  ASSUME NEW a \in Lists, NEW b \in Lists, NEW c \in Lists, Begins(a, b), Begins(b, c)
  PROVE  Begins(a, c)
BY DEF Lists, Begins

LEMMA BeginsReflexive == ASSUME NEW a \in Lists PROVE Begins(a, a)
BY DEF Lists, Begins

LEMMA SameLength ==
  ASSUME NEW a \in Lists, NEW b \in Lists, Begins(a, b), Len(a) >= Len(b)
  PROVE  a = b
BY DEF Lists, Begins

LEMMA JoinedSpaced ==
  ASSUME NEW a \in Lists, NEW b \in Lists, Len(a) > 0, Len(b) > 0, Spaced(a), Spaced(b),
         Size > 1 => b[1] # a[Len(a)]
  PROVE  Spaced(a \o b)
<1> SUFFICES ASSUME Size > 1, NEW i \in 1..(Len(a \o b) - 1)
             PROVE  (a \o b)[i] # (a \o b)[i + 1]
  BY DEF Spaced
<1> DEFINE c == a \o b
<1>1. Len(a) \in Nat /\ Len(b) \in Nat /\ Len(c) = Len(a) + Len(b) /\ i \in Nat
  BY Joined DEF Lists
<1>2. /\ \A j \in 1..Len(a) : c[j] = a[j]
      /\ \A j \in 1..Len(b) : c[Len(a) + j] = b[j]
  BY Joined DEF Begins
<1>3. i \in 1..(Len(a) + Len(b) - 1)
  BY <1>1
<1> HIDE DEF c
<1>4. CASE i < Len(a)
  <2>1. i \in 1..Len(a) /\ i + 1 \in 1..Len(a) /\ i \in 1..(Len(a) - 1)
    BY <1>1, <1>3, <1>4
  <2>2. c[i] = a[i] /\ c[i + 1] = a[i + 1]
    BY <1>2, <2>1
  <2>3. c[i] # c[i + 1]
    BY <2>1, <2>2 DEF Spaced
  <2> QED BY <2>3 DEF c
<1>5. CASE i = Len(a)
  <2>1. c[i] = a[Len(a)] /\ c[Len(a) + 1] = b[1]
    BY <1>1, <1>2, <1>3, <1>5
  <2>2. c[i] # c[i + 1]
    BY <1>5, <2>1
  <2> QED BY <2>2 DEF c
<1>6. CASE i > Len(a)
  <2> DEFINE j == i - Len(a)
  <2>1. /\ j \in 1..(Len(b) - 1) /\ j \in 1..Len(b) /\ j + 1 \in 1..Len(b)
        /\ Len(a) + j = i /\ Len(a) + (j + 1) = i + 1
    BY <1>1, <1>3, <1>6
  <2> HIDE DEF j
  <2>2. c[i] = b[j] /\ c[i + 1] = b[j + 1]
    BY <1>2, <2>1
  <2>3. c[i] # c[i + 1]
    BY <2>1, <2>2 DEF Spaced
  <2> QED BY <2>3 DEF c
<1> QED BY <1>1, <1>4, <1>5, <1>6

-----------------------------------------------------------------------------
(* Requests.                                                               *)

LEMMA HoldsStay ==
  ASSUME NEW list, NEW q, NEW old \in [Sessions -> Lists], NEW new \in [Sessions -> Lists],
         Holds(q, list, old), \A s \in Sessions : Len(old[s]) <= Len(new[s])
  PROVE  Holds(q, list, new)
<1> SUFFICES ASSUME q.step \in Working PROVE q.next <= Len(new[q.session])
  BY DEF Holds
<1>1. q.session \in Sessions /\ q.next \in Nat /\ q.next <= Len(old[q.session])
  BY DEF Holds
<1>2. Len(old[q.session]) \in Nat /\ Len(new[q.session]) \in Nat
  BY <1>1 DEF Lists
<1> QED BY <1>1, <1>2

LEMMA NewRequest ==
  ASSUME Reqs, NEW r \in Requests, NEW q, Becomes(r, q), UNCHANGED stream,
         rounds \in [Sessions -> Lists], rounds' \in [Sessions -> Lists],
         \A s \in Sessions : Len(rounds[s]) <= Len(rounds'[s]),
         Holds(q, stream, rounds')
  PROVE  Reqs'
<1>1. q \in Kinds /\ req' = [req EXCEPT ![r] = q] /\ req \in [Requests -> Kinds]
  BY DEF Holds, Becomes, Reqs
<1>2. req' \in [Requests -> Kinds] /\ req'[r] = q /\ \A p \in Requests : p # r => req'[p] = req[p]
  BY <1>1
<1>3. ASSUME NEW p \in Requests PROVE Holds(req'[p], stream, rounds')
  <2>1. CASE p = r
    BY <1>2, <2>1
  <2>2. CASE p # r
    <3>1. Holds(req[p], stream, rounds)
      BY DEF Reqs
    <3>2. Holds(req[p], stream, rounds')
      BY <3>1, HoldsStay
    <3> QED BY <1>2, <2>2, <3>2
  <2> QED BY <2>1, <2>2
<1> QED BY <1>2, <1>3 DEF Reqs

\* A request that becomes neither a start nor an extension.
LEMMA LoneStays ==
  ASSUME Lone, Reqs, NEW r \in Requests, NEW q, Becomes(r, q),
         q.step \notin Starting, q.step # "extend"
  PROVE  Lone'
<1>1. req'[r] = q /\ \A p \in Requests : p # r => req'[p] = req[p]
  BY DEF Becomes, Reqs
<1> QED BY <1>1 DEF Lone, At

LEMMA IdleHolds == ASSUME NEW list, NEW drawn PROVE Holds(Idle, list, drawn)
BY DEF Idle, Holds, Kinds, Working

\* An action that changes one request only.
LEMMA OneRequest ==
  ASSUME IInv, NEW r \in Requests, NEW q, Becomes(r, q), UNCHANGED <<rowVars, playVars, starts>>,
         Holds(q, stream, rounds), Lone',
         q.step \in Working => starts # 0
  PROVE  IInv'
<1>1. /\ stream' = stream /\ lists' = lists /\ status' = status /\ rounds' = rounds
      /\ open' = open /\ starts' = starts
  BY DEF rowVars, playVars
<1>2. Rows'
  BY <1>1 DEF IInv, Rows
<1>3. rounds \in [Sessions -> Lists] /\ \A s \in Sessions : Len(rounds[s]) \in Nat
  BY DEF IInv, Rows, Lists
<1>4. Reqs'
  <2>1. \A s \in Sessions : Len(rounds[s]) <= Len(rounds'[s])
    BY <1>1, <1>3
  <2> QED BY <1>1, <1>3, <2>1, NewRequest DEF IInv
<1>5. NotStarted'
  <2>1. req'[r] = q /\ \A p \in Requests : p # r => req'[p] = req[p]
    BY DEF Becomes, IInv, Reqs
  <2> QED BY <1>1, <2>1 DEF IInv, NotStarted
<1> QED BY <1>2, <1>4, <1>5 DEF IInv

\* A request that works on a session does so in a race that was started.
LEMMA Started ==
  ASSUME IInv, NEW r \in Requests, req[r].step \in Working
  PROVE  starts # 0
BY DEF IInv, NotStarted

-----------------------------------------------------------------------------
(* Start.                                                                  *)

LEMMA DueHolds == ASSUME IInv, NEW r \in Requests, Due(r) PROVE IInv'
<1> DEFINE q == [step |-> "due"]
<1>1. starts = 0 /\ Becomes(r, q) /\ UNCHANGED <<rowVars, playVars, starts>>
  BY DEF Due
<1>2. Holds(q, stream, rounds) /\ q.step \notin Working
  BY DEF Holds, Kinds, Working
<1>3. req'[r] = q /\ \A p \in Requests : p # r => req'[p] = req[p]
  BY <1>1 DEF Becomes, IInv, Reqs
<1>4. Lone'
  <2>1. \A p \in Requests : ~At(p, "extend")
    BY <1>1 DEF IInv, NotStarted, At, Working
  <2> QED BY <1>3, <2>1 DEF Lone, At
<1> QED BY <1>1, <1>2, <1>4, OneRequest

LEMMA StartLoadHolds == ASSUME IInv, NEW r \in Requests, StartLoad(r) PROVE IInv'
<1> DEFINE q == [step |-> "start", list |-> stream, starts |-> starts]
<1>1. At(r, "due") /\ Becomes(r, q) /\ UNCHANGED <<rowVars, playVars, starts>>
  BY DEF StartLoad
<1>2. stream \in Lists /\ starts \in Nat
  BY DEF IInv, Rows
<1>3. Holds(q, stream, rounds) /\ q.step \notin Working
  BY <1>2 DEF Holds, Kinds, Working
<1>4. req'[r] = q /\ \A p \in Requests : p # r => req'[p] = req[p]
  BY <1>1 DEF Becomes, IInv, Reqs
<1>5. Lone'
  <2>1. \A p \in Requests : ~At(p, "extend")
    BY <1>1 DEF IInv, Lone, At, Starting
  <2> QED BY <1>4, <2>1 DEF Lone, At
<1> QED BY <1>1, <1>3, <1>5, OneRequest

LEMMA StartCommitHolds ==
  ASSUME IInv, NEW r \in Requests, NEW present \in SUBSET Sessions, StartCommit(r, present)
  PROVE  IInv'
<1>1. At(r, "start") /\ starts' = starts + 1 /\ stream' = stream /\ Becomes(r, Idle)
  BY DEF StartCommit
<1>2. /\ stream \in Lists /\ Len(stream) > 0 /\ starts \in Nat
      /\ lists = [s \in Sessions |-> stream]
      /\ rounds \in [Sessions -> Lists] /\ \A s \in Sessions : Begins(rounds[s], stream)
      /\ status \in [Sessions -> {"PENDING", "ACTIVE", "COMPLETED"}]
      /\ open \in [Sessions -> BOOLEAN]
  BY DEF IInv, Rows
<1>3. req[r].list = stream
  BY <1>1 DEF IInv, Reqs, Holds, At
<1> DEFINE one == <<Head(stream)>>
<1>4. one \in Lists /\ Len(one) = 1 /\ Begins(one, stream)
  BY <1>2 DEF Lists, Begins
<1>5. rounds' = [s \in Sessions |-> IF s \in present /\ rounds[s] = <<>> THEN one ELSE rounds[s]]
  BY <1>3 DEF StartCommit
<1> HIDE DEF one
<1>6. rounds' \in [Sessions -> Lists] /\ \A s \in Sessions : Begins(rounds'[s], stream)
  BY <1>2, <1>4, <1>5
<1>7. \A s \in Sessions : Len(rounds[s]) <= Len(rounds'[s])
  <2> SUFFICES ASSUME NEW s \in Sessions PROVE Len(rounds[s]) <= Len(rounds'[s])
    OBVIOUS
  <2>1. Len(rounds[s]) \in Nat /\ (rounds[s] = <<>> => Len(rounds[s]) = 0)
    BY <1>2 DEF Lists
  <2>2. rounds'[s] = rounds[s] \/ (rounds[s] = <<>> /\ rounds'[s] = one)
    BY <1>5
  <2> QED BY <1>4, <2>1, <2>2
<1>8. Rows'
  <2>1. lists' = [s \in Sessions |-> stream]
    BY <1>2, <1>3 DEF StartCommit
  <2>2. /\ status' \in [Sessions -> {"PENDING", "ACTIVE", "COMPLETED"}]
        /\ open' \in [Sessions -> BOOLEAN] /\ starts' \in Nat
    BY <1>1, <1>2 DEF StartCommit
  <2> QED BY <1>1, <1>6, <2>1, <2>2 DEF IInv, Rows
<1>9. Reqs'
  BY <1>1, <1>2, <1>6, <1>7, IdleHolds, NewRequest DEF IInv
<1>10. Lone'
  <2>1. Idle.step \notin Starting /\ Idle.step # "extend"
    BY DEF Idle, Starting
  <2> QED BY <1>1, <2>1, LoneStays DEF IInv
<1>11. NotStarted'
  BY <1>1, <1>2 DEF NotStarted
<1> QED BY <1>8, <1>9, <1>10, <1>11 DEF IInv

-----------------------------------------------------------------------------
(* Progression.                                                            *)

LEMMA ProgressHolds ==
  ASSUME IInv, NEW r \in Requests, NEW s \in Sessions, Progress(r, s) PROVE IInv'
<1> DEFINE q == [step |-> "loaded", session |-> s, next |-> Len(rounds[s]), list |-> lists[s]]
<1>1. /\ rounds[s] # <<>> /\ Becomes(r, q) /\ UNCHANGED <<rowVars, playVars, starts>>
  BY DEF Progress
<1>2. /\ stream \in Lists /\ lists[s] = stream /\ rounds[s] \in Lists /\ Begins(rounds[s], stream)
  BY DEF IInv, Rows
<1>3. Len(rounds[s]) \in Nat /\ Len(rounds[s]) <= Len(stream)
  BY <1>2 DEF Lists, Begins
<1>4. Holds(q, stream, rounds)
  BY <1>2, <1>3, BeginsReflexive DEF Holds, Kinds, Working
<1>5. Lone'
  BY <1>1, LoneStays DEF IInv, Starting
<1>6. starts # 0
  BY <1>1 DEF IInv, NotStarted
<1> QED BY <1>1, <1>4, <1>5, <1>6, OneRequest

\* What a request that works on a session holds.
LEMMA Held ==
  ASSUME IInv, NEW r \in Requests, req[r].step \in Working
  PROVE  /\ req[r].session \in Sessions /\ req[r].list \in Lists
         /\ Begins(req[r].list, stream)
         /\ req[r].next \in Nat /\ req[r].next <= Len(rounds[req[r].session])
         /\ req[r].next <= Len(req[r].list)
         /\ stream \in Lists /\ Len(stream) \in Nat /\ Len(stream) > 0
         /\ Len(req[r].list) \in Nat
         /\ starts # 0
<1>1. Holds(req[r], stream, rounds)
  BY DEF IInv, Reqs
<1>2. /\ req[r].session \in Sessions /\ req[r].list \in Lists
      /\ Begins(req[r].list, stream)
      /\ req[r].next \in Nat /\ req[r].next <= Len(rounds[req[r].session])
      /\ req[r].next <= Len(req[r].list)
  BY <1>1 DEF Holds
<1>3. stream \in Lists /\ Len(stream) > 0
  BY DEF IInv, Rows
<1>4. Len(stream) \in Nat /\ Len(req[r].list) \in Nat
  BY <1>2, <1>3 DEF Lists
<1> QED BY <1>2, <1>3, <1>4, Started

\* A request goes on with a list that has its next challenge.
LEMMA ReadyHolds ==
  ASSUME IInv, NEW r \in Requests, req[r].step \in Working,
         NEW list \in Lists, Begins(list, stream), req[r].next < Len(list),
         Ready(r, list), UNCHANGED <<rowVars, playVars, starts>>
  PROVE  IInv'
<1> DEFINE q == [step |-> "ready", session |-> req[r].session, next |-> req[r].next,
                 list |-> list]
<1>1. Becomes(r, q)
  BY DEF Ready
<1>2. Len(list) \in Nat
  BY DEF Lists
<1>3. Holds(q, stream, rounds)
  BY <1>2, Held DEF Holds, Kinds, Working
<1>4. Lone'
  BY <1>1, LoneStays DEF IInv, Starting
<1>5. starts # 0
  BY Held
<1> QED BY <1>1, <1>3, <1>4, <1>5, OneRequest

LEMMA InListHolds == ASSUME IInv, NEW r \in Requests, InList(r) PROVE IInv'
<1>1. /\ req[r].step \in Working /\ ~(req[r].next >= Len(req[r].list))
      /\ Ready(r, req[r].list) /\ UNCHANGED <<rowVars, playVars, starts>>
  BY DEF InList, At, Exhausted, Working
<1>2. req[r].next < Len(req[r].list) /\ req[r].list \in Lists /\ Begins(req[r].list, stream)
  BY <1>1, Held
<1> QED BY <1>1, <1>2, ReadyHolds

LEMMA ExtendedHolds == ASSUME IInv, NEW r \in Requests, Extended(r) PROVE IInv'
<1>1. /\ req[r].step \in Working /\ Len(stream) > Len(req[r].list)
      /\ Ready(r, stream) /\ UNCHANGED <<rowVars, playVars, starts>>
  BY DEF Extended, At, Working
<1>2. stream \in Lists /\ Begins(stream, stream) /\ req[r].next < Len(stream)
  BY <1>1, Held, BeginsReflexive
<1> QED BY <1>1, <1>2, ReadyHolds

\* What Prompt says of a beginning extension.
Timely(r) == \A q \in Requests :
  /\ req[q].step \notin Starting
  /\ At(q, "extend") => Len(req[q].list) >= Len(stream)

LEMMA ExtendLoadHolds ==
  ASSUME Catalogue, IInv, NEW r \in Requests, ExtendLoad(r), Timely(r) PROVE IInv'
<1> DEFINE q == [step |-> "extend", session |-> req[r].session, next |-> req[r].next,
                 list |-> req[r].list, cycle |-> NextCycle(stream)]
<1>1. /\ req[r].step \in Working /\ Len(stream) <= Len(req[r].list)
      /\ Becomes(r, q) /\ UNCHANGED <<rowVars, playVars, starts>>
  BY DEF ExtendLoad, At, Working
<1>2. req[r].list = stream
  BY <1>1, Held, SameLength
<1>3. NextCycle(stream) \in Lists
  BY <1>1, Held, CycleIsOrder
<1>4. Holds(q, stream, rounds)
  BY <1>1, <1>2, <1>3, Held DEF Holds, Kinds, Working
<1>5. Lone'
  <2>1. req'[r] = q /\ \A p \in Requests : p # r => req'[p] = req[p]
    BY <1>1 DEF Becomes, IInv, Reqs
  <2>2. \A p \in Requests : req[p].step \notin Starting
    BY DEF Timely
  <2>3. ASSUME NEW p \in Requests, At(p, "extend") PROVE req[p].list = stream
    <3>1. req[p].step \in Working /\ Len(req[p].list) >= Len(stream)
      BY <1>1, <2>3 DEF Timely, At, Working
    <3> QED BY <3>1, Held, SameLength
  <2> QED BY <1>2, <2>1, <2>2, <2>3 DEF Lone, At, Starting
<1>6. starts # 0
  BY <1>1, Held
<1> QED BY <1>1, <1>4, <1>5, <1>6, OneRequest

\* What an extension writes: the list, with or for the first time with the
\* cycle that every extension under way has.
LEMMA Extension ==
  ASSUME Catalogue, IInv, NEW r \in Requests, At(r, "extend")
  PROVE  LET list == req[r].list \o req[r].cycle IN
         /\ list \in Lists /\ Len(list) > Len(req[r].list) /\ Spaced(list)
         /\ Begins(stream, list)
         /\ \A p \in Requests : At(p, "extend") => list = req[p].list \o req[p].cycle
<1> DEFINE a == req[r].list
           c == req[r].cycle
<1>1. /\ a \in Lists /\ Len(a) > 0 /\ c = NextCycle(a) /\ (stream = a \/ stream = a \o c)
  BY DEF IInv, Reqs, Holds, At, Working
<1>2. /\ c \in Lists /\ Len(c) = Size /\ Spaced(c) /\ (Size > 1 => c[1] # a[Len(a)])
  BY <1>1, CycleIsOrder
<1>3. Size > 0 /\ Len(a) \in Nat /\ Size \in Nat
  BY <1>1 DEF Catalogue, Lists
<1>4. stream \in Lists /\ Spaced(stream)
  BY DEF IInv, Rows
<1>5. \A p \in Requests : At(p, "extend") => req[p].list = a /\ req[p].cycle = c
  BY <1>1 DEF IInv, Lone, Reqs, Holds, At, Working
<1> HIDE DEF a, c
<1>6. a \o c \in Lists /\ Len(a \o c) > Len(a) /\ Begins(a, a \o c)
  BY <1>1, <1>2, <1>3, Joined
<1>7. Spaced(a \o c)
  <2>1. CASE stream = a
    BY <1>1, <1>2, <1>3, <1>4, <2>1, JoinedSpaced
  <2>2. CASE stream = a \o c
    BY <1>4, <2>2
  <2> QED BY <1>1, <2>1, <2>2
<1>8. Begins(stream, a \o c)
  BY <1>1, <1>4, <1>6, BeginsReflexive
<1> QED BY <1>5, <1>6, <1>7, <1>8 DEF a, c

LEMMA ExtendCommitHolds ==
  ASSUME Catalogue, IInv, NEW r \in Requests, ExtendCommit(r) PROVE IInv'
<1> DEFINE list == req[r].list \o req[r].cycle
           q == [step |-> "ready", session |-> req[r].session, next |-> req[r].next,
                 list |-> list]
<1>1. /\ At(r, "extend") /\ stream' = list /\ lists' = [s \in Sessions |-> list]
      /\ Becomes(r, q) /\ UNCHANGED <<playVars, starts>>
  BY DEF ExtendCommit, Ready
<1>2. /\ list \in Lists /\ Len(list) > Len(req[r].list) /\ Spaced(list) /\ Begins(stream, list)
      /\ \A p \in Requests : At(p, "extend") => list = req[p].list \o req[p].cycle
  BY <1>1, Extension
<1>3. /\ req[r].session \in Sessions /\ req[r].list \in Lists
      /\ req[r].next \in Nat /\ req[r].next <= Len(rounds[req[r].session])
      /\ req[r].next <= Len(req[r].list)
      /\ stream \in Lists /\ Len(stream) > 0 /\ starts # 0 /\ Len(req[r].list) \in Nat
      /\ Len(stream) \in Nat
  BY <1>1, Held DEF At, Working
<1> HIDE DEF list
<1>4. Len(list) \in Nat /\ Len(list) > 0 /\ Len(list) > req[r].next
  BY <1>2, <1>3 DEF Lists
<1>5. rounds' = rounds /\ status' = status /\ open' = open /\ starts' = starts
  BY <1>1 DEF playVars
<1>6. Rows'
  <2>1. \A s \in Sessions : Begins(rounds[s], list)
    BY <1>2, <1>3, BeginsTransitive DEF IInv, Rows
  <2> QED BY <1>1, <1>2, <1>4, <1>5, <2>1 DEF IInv, Rows
<1>7. req'[r] = q /\ \A p \in Requests : p # r => req'[p] = req[p]
  BY <1>1 DEF Becomes, IInv, Reqs
<1>8. Reqs'
  <2>1. q \in Kinds
    BY <1>2, <1>3 DEF Kinds
  <2>2. Holds(q, list, rounds)
    BY <1>2, <1>3, <1>4, <2>1, BeginsReflexive DEF Holds, Working
  <2>3. ASSUME NEW p \in Requests, p # r PROVE Holds(req[p], list, rounds)
    <3>1. Holds(req[p], stream, rounds)
      BY DEF IInv, Reqs
    <3>2. req[p].step # "start"
      BY <1>1 DEF IInv, Lone, At, Starting
    <3>3. req[p].step \in Working => Begins(req[p].list, list)
      BY <1>2, <1>3, <3>1, BeginsTransitive DEF Holds
    <3>4. req[p].step = "extend" => list = req[p].list \o req[p].cycle
      BY <1>2 DEF At
    <3> QED BY <3>1, <3>2, <3>3, <3>4 DEF Holds
  <2>4. req' \in [Requests -> Kinds]
    BY <1>1, <2>1 DEF Becomes, IInv, Reqs
  <2> QED BY <1>1, <1>5, <1>7, <2>2, <2>3, <2>4 DEF Reqs
<1>9. Lone'
  BY <1>1, LoneStays DEF IInv, Starting
<1>10. NotStarted'
  BY <1>3, <1>5 DEF NotStarted
<1> QED BY <1>6, <1>8, <1>9, <1>10 DEF IInv

LEMMA DrawHolds == ASSUME IInv, NEW r \in Requests, Draw(r) PROVE IInv'
<1> DEFINE s == req[r].session
           p == req[r].next
           a == req[r].list
<1>1. /\ At(r, "ready") /\ Becomes(r, Idle) /\ stream' = stream /\ lists' = lists
      /\ starts' = starts /\ req[r].step \in Working
  BY DEF Draw, rowVars, At, Working
<1>2. /\ s \in Sessions /\ a \in Lists /\ Begins(a, stream) /\ p \in Nat
      /\ stream \in Lists /\ starts # 0 /\ Len(a) \in Nat /\ Len(stream) \in Nat
  BY <1>1, Held
<1>3. p < Len(a)
  BY <1>1 DEF IInv, Reqs, Holds, At, Working
<1>4. /\ rounds \in [Sessions -> Lists] /\ \A t \in Sessions : Begins(rounds[t], stream)
      /\ open \in [Sessions -> BOOLEAN]
      /\ status \in [Sessions -> {"PENDING", "ACTIVE", "COMPLETED"}]
  BY DEF IInv, Rows
<1>5. /\ status' = status
      /\ rounds' = IF Len(rounds[s]) = p THEN [rounds EXCEPT ![s] = Append(@, a[p + 1])]
                   ELSE rounds
      /\ open' = IF Len(rounds[s]) = p THEN [open EXCEPT ![s] = TRUE] ELSE open
  BY <1>2, <1>3 DEF Draw, Exhausted
<1> HIDE DEF s, p, a
<1>6. ASSUME Len(rounds[s]) = p
      PROVE  LET b == Append(rounds[s], a[p + 1]) IN
             b \in Lists /\ Len(b) = p + 1 /\ Begins(b, stream)
  <2>1. rounds[s] \in Seq(Challenges) /\ a \in Seq(Challenges) /\ stream \in Seq(Challenges)
    BY <1>2, <1>4 DEF Lists
  <2>2. p + 1 \in 1..Len(a) /\ a[p + 1] \in Challenges /\ a[p + 1] = stream[p + 1]
        /\ p + 1 <= Len(stream)
    BY <1>2, <1>3, <2>1 DEF Begins
  <2>3. \A i \in 1..p : rounds[s][i] = stream[i]
    BY <1>2, <1>4, <1>6 DEF Begins
  <2> QED BY <1>2, <1>6, <2>1, <2>2, <2>3 DEF Lists, Begins
<1>7. /\ rounds' \in [Sessions -> Lists]
      /\ \A t \in Sessions : Begins(rounds'[t], stream)
      /\ \A t \in Sessions : Len(rounds[t]) <= Len(rounds'[t])
  <2>1. ASSUME NEW t \in Sessions PROVE Len(rounds[t]) \in Nat
    <3>1. rounds[t] \in Lists
      BY <1>4
    <3> QED BY <3>1 DEF Lists
  <2>2. CASE Len(rounds[s]) = p
    BY <1>2, <1>4, <1>5, <1>6, <2>1, <2>2
  <2>3. CASE Len(rounds[s]) # p
    BY <1>4, <1>5, <2>1, <2>3
  <2> QED BY <2>2, <2>3
<1>8. Rows'
  <2>1. open' \in [Sessions -> BOOLEAN]
    BY <1>4, <1>5
  <2> QED BY <1>1, <1>5, <1>7, <2>1 DEF IInv, Rows
<1>9. Reqs'
  BY <1>1, <1>4, <1>7, IdleHolds, NewRequest DEF IInv
<1>10. Lone'
  <2>1. Idle.step \notin Starting /\ Idle.step # "extend"
    BY DEF Idle, Starting
  <2> QED BY <1>1, <2>1, LoneStays DEF IInv
<1>11. NotStarted'
  BY <1>1, <1>2 DEF NotStarted
<1> QED BY <1>8, <1>9, <1>10, <1>11 DEF IInv

LEMMA FailsHolds == ASSUME IInv, NEW r \in Requests, Fails(r) PROVE IInv'
<1>1. Becomes(r, Idle) /\ UNCHANGED <<rowVars, playVars, starts>>
  BY DEF Fails
<1>2. Idle.step \notin Starting /\ Idle.step # "extend" /\ Idle.step \notin Working
  BY DEF Idle, Starting, Working
<1>3. Lone'
  BY <1>1, <1>2, LoneStays DEF IInv
<1> QED BY <1>1, <1>2, <1>3, IdleHolds, OneRequest
-----------------------------------------------------------------------------
(* Invariant.                                                              *)

LEMMA SessionHolds ==
  ASSUME IInv, NEW s \in Sessions, Resolve(s) \/ End(s) PROVE IInv'
<1>1. /\ stream' = stream /\ lists' = lists /\ rounds' = rounds /\ starts' = starts
      /\ req' = req
  BY DEF Resolve, End, rowVars
<1>2. /\ status' \in [Sessions -> {"PENDING", "ACTIVE", "COMPLETED"}]
      /\ open' \in [Sessions -> BOOLEAN]
  BY DEF Resolve, End, IInv, Rows
<1>3. Rows'
  BY <1>1, <1>2 DEF IInv, Rows
<1> QED BY <1>1, <1>3 DEF IInv, Reqs, Lone, NotStarted, At

LEMMA InitHolds == ASSUME Catalogue PROVE Init => IInv
<1> SUFFICES ASSUME Init PROVE IInv
  OBVIOUS
<1>1. Order[0] \in Lists /\ Len(Order[0]) = Size /\ Size > 0 /\ Size \in Nat
  BY DEF Catalogue
<1>2. Spaced(Order[0])
  BY <1>1 DEF Catalogue, Spaced
<1>3. <<>> \in Lists /\ Begins(<<>>, Order[0])
  BY <1>1 DEF Lists, Begins
<1>4. Rows
  BY <1>1, <1>2, <1>3 DEF Init, Rows
<1>5. Idle \in Kinds /\ Idle.step = "idle"
  BY DEF Idle, Kinds
<1>6. Reqs
  BY <1>5, IdleHolds DEF Init, Reqs
<1> QED BY <1>4, <1>5, <1>6 DEF Init, IInv, Lone, NotStarted, At, Working

LEMMA NextHolds ==
  ASSUME Catalogue
  PROVE  IInv /\ [Next]_vars /\ [BeginsInTime]_vars => IInv'
<1> SUFFICES ASSUME IInv, [Next]_vars, [BeginsInTime]_vars PROVE IInv'
  OBVIOUS
<1>1. CASE UNCHANGED vars
  BY <1>1 DEF vars, rowVars, playVars, IInv, Rows, Reqs, Lone, NotStarted, At
<1>2. CASE Next /\ BeginsInTime
  <2>1. \A r \in Requests : ExtendLoad(r) => Timely(r)
    BY <1>2 DEF BeginsInTime, Timely, Starting
  <2> QED
    BY <1>2, <2>1, DueHolds, StartLoadHolds, StartCommitHolds, ProgressHolds, InListHolds,
       ExtendedHolds, ExtendLoadHolds, ExtendCommitHolds, DrawHolds, FailsHolds, SessionHolds
    DEF Next
<1> QED BY <1>1, <1>2

LEMMA InvariantHolds == ASSUME Catalogue PROVE Spec /\ Prompt => []IInv
<1>1. Init => IInv
  BY InitHolds
<1>2. IInv /\ [Next]_vars /\ [BeginsInTime]_vars => IInv'
  BY NextHolds
<1> QED BY <1>1, <1>2, PTL DEF Spec, Prompt

-----------------------------------------------------------------------------
\* Rows, rounds and requests keep their types.
THEOREM TypeCorrect == ASSUME Catalogue PROVE Spec /\ Prompt => []TypeOK
<1>1. IInv => TypeOK
  BY DEF IInv, Rows, Reqs, TypeOK
<1> QED BY <1>1, InvariantHolds, PTL

\* However many players come to the end of the list together, all draw the
\* same challenge for the same round (extendMultiplayerChallengeIds: "all
\* players keep drawing from the same authoritative prompt stream"), as long as
\* no extension is held up for a whole cycle.
THEOREM EveryonePlaysTheSame == ASSUME Catalogue PROVE Spec /\ Prompt => []SameOrder
<1>1. IInv => SameOrder
  <2> SUFFICES ASSUME IInv, NEW s \in Sessions, NEW t \in Sessions,
                      NEW p \in DOMAIN rounds[s] \intersect DOMAIN rounds[t]
               PROVE  rounds[s][p] = rounds[t][p]
    BY DEF SameOrder
  <2>1. /\ rounds[s] \in Lists /\ rounds[t] \in Lists
        /\ Begins(rounds[s], stream) /\ Begins(rounds[t], stream)
    BY DEF IInv, Rows
  <2>2. p \in 1..Len(rounds[s]) /\ p \in 1..Len(rounds[t])
    BY <2>1 DEF Lists
  <2> QED BY <2>1, <2>2 DEF Begins
<1> QED BY <1>1, InvariantHolds, PTL

\* The trade at the seam of two cycles does what it is for
\* (buildNextSharedChallengeCycle), as long as no extension is held up.
THEOREM NoRepeats == ASSUME Catalogue PROVE Spec /\ Prompt => []NeverTwiceInARow
<1>1. IInv => NeverTwiceInARow
  <2> SUFFICES ASSUME IInv, Size > 1, NEW s \in Sessions, NEW p \in 1..(Len(rounds[s]) - 1)
               PROVE  rounds[s][p] # rounds[s][p + 1]
    BY DEF NeverTwiceInARow
  <2>1. /\ rounds[s] \in Lists /\ Begins(rounds[s], stream)
        /\ stream \in Lists /\ Spaced(stream)
    BY DEF IInv, Rows
  <2>2. Len(rounds[s]) \in Nat /\ Len(stream) \in Nat
    BY <2>1 DEF Lists
  <2>3. /\ p \in 1..Len(rounds[s]) /\ p + 1 \in 1..Len(rounds[s])
        /\ p \in 1..(Len(stream) - 1)
    BY <2>1, <2>2 DEF Begins
  <2>4. rounds[s][p] = stream[p] /\ rounds[s][p + 1] = stream[p + 1]
    BY <2>1, <2>3 DEF Begins
  <2> QED BY <2>1, <2>3, <2>4 DEF Spaced
<1> QED BY <1>1, InvariantHolds, PTL
=============================================================================
