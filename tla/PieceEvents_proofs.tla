-------------------------- MODULE PieceEvents_proofs --------------------------
(***************************************************************************)
(* What the game has processed it never processes again, for any number of *)
(* events, requests and losses, whatever else may happen on the line.      *)
(*                                                                         *)
(* Up to the queue of callbacks the events lie on one way: the invariant   *)
(* puts marks between the places, and what waits in one is sorted and lies *)
(* between the mark before it and the mark behind it.  Behind the callbacks *)
(* three threads carry events on and order is lost: there the invariant    *)
(* says that none is in two queues, or twice in one, and none is newer     *)
(* than the mark of the callbacks.                                         *)
(***************************************************************************)
EXTENDS PieceEvents, TLAPS

\* The events of s are sorted, above lo and up to hi.
Within(s, lo, hi) ==
    /\ \A i \in 1..Len(s): lo < s[i] /\ s[i] <= hi
    /\ \A i, j \in 1..Len(s): i < j => s[i] < s[j]

\* The same of the packets on the line, one after the other.
LineWithin(l, lo, hi) ==
    /\ \A i \in 1..Len(l): Within(l[i].events, lo, hi)
    /\ \A i, j \in 1..Len(l): i < j =>
           \A k \in 1..Len(l[i].events), m \in 1..Len(l[j].events):
               l[i].events[k] < l[j].events[m]

Parcels == [type: {"address", "state", "changes"}, events: Seq(Nat)]

QueuesOfEvents ==
    /\ taken \in Seq(Nat) /\ batch \in Seq(Nat) /\ gmPending \in Seq(Nat)
    /\ pieces \in Seq(Nat) /\ callbacks \in Seq(Nat) /\ held \in Seq(Nat)
    /\ line \in Seq(Parcels)
    /\ happened \in Nat

\* What waits in the driver.
WayBetween(lo) ==
    \E e, f \in 0..happened:
        /\ lo <= e /\ e <= f
        /\ Within(callbacks, lo, e) /\ LineWithin(line, e, f)
        /\ Within(held, f, happened)

\* No event is twice in s, and none is newer than hi; none is in both s and t.
Once(s, hi) ==
    /\ \A i \in 1..Len(s): s[i] <= hi
    /\ \A i, j \in 1..Len(s): s[i] = s[j] => i = j

Apart(s, t) == \A i \in 1..Len(s), j \in 1..Len(t): s[i] # t[j]

\* The same of four queues.
OnceInAll(s, t, u, v, hi) ==
    /\ Once(s, hi) /\ Once(t, hi) /\ Once(u, hi) /\ Once(v, hi)
    /\ Apart(s, t) /\ Apart(s, u) /\ Apart(s, v)
    /\ Apart(t, u) /\ Apart(t, v) /\ Apart(u, v)

\* What the application has.
AppOnce(hi) == OnceInAll(taken, batch, gmPending, pieces, hi)

IInv == QueuesOfEvents /\ \E c \in 0..happened: AppOnce(c) /\ WayBetween(c)

-----------------------------------------------------------------------------
(* Sorted sequences between marks                                          *)

LEMMA EmptyWithin ==
    ASSUME NEW lo \in Nat, NEW hi \in Nat
    PROVE  Within(<<>>, lo, hi)
  BY DEF Within

LEMMA ElementWithin ==
    ASSUME NEW s \in Seq(Nat), NEW lo \in Nat, NEW hi \in Nat, Within(s, lo, hi),
           NEW k \in 1..Len(s)
    PROVE  s[k] \in Nat /\ lo < s[k] /\ s[k] <= hi
  BY DEF Within

LEMMA WithinWider ==
    ASSUME NEW s \in Seq(Nat), NEW lo \in Nat, NEW hi \in Nat, NEW top \in Nat,
           Within(s, lo, hi), hi <= top
    PROVE  Within(s, lo, top)
  BY DEF Within

LEMMA AppendWithin ==
    ASSUME NEW s \in Seq(Nat), NEW lo \in Nat, NEW hi \in Nat, NEW x \in Nat,
           Within(s, lo, hi), lo <= hi, hi < x
    PROVE  Append(s, x) \in Seq(Nat) /\ Within(Append(s, x), lo, x)
  BY DEF Within

LEMMA HeadWithin ==
    ASSUME NEW s \in Seq(Nat), NEW lo \in Nat, NEW hi \in Nat, Within(s, lo, hi), s # <<>>
    PROVE  /\ Head(s) \in Nat /\ lo < Head(s) /\ Head(s) <= hi
           /\ Tail(s) \in Seq(Nat) /\ Within(Tail(s), Head(s), hi)
  BY DEF Within

LEMMA ConcatWithin ==
    ASSUME NEW s \in Seq(Nat), NEW t \in Seq(Nat),
           NEW lo \in Nat, NEW mid \in Nat, NEW hi \in Nat,
           Within(s, lo, mid), Within(t, mid, hi), lo <= mid, mid <= hi
    PROVE  s \o t \in Seq(Nat) /\ Within(s \o t, lo, hi)
<1> DEFINE c == s \o t
<1>1. /\ c \in Seq(Nat) /\ Len(c) \in Nat /\ Len(s) \in Nat
      /\ \A i \in 1..Len(c): i <= Len(s) => i \in 1..Len(s) /\ c[i] = s[i]
      /\ \A i \in 1..Len(c): i > Len(s) => i - Len(s) \in 1..Len(t) /\ c[i] = t[i - Len(s)]
  OBVIOUS
<1>2. /\ \A i \in 1..Len(s): s[i] \in Nat /\ lo < s[i] /\ s[i] <= mid
      /\ \A i \in 1..Len(t): t[i] \in Nat /\ mid < t[i] /\ t[i] <= hi
  BY DEF Within
<1> HIDE DEF c
<1>3. ASSUME NEW i \in 1..Len(c) PROVE lo < c[i] /\ c[i] <= hi
  <2>1. CASE i <= Len(s)
    <3>1. i \in 1..Len(s) /\ c[i] = s[i]
      BY <1>1, <2>1
    <3>2. c[i] \in Nat /\ lo < c[i] /\ c[i] <= mid
      BY <1>2, <3>1
    <3> QED
      BY <3>2
  <2>2. CASE i > Len(s)
    <3>1. i - Len(s) \in 1..Len(t) /\ c[i] = t[i - Len(s)]
      BY <1>1, <2>2
    <3>2. c[i] \in Nat /\ mid < c[i] /\ c[i] <= hi
      BY <1>2, <3>1
    <3> QED
      BY <3>2
  <2> QED
    BY <1>1, <2>1, <2>2
<1>4. ASSUME NEW i \in 1..Len(c), NEW j \in 1..Len(c), i < j PROVE c[i] < c[j]
  <2>1. CASE j <= Len(s)
    <3>1. i \in 1..Len(s) /\ j \in 1..Len(s) /\ c[i] = s[i] /\ c[j] = s[j]
      BY <1>1, <1>4, <2>1
    <3> QED
      BY <3>1, <1>4 DEF Within
  <2>2. CASE i <= Len(s) /\ j > Len(s)
    <3>1. i \in 1..Len(s) /\ c[i] = s[i]
      BY <1>1, <2>2
    <3>2. j - Len(s) \in 1..Len(t) /\ c[j] = t[j - Len(s)]
      BY <1>1, <2>2
    <3>3. c[i] \in Nat /\ c[j] \in Nat /\ c[i] <= mid /\ mid < c[j]
      BY <1>2, <3>1, <3>2
    <3> QED
      BY <3>3
  <2>3. CASE i > Len(s)
    <3>1. /\ i - Len(s) \in 1..Len(t) /\ c[i] = t[i - Len(s)]
          /\ j - Len(s) \in 1..Len(t) /\ c[j] = t[j - Len(s)]
          /\ i - Len(s) < j - Len(s)
      BY <1>1, <1>4, <2>3
    <3> QED
      BY <3>1 DEF Within
  <2> QED
    BY <1>1, <1>4, <2>1, <2>2, <2>3
<1>5. c \in Seq(Nat) /\ Within(c, lo, hi)
  BY <1>1, <1>3, <1>4 DEF Within
<1> QED
  BY <1>5 DEF c

LEMMA LineTail ==
    ASSUME NEW l \in Seq(Parcels), NEW lo \in Nat, NEW hi \in Nat,
           LineWithin(l, lo, hi), l # <<>>, lo <= hi
    PROVE  /\ Tail(l) \in Seq(Parcels) /\ LineWithin(Tail(l), lo, hi)
           /\ Head(l).events \in Seq(Nat)
           /\ \E m \in lo..hi:
                  Within(Head(l).events, lo, m) /\ LineWithin(Tail(l), m, hi)
<1> DEFINE es == Head(l).events
           m == IF es = <<>> THEN lo ELSE es[Len(es)]
<1>1. /\ Tail(l) \in Seq(Parcels) /\ Head(l) \in Parcels /\ Head(l) = l[1] /\ 1 \in 1..Len(l)
      /\ Len(Tail(l)) = Len(l) - 1
      /\ \A i \in 1..Len(Tail(l)): Tail(l)[i] = l[i + 1] /\ i + 1 \in 1..Len(l) /\ 1 < i + 1
  OBVIOUS
<1>2. es \in Seq(Nat)
  BY <1>1 DEF Parcels
<1>3. Within(es, lo, hi)
  BY <1>1 DEF LineWithin
<1>4. LineWithin(Tail(l), lo, hi)
  BY <1>1 DEF LineWithin
<1>5. m \in lo..hi /\ Within(es, lo, m)
  BY <1>2, <1>3 DEF Within
<1>6. LineWithin(Tail(l), m, hi)
  <2>1. CASE es = <<>>
    BY <1>4, <2>1
  <2>2. CASE es # <<>>
    <3>1. Len(es) \in 1..Len(es) /\ m = es[Len(es)]
      BY <1>2, <2>2
    <3>2. ASSUME NEW i \in 1..Len(Tail(l)) PROVE Within(Tail(l)[i].events, m, hi)
      <4>1. \A k \in 1..Len(es), n \in 1..Len(l[i + 1].events): es[k] < l[i + 1].events[n]
        BY <1>1, Zenon DEF LineWithin
      <4>2. \A n \in 1..Len(Tail(l)[i].events): m < Tail(l)[i].events[n]
        BY <1>1, <3>1, <4>1, Zenon
      <4> QED
        BY <4>2, <1>4 DEF LineWithin, Within
    <3> QED
      BY <3>2, <1>4 DEF LineWithin
  <2> QED
    BY <2>1, <2>2
<1> QED
  BY <1>1, <1>2, <1>4, <1>5, <1>6

LEMMA LineAppend ==
    ASSUME NEW l \in Seq(Parcels), NEW p \in Parcels,
           NEW lo \in Nat, NEW mid \in Nat, NEW hi \in Nat,
           LineWithin(l, lo, mid), Within(p.events, mid, hi), lo <= mid, mid <= hi
    PROVE  Append(l, p) \in Seq(Parcels) /\ LineWithin(Append(l, p), lo, hi)
<1> DEFINE c == Append(l, p)
<1>1. /\ c \in Seq(Parcels) /\ Len(c) \in Nat /\ Len(l) \in Nat
      /\ \A i \in 1..Len(c): i <= Len(l) => i \in 1..Len(l) /\ c[i] = l[i]
      /\ \A i \in 1..Len(c): i > Len(l) => c[i] = p
      /\ \A i, j \in 1..Len(c): i < j => i <= Len(l)
  OBVIOUS
<1>2. /\ p.events \in Seq(Nat)
      /\ \A i \in 1..Len(l): l[i].events \in Seq(Nat)
  <2>1. \A q \in Parcels: q.events \in Seq(Nat)
    BY DEF Parcels
  <2>2. \A i \in 1..Len(l): l[i] \in Parcels
    OBVIOUS
  <2> QED
    BY <2>1, <2>2
<1> HIDE DEF c
<1>3. ASSUME NEW i \in 1..Len(c) PROVE Within(c[i].events, lo, hi)
  <2>1. CASE i > Len(l)
    <3>1. c[i] = p
      BY <1>1, <2>1
    <3>2. ASSUME NEW k \in 1..Len(p.events) PROVE lo < p.events[k] /\ p.events[k] <= hi
      <4>1. p.events[k] \in Nat /\ mid < p.events[k] /\ p.events[k] <= hi
        BY <1>2, ElementWithin
      <4> QED
        BY <4>1
    <3>3. \A j, k \in 1..Len(p.events): j < k => p.events[j] < p.events[k]
      BY DEF Within
    <3>4. Within(p.events, lo, hi)
      BY <3>2, <3>3, Zenon DEF Within
    <3> QED
      BY <3>1, <3>4
  <2>2. CASE i <= Len(l)
    <3>1. c[i] = l[i] /\ l[i].events \in Seq(Nat) /\ Within(l[i].events, lo, mid)
      BY <1>1, <1>2, <2>2 DEF LineWithin
    <3> QED
      BY <3>1, WithinWider
  <2> QED
    BY <1>1, <2>1, <2>2
<1>4. ASSUME NEW i \in 1..Len(c), NEW j \in 1..Len(c), i < j,
             NEW k \in 1..Len(c[i].events), NEW m \in 1..Len(c[j].events)
      PROVE  c[i].events[k] < c[j].events[m]
  <2>1. i \in 1..Len(l) /\ c[i] = l[i]
    BY <1>1, <1>4
  <2>2. CASE j <= Len(l)
    <3>1. j \in 1..Len(l) /\ c[j] = l[j]
      BY <1>1, <2>2
    <3> QED
      BY <2>1, <3>1, <1>4 DEF LineWithin
  <2>3. CASE j > Len(l)
    <3>1. c[j] = p
      BY <1>1, <2>3
    <3>2. l[i].events[k] <= mid /\ l[i].events[k] \in Nat
      <4>1. Within(l[i].events, lo, mid)
        BY <2>1 DEF LineWithin
      <4>2. k \in 1..Len(l[i].events)
        BY <2>1
      <4>3. l[i].events \in Seq(Nat)
        BY <1>2, <2>1
      <4> QED
        BY <4>1, <4>2, <4>3, ElementWithin
    <3>3. mid < p.events[m] /\ p.events[m] \in Nat
      <4>1. m \in 1..Len(p.events)
        BY <3>1
      <4> QED
        BY <1>2, <4>1, ElementWithin
    <3>4. l[i].events[k] < p.events[m]
      <4>1. \A x, y \in Nat: x <= mid /\ mid < y => x < y
        OBVIOUS
      <4> QED
        BY <3>2, <3>3, <4>1, Zenon
    <3>5. c[i].events[k] = l[i].events[k] /\ c[j].events[m] = p.events[m]
      BY <2>1, <3>1
    <3> QED
      BY <3>4, <3>5
  <2> QED
    BY <1>1, <2>2, <2>3
<1>5. c \in Seq(Parcels) /\ LineWithin(c, lo, hi)
  BY <1>1, <1>3, <1>4 DEF LineWithin
<1> QED
  BY <1>5 DEF c

LEMMA OnePacketWithin ==
    ASSUME NEW p \in Parcels, NEW lo \in Nat, NEW hi \in Nat, Within(p.events, lo, hi)
    PROVE  <<p>> \in Seq(Parcels) /\ LineWithin(<<p>>, lo, hi)
<1> DEFINE l == <<p>>
<1>1. l \in Seq(Parcels) /\ Len(l) = 1 /\ l[1] = p
  OBVIOUS
<1> HIDE DEF l
<1>2. /\ \A i \in 1..Len(l): i = 1 /\ l[i] = p
      /\ \A i, j \in 1..Len(l): ~(i < j)
  BY <1>1
<1>3. LineWithin(l, lo, hi)
  BY <1>2 DEF LineWithin
<1> QED
  BY <1>1, <1>3 DEF l

-----------------------------------------------------------------------------
(* The driver                                                              *)

LEMMA ParcelsOfTheBoard ==
    /\ Address \in Parcels /\ State \in Parcels
    /\ Address.events = <<>> /\ State.events = <<>>
    /\ \A es \in Seq(Nat): Changes(es) \in Parcels /\ Changes(es).events = es
  BY DEF Address, State, Changes, Parcels

\* What a command brings onto the line is newer than what is there.
LEMMA AnswerIsNewer ==
    ASSUME QueuesOfEvents, NEW there \in Seq(Parcels), NEW cmd,
           NEW e \in Nat, NEW f \in Nat, e <= f, f <= happened,
           LineWithin(there, e, f), Within(held, f, happened)
    PROVE  /\ Answered(there, cmd) \in Seq(Parcels) /\ HeldAfter(cmd) \in Seq(Nat)
           /\ \E g \in f..happened:
                  LineWithin(Answered(there, cmd), e, g) /\ Within(HeldAfter(cmd), g, happened)
<1>1. held \in Seq(Nat) /\ happened \in Nat
  BY DEF QueuesOfEvents
<1>2. CASE cmd = "address" /\ awake
  <2>1. Answered(there, cmd) = Append(there, Address) /\ HeldAfter(cmd) = held
    BY <1>2 DEF Answered, HeldAfter
  <2>2. Append(there, Address) \in Seq(Parcels) /\ LineWithin(Append(there, Address), e, f)
    BY ParcelsOfTheBoard, EmptyWithin, LineAppend
  <2> QED
    BY <1>1, <2>1, <2>2
<1>3. CASE cmd = "state" /\ awake /\ addr
  <2>1. Answered(there, cmd) = Append(there, State) /\ HeldAfter(cmd) = held
    BY <1>3 DEF Answered, HeldAfter
  <2>2. Append(there, State) \in Seq(Parcels) /\ LineWithin(Append(there, State), e, f)
    BY ParcelsOfTheBoard, EmptyWithin, LineAppend
  <2> QED
    BY <1>1, <2>1, <2>2
<1>4. CASE cmd = "changes" /\ awake /\ addr /\ held # <<>>
  <2>1. Answered(there, cmd) = Append(there, Changes(held)) /\ HeldAfter(cmd) = <<>>
    BY <1>4 DEF Answered, HeldAfter
  <2>2. /\ Append(there, Changes(held)) \in Seq(Parcels)
        /\ LineWithin(Append(there, Changes(held)), e, happened)
    BY <1>1, ParcelsOfTheBoard, LineAppend
  <2>3. Within(<<>>, happened, happened)
    BY <1>1, EmptyWithin
  <2> QED
    BY <1>1, <2>1, <2>2, <2>3
<1>5. CASE /\ ~(cmd = "address" /\ awake) /\ ~(cmd = "state" /\ awake /\ addr)
           /\ ~(cmd = "changes" /\ awake /\ addr /\ held # <<>>)
  <2>1. Answered(there, cmd) = there
    BY <1>5 DEF Answered
  <2>2. HeldAfter(cmd) = held
    BY <1>5 DEF HeldAfter
  <2> QED
    BY <1>1, <2>1, <2>2
<1> QED
  BY <1>2, <1>3, <1>4, <1>5

\* After a command is sent, whether or not the line has lost what was first on it.
LEMMA SentKeepsWay ==
    ASSUME QueuesOfEvents, NEW lo \in 0..happened, WayBetween(lo), NEW cmd,
           NEW there \in Seq(Parcels),
           there = line \/ (line # <<>> /\ there = Tail(line)),
           line' = Answered(there, cmd), held' = HeldAfter(cmd),
           UNCHANGED <<happened, callbacks>>
    PROVE  WayBetween(lo)' /\ line' \in Seq(Parcels) /\ held' \in Seq(Nat)
<1> PICK e \in 0..happened, f \in 0..happened:
        /\ lo <= e /\ e <= f
        /\ Within(callbacks, lo, e) /\ LineWithin(line, e, f) /\ Within(held, f, happened)
  BY DEF WayBetween
<1>1. line \in Seq(Parcels) /\ happened \in Nat
  BY DEF QueuesOfEvents
<1>2. e \in Nat /\ f \in Nat /\ f <= happened
  BY <1>1
<1>3. LineWithin(there, e, f)
  BY <1>1, <1>2, LineTail
<1>4. PICK g \in f..happened: LineWithin(line', e, g) /\ Within(held', g, happened)
  BY <1>2, <1>3, AnswerIsNewer
<1>5. line' \in Seq(Parcels) /\ held' \in Seq(Nat)
  BY <1>2, <1>3, AnswerIsNewer
<1>6. g \in 0..happened' /\ e <= g
  BY <1>1, <1>2
<1> QED
  BY <1>1, <1>4, <1>5, <1>6 DEF WayBetween

wayVars == <<happened, held, line, callbacks>>

LEMMA LinkKeepsWay ==
    ASSUME QueuesOfEvents, NEW lo \in 0..happened, WayBetween(lo), LinkNext
    PROVE  /\ WayBetween(lo)' /\ lo \in 0..happened'
           /\ happened' \in Nat /\ held' \in Seq(Nat) /\ line' \in Seq(Parcels)
           /\ callbacks' \in Seq(Nat)
<1> DEFINE Kept == /\ WayBetween(lo)' /\ lo \in 0..happened'
                   /\ happened' \in Nat /\ held' \in Seq(Nat) /\ line' \in Seq(Parcels)
                   /\ callbacks' \in Seq(Nat)
<1> SUFFICES Kept
  OBVIOUS
<1>1. /\ line \in Seq(Parcels) /\ held \in Seq(Nat) /\ callbacks \in Seq(Nat)
      /\ happened \in Nat
  BY DEF QueuesOfEvents
<1>2. PICK e \in 0..happened, f \in 0..happened:
        /\ lo <= e /\ e <= f
        /\ Within(callbacks, lo, e) /\ LineWithin(line, e, f) /\ Within(held, f, happened)
  BY DEF WayBetween
<1>3. lo \in Nat /\ e \in Nat /\ f \in Nat /\ f <= happened
  BY <1>1
<1>4. ASSUME UNCHANGED wayVars PROVE Kept
  BY <1>1, <1>4 DEF wayVars, WayBetween
<1>5. ASSUME NEW cmd, line' = Answered(line, cmd), held' = HeldAfter(cmd),
             UNCHANGED <<happened, callbacks>>
      PROVE  Kept
  BY <1>1, <1>5, SentKeepsWay
<1>6. CASE PieceMoves
  <2>1. happened' = happened + 1 /\ held' = Append(held, happened + 1)
    BY <1>6 DEF PieceMoves
  <2>2. held' \in Seq(Nat) /\ Within(held', f, happened')
    BY <1>1, <1>2, <1>3, <2>1, AppendWithin
  <2>3. UNCHANGED <<line, callbacks>>
    BY <1>6 DEF PieceMoves, listenerVars
  <2> QED
    BY <1>1, <1>2, <1>3, <2>1, <2>2, <2>3 DEF WayBetween
<1>7. CASE ReceiveBeforeReady
  <2>1. line # <<>> /\ Discover(Tail(line)) /\ UNCHANGED <<happened, callbacks>>
    BY <1>7 DEF ReceiveBeforeReady, listenerVars
  <2>2. Tail(line) \in Seq(Parcels)
    BY <1>1, <2>1
  <2>3. \E cmd \in {"address", "changes"}:
            line' = Answered(Tail(line), cmd) /\ held' = HeldAfter(cmd)
    BY <2>1 DEF Discover, HeldAfter
  <2> QED
    BY <1>1, <2>1, <2>2, <2>3, SentKeepsWay
<1>8. CASE Receive
  <2>1. /\ line # <<>> /\ line' = Tail(line) /\ UNCHANGED <<happened, held>>
        /\ callbacks' = callbacks \o Head(line).events \/ callbacks' = callbacks
    BY <1>8 DEF Receive, boardVars
  <2>2. /\ Tail(line) \in Seq(Parcels) /\ LineWithin(Tail(line), e, f)
        /\ Head(line).events \in Seq(Nat)
    BY <1>1, <1>2, <1>3, <2>1, LineTail
  <2>3. PICK m \in e..f: Within(Head(line).events, e, m) /\ LineWithin(Tail(line), m, f)
    BY <1>1, <1>2, <1>3, <2>1, LineTail
  <2>4. m \in Nat /\ m \in 0..happened /\ e <= m /\ m <= f
    BY <1>1, <1>3, <2>3
  <2>5. CASE callbacks' = callbacks
    BY <1>1, <1>2, <2>1, <2>2, <2>5 DEF WayBetween
  <2>6. CASE callbacks' = callbacks \o Head(line).events
    <3>1. callbacks' \in Seq(Nat) /\ Within(callbacks', lo, m)
      BY <1>1, <1>2, <1>3, <2>2, <2>3, <2>4, <2>6, ConcatWithin
    <3>2. lo <= m
      BY <1>2, <1>3, <2>4
    <3> QED
      BY <1>1, <1>2, <2>1, <2>2, <2>3, <2>4, <3>1, <3>2 DEF WayBetween
  <2> QED
    BY <2>1, <2>5, <2>6
<1>9. CASE \E garbled \in BOOLEAN: Lose(garbled)
  <2>1. line # <<>> /\ line' = Tail(line) /\ UNCHANGED <<happened, held, callbacks>>
    BY <1>9 DEF Lose, boardVars, listenerVars
  <2>2. Tail(line) \in Seq(Parcels) /\ LineWithin(Tail(line), e, f)
    BY <1>1, <1>2, <1>3, <2>1, LineTail
  <2> QED
    BY <1>1, <1>2, <2>1, <2>2 DEF WayBetween
<1>10. CASE RetryProbe
  <2>1. UNCHANGED <<happened, held, callbacks>>
    BY <1>10 DEF RetryProbe, boardVars, listenerVars
  <2>2. CASE ready
    BY <1>4, <1>10, <2>1, <2>2 DEF RetryProbe, wayVars
  <2>3. CASE ~ready
    <3>1. line' = Answered(line, "address") /\ held' = HeldAfter("address")
      BY <1>10, <2>1, <2>3 DEF RetryProbe, HeldAfter
    <3> QED
      BY <1>5, <2>1, <3>1
  <2> QED
    BY <2>2, <2>3
<1>11. CASE Execute
  <2>1. /\ line' = Answered(line, Head(mainQ)) /\ held' = HeldAfter(Head(mainQ))
        /\ UNCHANGED <<happened, callbacks>>
    BY <1>11 DEF Execute, listenerVars
  <2> QED
    BY <1>5, <2>1
<1>12. CASE ExecuteLow
  <2>1. /\ line' = Answered(line, "state") /\ held' = HeldAfter("state")
        /\ UNCHANGED <<happened, callbacks>>
    BY <1>12 DEF ExecuteLow, boardVars, listenerVars, HeldAfter
  <2> QED
    BY <1>5, <2>1
<1>13. CASE \/ Wake \/ Listen \/ RetryLook \/ Timeout
            \/ \E c \in Polls: PollSkip(c) \/ PollPut(c) \/ PollNote(c)
            \/ \E low \in BOOLEAN: Ask(low)
  <2>1. UNCHANGED wayVars
    BY <1>13 DEF Wake, Listen, RetryLook, Timeout, PollSkip, PollPut, PollNote, Ask, wayVars,
                 boardVars, listenerVars
  <2> QED
    BY <1>4, <2>1
<1> QED
  BY <1>6, <1>7, <1>8, <1>9, <1>10, <1>11, <1>12, <1>13
  DEF LinkNext, TimelyReceive, TimelyRetry, TimelyExecute, TimelyTimeout

-----------------------------------------------------------------------------
(* Queues that hold no event twice                                         *)

LEMMA EmptyOnce ==
    /\ \A hi: Once(<<>>, hi)
    /\ \A s: Apart(<<>>, s) /\ Apart(s, <<>>)
  BY DEF Once, Apart

LEMMA ApartBothWays ==
    ASSUME NEW s, NEW t, Apart(s, t)
    PROVE  Apart(t, s)
  BY DEF Apart

\* A newer event x at the end of s.
LEMMA NewerOnce ==
    ASSUME NEW s \in Seq(Nat), NEW c \in Nat, NEW x \in Nat, Once(s, c), c < x
    PROVE  Append(s, x) \in Seq(Nat) /\ Once(s, x) /\ Once(Append(s, x), x)
<1> DEFINE a == Append(s, x)
<1>1. /\ a \in Seq(Nat) /\ Len(s) \in Nat /\ Len(a) = Len(s) + 1
      /\ \A i \in 1..Len(s): a[i] = s[i] /\ s[i] \in Nat
      /\ a[Len(s) + 1] = x
  OBVIOUS
<1> HIDE DEF a
<1>2. \A i \in 1..Len(s): s[i] < x
  BY <1>1 DEF Once
<1>3. \A i \in 1..Len(a): i \in 1..Len(s) \/ i = Len(s) + 1
  BY <1>1
<1>4. \A i \in 1..Len(a): a[i] <= x
  BY <1>1, <1>2, <1>3
<1>5. ASSUME NEW i \in 1..Len(a), NEW j \in 1..Len(a), a[i] = a[j] PROVE i = j
  <2>1. CASE i \in 1..Len(s) /\ j \in 1..Len(s)
    BY <1>1, <1>5, <2>1 DEF Once
  <2>2. \A k \in 1..Len(s): a[k] # a[Len(s) + 1]
    <3> SUFFICES ASSUME NEW k \in 1..Len(s) PROVE a[k] # x
      BY <1>1
    <3>1. a[k] = s[k] /\ s[k] \in Nat /\ s[k] < x
      BY <1>1, <1>2
    <3> QED
      BY <3>1
  <2>3. CASE i = Len(s) + 1 \/ j = Len(s) + 1
    BY <1>3, <1>5, <2>2, <2>3
  <2> QED
    BY <1>3, <2>1, <2>3
<1>6. Once(s, x)
  BY <1>1, <1>2 DEF Once
<1>7. Once(a, x)
  BY <1>4, <1>5 DEF Once
<1> QED
  BY <1>1, <1>6, <1>7 DEF a

LEMMA NewerApart ==
    ASSUME NEW s \in Seq(Nat), NEW t \in Seq(Nat), NEW c \in Nat, NEW x \in Nat,
           Once(t, c), Apart(s, t), c < x
    PROVE  Apart(Append(s, x), t) /\ Apart(t, Append(s, x))
<1> DEFINE a == Append(s, x)
<1>1. /\ Len(s) \in Nat /\ Len(a) = Len(s) + 1
      /\ \A i \in 1..Len(s): a[i] = s[i]
      /\ a[Len(s) + 1] = x
  OBVIOUS
<1>2. \A j \in 1..Len(t): t[j] \in Nat /\ t[j] < x
  BY DEF Once
<1> HIDE DEF a
<1>3. \A i \in 1..Len(a): i \in 1..Len(s) \/ i = Len(s) + 1
  BY <1>1
<1>4. Apart(a, t)
  <2> SUFFICES ASSUME NEW i \in 1..Len(a), NEW j \in 1..Len(t) PROVE a[i] # t[j]
    BY DEF Apart
  <2>1. t[j] \in Nat /\ t[j] < x
    BY <1>2
  <2>2. CASE i \in 1..Len(s)
    BY <1>1, <2>2 DEF Apart
  <2>3. CASE i = Len(s) + 1
    BY <1>1, <2>1, <2>3
  <2> QED
    BY <1>3, <2>2, <2>3
<1> QED
  BY <1>4, ApartBothWays DEF a

\* The first event of s moved to the end of t.
LEMMA MovedOnce ==
    ASSUME NEW s \in Seq(Nat), NEW t \in Seq(Nat), NEW c \in Nat,
           Once(s, c), Once(t, c), Apart(s, t), s # <<>>
    PROVE  /\ Tail(s) \in Seq(Nat) /\ Append(t, Head(s)) \in Seq(Nat)
           /\ Once(Tail(s), c) /\ Once(Append(t, Head(s)), c)
           /\ Apart(Tail(s), Append(t, Head(s))) /\ Apart(Append(t, Head(s)), Tail(s))
           /\ \A u: Apart(s, u) \/ Apart(u, s) => Apart(Tail(s), u) /\ Apart(u, Tail(s))
           /\ \A u: (Apart(s, u) \/ Apart(u, s)) /\ (Apart(t, u) \/ Apart(u, t)) =>
                  Apart(Append(t, Head(s)), u) /\ Apart(u, Append(t, Head(s)))
<1> DEFINE r == Tail(s)
           a == Append(t, Head(s))
<1>1. /\ r \in Seq(Nat) /\ Len(s) \in Nat /\ Len(r) = Len(s) - 1 /\ Head(s) = s[1]
      /\ 1 \in 1..Len(s) /\ s[1] \in Nat
      /\ \A i \in 1..Len(r): r[i] = s[i + 1] /\ i + 1 \in 1..Len(s)
  OBVIOUS
<1>2. /\ a \in Seq(Nat) /\ Len(t) \in Nat /\ Len(a) = Len(t) + 1
      /\ \A i \in 1..Len(t): a[i] = t[i]
      /\ a[Len(t) + 1] = s[1]
  BY <1>1
<1> HIDE DEF r, a
<1>3. \A i \in 1..Len(a): i \in 1..Len(t) \/ i = Len(t) + 1
  BY <1>2
<1>4. Once(r, c)
  <2>1. \A i \in 1..Len(r): r[i] <= c
    BY <1>1 DEF Once
  <2>2. ASSUME NEW i \in 1..Len(r), NEW j \in 1..Len(r), r[i] = r[j] PROVE i = j
    <3>1. i + 1 = j + 1
      BY <1>1, <2>2 DEF Once
    <3> QED
      BY <1>1, <3>1
  <2> QED
    BY <2>1, <2>2 DEF Once
<1>5. Once(a, c)
  <2>1. \A i \in 1..Len(a): a[i] <= c
    BY <1>1, <1>2, <1>3 DEF Once
  <2>2. ASSUME NEW i \in 1..Len(a), NEW j \in 1..Len(a), a[i] = a[j] PROVE i = j
    <3>1. CASE i \in 1..Len(t) /\ j \in 1..Len(t)
      BY <1>2, <2>2, <3>1 DEF Once
    <3>2. \A k \in 1..Len(t): a[k] # s[1]
      BY <1>1, <1>2 DEF Apart
    <3> QED
      BY <1>2, <1>3, <2>2, <3>1, <3>2
  <2> QED
    BY <2>1, <2>2 DEF Once
<1>6. Apart(r, a)
  <2> SUFFICES ASSUME NEW i \in 1..Len(r), NEW j \in 1..Len(a) PROVE r[i] # a[j]
    BY DEF Apart
  <2>1. r[i] = s[i + 1] /\ i + 1 \in 1..Len(s) /\ i + 1 # 1
    BY <1>1
  <2>2. CASE j \in 1..Len(t)
    BY <1>2, <2>1, <2>2 DEF Apart
  <2>3. CASE j = Len(t) + 1
    BY <1>1, <1>2, <2>1, <2>3 DEF Once
  <2> QED
    BY <1>3, <2>2, <2>3
<1>7. \A u: Apart(s, u) => Apart(r, u)
  BY <1>1 DEF Apart
<1>8. \A u: Apart(s, u) /\ Apart(t, u) => Apart(a, u)
  <2> SUFFICES ASSUME NEW u, Apart(s, u), Apart(t, u),
                      NEW i \in 1..Len(a), NEW j \in 1..Len(u)
               PROVE  a[i] # u[j]
    BY Zenon DEF Apart
  <2>1. CASE i \in 1..Len(t)
    BY <1>2, <2>1, Zenon DEF Apart
  <2>2. CASE i = Len(t) + 1
    <3>1. a[i] = s[1]
      BY <1>2, <2>2
    <3>2. s[1] # u[j]
      BY <1>1, Zenon DEF Apart
    <3> QED
      BY <3>1, <3>2
  <2> QED
    BY <1>3, <2>1, <2>2
<1>9. \A u, v: Apart(u, v) => Apart(v, u)
  BY DEF Apart
<1>10. \A u: Apart(s, u) \/ Apart(u, s) => Apart(r, u) /\ Apart(u, r)
  BY <1>7, <1>9
<1>11. \A u: (Apart(s, u) \/ Apart(u, s)) /\ (Apart(t, u) \/ Apart(u, t)) =>
            Apart(a, u) /\ Apart(u, a)
  BY <1>8, <1>9
<1>12. Apart(a, r)
  BY <1>6, <1>9
<1> QED
  BY <1>1, <1>2, <1>4, <1>5, <1>6, <1>10, <1>11, <1>12 DEF r, a

-----------------------------------------------------------------------------
(* The steps                                                               *)

appQueues == <<taken, batch, gmPending, pieces>>

\* What a step of the application must keep.
AppKept(c) ==
    /\ taken \in Seq(Nat) /\ batch \in Seq(Nat) /\ gmPending \in Seq(Nat)
    /\ pieces \in Seq(Nat)
    /\ AppOnce(c)

\* An event newer than all the application has is given to it, or queued.
LEMMA NewerKept ==
    ASSUME QueuesOfEvents, NEW c \in Nat, AppOnce(c), NEW x \in Nat, c < x,
           batch' = batch,
           \/ taken' = Append(taken, x) /\ UNCHANGED <<gmPending, pieces>>
           \/ gmPending' = Append(gmPending, x) /\ UNCHANGED <<taken, pieces>>
           \/ pieces' = Append(pieces, x) /\ UNCHANGED <<taken, gmPending>>
           \/ UNCHANGED <<taken, gmPending, pieces>>
    PROVE  AppKept(x)'
<1> USE DEF AppOnce, OnceInAll
<1>1. /\ taken \in Seq(Nat) /\ batch \in Seq(Nat) /\ gmPending \in Seq(Nat)
      /\ pieces \in Seq(Nat)
  BY DEF QueuesOfEvents
<1>2. Once(taken, x) /\ Once(batch, x) /\ Once(gmPending, x) /\ Once(pieces, x)
  BY <1>1, NewerOnce
<1>3. CASE taken' = Append(taken, x) /\ UNCHANGED <<gmPending, pieces>>
  <2>1. taken' \in Seq(Nat) /\ Once(taken', x)
    BY <1>1, <1>3, NewerOnce
  <2>2. Apart(taken', batch) /\ Apart(taken', gmPending) /\ Apart(taken', pieces)
    BY <1>1, <1>3, NewerApart
  <2> QED
    BY <1>1, <1>2, <1>3, <2>1, <2>2 DEF AppKept
<1>4. CASE gmPending' = Append(gmPending, x) /\ UNCHANGED <<taken, pieces>>
  <2>1. gmPending' \in Seq(Nat) /\ Once(gmPending', x)
    BY <1>1, <1>4, NewerOnce
  <2>2. Apart(taken, gmPending') /\ Apart(batch, gmPending') /\ Apart(gmPending', pieces)
    BY <1>1, <1>4, NewerApart, ApartBothWays
  <2> QED
    BY <1>1, <1>2, <1>4, <2>1, <2>2 DEF AppKept
<1>5. CASE pieces' = Append(pieces, x) /\ UNCHANGED <<taken, gmPending>>
  <2>1. pieces' \in Seq(Nat) /\ Once(pieces', x)
    BY <1>1, <1>5, NewerOnce
  <2>2. Apart(taken, pieces') /\ Apart(batch, pieces') /\ Apart(gmPending, pieces')
    BY <1>1, <1>5, NewerApart, ApartBothWays
  <2> QED
    BY <1>1, <1>2, <1>5, <2>1, <2>2 DEF AppKept
<1>6. CASE UNCHANGED <<taken, gmPending, pieces>>
  BY <1>1, <1>2, <1>6 DEF AppKept
<1> QED
  BY <1>3, <1>4, <1>5, <1>6

\* The menu's queue is drained by one.
LEMMA DrainKept ==
    ASSUME QueuesOfEvents, NEW c \in Nat, AppOnce(c), Drain
    PROVE  AppKept(c)'
<1> USE DEF AppOnce, OnceInAll
<1>1. /\ taken \in Seq(Nat) /\ batch \in Seq(Nat) /\ gmPending \in Seq(Nat)
      /\ pieces \in Seq(Nat)
  BY DEF QueuesOfEvents
<1>2. batch' = batch
  BY DEF Drain
<1>3. CASE pieces = <<>>
  BY <1>1, <1>2, <1>3 DEF Drain, AppKept
<1>4. CASE pieces # <<>>
  <2>1. Give(Head(pieces)) /\ pieces' = Tail(pieces)
    BY <1>4 DEF Drain, Popped
  <2>2. CASE taken' = Append(taken, Head(pieces)) /\ UNCHANGED gmPending
    <3>1. Apart(pieces, taken)
      BY ApartBothWays
    <3>2. /\ pieces' \in Seq(Nat) /\ taken' \in Seq(Nat)
          /\ Once(pieces', c) /\ Once(taken', c) /\ Apart(taken', pieces')
      BY <1>1, <1>4, <2>1, <2>2, <3>1, MovedOnce
    <3>3. /\ Apart(batch, pieces') /\ Apart(gmPending, pieces')
          /\ Apart(taken', batch) /\ Apart(taken', gmPending)
      BY <1>1, <1>4, <2>1, <2>2, <3>1, MovedOnce
    <3> QED
      BY <1>1, <1>2, <2>2, <3>2, <3>3 DEF AppKept
  <2>3. CASE gmPending' = Append(gmPending, Head(pieces)) /\ UNCHANGED taken
    <3>1. Apart(pieces, gmPending)
      BY ApartBothWays
    <3>2. /\ pieces' \in Seq(Nat) /\ gmPending' \in Seq(Nat)
          /\ Once(pieces', c) /\ Once(gmPending', c) /\ Apart(gmPending', pieces')
      BY <1>1, <1>4, <2>1, <2>3, <3>1, MovedOnce
    <3>3. /\ Apart(batch, pieces') /\ Apart(taken, pieces')
          /\ Apart(taken, gmPending') /\ Apart(batch, gmPending')
      BY <1>1, <1>4, <2>1, <2>3, <3>1, MovedOnce
    <3> QED
      BY <1>1, <1>2, <2>3, <3>2, <3>3 DEF AppKept
  <2> QED
    BY <2>1, <2>2, <2>3 DEF Give
<1> QED
  BY <1>3, <1>4

\* The game thread takes over what was kept, and replays it.
LEMMA GameThreadKept ==
    ASSUME QueuesOfEvents, NEW c \in Nat, AppOnce(c), GameThreadReady \/ GameThreadReplay
    PROVE  AppKept(c)'
<1> USE DEF AppOnce, OnceInAll
<1>1. /\ taken \in Seq(Nat) /\ batch \in Seq(Nat) /\ gmPending \in Seq(Nat)
      /\ pieces \in Seq(Nat) /\ <<>> \in Seq(Nat)
  BY DEF QueuesOfEvents
<1>2. CASE GameThreadReady
  <2>1. batch' = gmPending /\ gmPending' = <<>> /\ UNCHANGED <<taken, pieces>>
    BY <1>2 DEF GameThreadReady, appVars
  <2> QED
    BY <1>1, <2>1, EmptyOnce DEF AppKept
<1>3. CASE GameThreadReplay
  <2>1. /\ batch # <<>> /\ taken' = Append(taken, Head(batch)) /\ batch' = Tail(batch)
        /\ UNCHANGED <<gmPending, pieces>>
    BY <1>3 DEF GameThreadReplay, appVars
  <2>2. Apart(batch, taken)
    BY ApartBothWays
  <2>3. /\ batch' \in Seq(Nat) /\ taken' \in Seq(Nat)
        /\ Once(batch', c) /\ Once(taken', c) /\ Apart(taken', batch')
    BY <1>1, <2>1, <2>2, MovedOnce
  <2>4. /\ Apart(batch', gmPending) /\ Apart(batch', pieces)
        /\ Apart(taken', gmPending) /\ Apart(taken', pieces)
    BY <1>1, <2>1, <2>2, MovedOnce
  <2> QED
    BY <1>1, <2>1, <2>3, <2>4 DEF AppKept
<1> QED
  BY <1>2, <1>3

\* _cleanup_game loses what is queued and kept.
LEMMA CleanedKept ==
    ASSUME QueuesOfEvents, NEW c \in Nat, AppOnce(c), NEW queued, Cleaned(queued),
           taken' = taken
    PROVE  AppKept(c)'
<1>1. pieces' = <<>> /\ gmPending' = <<>> /\ batch' = batch
  BY DEF Cleaned
<1>2. taken \in Seq(Nat) /\ batch \in Seq(Nat) /\ <<>> \in Seq(Nat)
  BY DEF QueuesOfEvents
<1> QED
  BY <1>1, <1>2, EmptyOnce DEF AppKept, AppOnce, OnceInAll

LEMMA NothingMoved ==
    ASSUME QueuesOfEvents, NEW c \in Nat, AppOnce(c), UNCHANGED appQueues
    PROVE  AppKept(c)'
  BY DEF QueuesOfEvents, AppKept, AppOnce, appQueues

LEMMA EnterGameKept ==
    ASSUME QueuesOfEvents, NEW c \in Nat, AppOnce(c), NEW anew \in BOOLEAN, EnterGame(anew)
    PROVE  AppKept(c)' /\ UNCHANGED wayVars
<1>1. UNCHANGED wayVars
  BY DEF EnterGame, boardVars, wayVars
<1>2. CASE handler /\ anew
  BY <1>1, <1>2, CleanedKept DEF EnterGame
<1>3. CASE ~(handler /\ anew)
  BY <1>1, <1>3, NothingMoved DEF EnterGame, gameVars, appQueues
<1> QED
  BY <1>2, <1>3

\* A callback: its event waits for the game, is given to it, or is dropped.
LEMMA CallbackKept ==
    ASSUME IInv, CallbackOnMenu \/ CallbackInGame
    PROVE  IInv'
<1>1. PICK c \in 0..happened: AppOnce(c) /\ WayBetween(c)
  BY DEF IInv
<1>2. PICK e \in 0..happened, f \in 0..happened:
        /\ c <= e /\ e <= f
        /\ Within(callbacks, c, e) /\ LineWithin(line, e, f) /\ Within(held, f, happened)
  BY <1>1 DEF WayBetween
<1>3. QueuesOfEvents /\ callbacks \in Seq(Nat) /\ happened \in Nat /\ c \in Nat /\ e \in Nat
  BY DEF IInv, QueuesOfEvents
<1>head. PICK x: x = Head(callbacks)
  OBVIOUS
<1>4. /\ callbacks # <<>> /\ callbacks' = Tail(callbacks)
      /\ UNCHANGED <<happened, held, line, batch>>
  BY DEF CallbackOnMenu, CallbackInGame, gameVars, boardVars
<1>5. /\ x \in Nat /\ c < x /\ x <= e
      /\ callbacks' \in Seq(Nat) /\ Within(callbacks', x, e)
  BY <1>head, <1>2, <1>3, <1>4, HeadWithin
<1>6. x \in 0..happened
  BY <1>2, <1>3, <1>5
<1>7. \/ taken' = Append(taken, x) /\ UNCHANGED <<gmPending, pieces>>
      \/ gmPending' = Append(gmPending, x) /\ UNCHANGED <<taken, pieces>>
      \/ pieces' = Append(pieces, x) /\ UNCHANGED <<taken, gmPending>>
      \/ UNCHANGED <<taken, gmPending, pieces>>
  BY <1>head DEF CallbackOnMenu, CallbackInGame, Give, gameVars
<1>8. AppKept(x)'
  BY <1>1, <1>3, <1>4, <1>5, <1>7, NewerKept
<1>9. WayBetween(x)'
  BY <1>2, <1>3, <1>4, <1>5, <1>6 DEF WayBetween
<1> QED
  BY <1>3, <1>4, <1>5, <1>6, <1>8, <1>9 DEF IInv, QueuesOfEvents, AppKept

LEMMA StepKept ==
    ASSUME IInv, [Next]_vars
    PROVE  IInv'
<1> USE DEF linkVars, boardVars, listenerVars, appVars, gameVars
<1>1. PICK c \in 0..happened: AppOnce(c) /\ WayBetween(c)
  BY DEF IInv
<1>2. QueuesOfEvents /\ c \in Nat
  BY <1>1 DEF IInv, QueuesOfEvents
<1>3. ASSUME UNCHANGED wayVars, AppKept(c)' PROVE IInv'
  BY <1>1, <1>2, <1>3 DEF IInv, QueuesOfEvents, AppKept, WayBetween, wayVars
<1>4. CASE LinkNext /\ UNCHANGED <<appVars, gameVars>>
  <2>1. AppKept(c)'
    BY <1>1, <1>2, <1>4, NothingMoved DEF appQueues
  <2>2. /\ WayBetween(c)' /\ c \in 0..happened'
        /\ happened' \in Nat /\ held' \in Seq(Nat) /\ line' \in Seq(Parcels)
        /\ callbacks' \in Seq(Nat)
    BY <1>1, <1>2, <1>4, LinkKeepsWay
  <2> QED
    BY <2>1, <2>2 DEF IInv, QueuesOfEvents, AppKept
<1>5. CASE CallbackOnMenu \/ CallbackInGame
  BY <1>5, CallbackKept
<1>6. CASE GameThreadReady \/ GameThreadReplay
  <2>1. UNCHANGED wayVars
    BY <1>6 DEF GameThreadReady, GameThreadReplay, wayVars
  <2> QED
    BY <1>1, <1>2, <1>3, <1>6, <2>1, GameThreadKept
<1>7. CASE \E anew \in BOOLEAN: EnterWithPieces(anew)
  BY <1>1, <1>2, <1>3, <1>7, EnterGameKept DEF EnterWithPieces
<1>8. CASE \E anew \in BOOLEAN: MenuLeft(anew)
  <2>1. CASE selection = "BACK"
    BY <1>1, <1>2, <1>3, <1>8, <2>1, NothingMoved DEF MenuLeft, appQueues, wayVars
  <2>2. CASE selection # "BACK"
    BY <1>1, <1>2, <1>3, <1>8, <2>2, EnterGameKept DEF MenuLeft
  <2> QED
    BY <2>1, <2>2
<1>9. CASE \/ ShowMenu \/ MenuSelected \/ MakeHandler \/ ActivateLocal \/ Suspend
           \/ \E key \in {"PLAY", "BACK"}: Press(key)
  <2>1. UNCHANGED wayVars /\ UNCHANGED appQueues
    BY <1>9 DEF ShowMenu, MenuSelected, MakeHandler, ActivateLocal, Suspend, Press,
                wayVars, appQueues
  <2> QED
    BY <1>1, <1>2, <1>3, <2>1, NothingMoved
<1>10. CASE Drain
  <2>1. UNCHANGED wayVars
    BY <1>10 DEF Drain, wayVars
  <2> QED
    BY <1>1, <1>2, <1>3, <1>10, <2>1, DrainKept
<1>11. CASE ReturnToMenu
  <2>1. UNCHANGED wayVars /\ Cleaned(pieces) /\ taken' = taken
    BY <1>11 DEF ReturnToMenu, wayVars
  <2> QED
    BY <1>1, <1>2, <1>3, <2>1, CleanedKept
<1>12. CASE UNCHANGED vars
  BY <1>1, <1>2, <1>3, <1>12, NothingMoved DEF vars, wayVars, appQueues
<1> QED
  BY <1>4, <1>5, <1>6, <1>7, <1>8, <1>9, <1>10, <1>11, <1>12 DEF Next, AppNext

-----------------------------------------------------------------------------
(* The theorem                                                             *)

LEMMA InitOnce == Init => IInv
<1> SUFFICES ASSUME Init PROVE IInv
  OBVIOUS
<1> USE DEF Init, LinkInit
<1>1. <<>> \in Seq(Nat) /\ <<>> \in Seq(Parcels)
  OBVIOUS
<1>2. line \in Seq(Parcels) /\ LineWithin(line, 0, 0)
  <2>1. LineWithin(<<>>, 0, 0)
    BY DEF LineWithin
  <2>2. <<Address>> \in Seq(Parcels) /\ LineWithin(<<Address>>, 0, 0)
    BY <1>1, ParcelsOfTheBoard, EmptyWithin, OnePacketWithin
  <2> QED
    BY <1>1, <2>1, <2>2
<1>3. QueuesOfEvents
  BY <1>1, <1>2 DEF QueuesOfEvents
<1>4. Within(<<>>, 0, 0)
  BY EmptyWithin
<1>5. AppOnce(0) /\ WayBetween(0)
  BY <1>2, <1>4, EmptyOnce DEF AppOnce, OnceInAll, WayBetween
<1> QED
  BY <1>3, <1>5 DEF IInv

\* What was processed lies before the callbacks, and is in no queue of the application.
LEMMA ProcessedIsGone == IInv => EventsOnce
<1> SUFFICES ASSUME IInv, NEW i \in DOMAIN taken
    PROVE  /\ ~Waiting(taken[i])
           /\ \A j \in DOMAIN taken: taken[i] = taken[j] => i = j
  BY DEF EventsOnce
<1>1. PICK c \in 0..happened: AppOnce(c) /\ WayBetween(c)
  BY DEF IInv
<1>2. PICK e \in 0..happened, f \in 0..happened:
        /\ c <= e /\ e <= f
        /\ Within(callbacks, c, e) /\ LineWithin(line, e, f) /\ Within(held, f, happened)
  BY <1>1 DEF WayBetween
<1>3. /\ taken \in Seq(Nat) /\ callbacks \in Seq(Nat) /\ held \in Seq(Nat)
      /\ line \in Seq(Parcels) /\ happened \in Nat
  BY DEF IInv, QueuesOfEvents
<1>4. /\ DOMAIN taken = 1..Len(taken) /\ DOMAIN line = 1..Len(line)
      /\ i \in 1..Len(taken) /\ taken[i] \in Nat /\ taken[i] <= c
  BY <1>1, <1>3 DEF AppOnce, OnceInAll, Once
<1>5. \A j \in DOMAIN taken: taken[i] = taken[j] => i = j
  BY <1>1, <1>4 DEF AppOnce, OnceInAll, Once
<1>6. ASSUME NEW s \in {gmPending, pieces, batch} PROVE ~Contains(s, taken[i])
  BY <1>1, <1>4 DEF AppOnce, OnceInAll, Apart, Contains
<1>7. ASSUME NEW s \in Seq(Nat), NEW lo \in Nat, NEW hi \in Nat, Within(s, lo, hi), c <= lo
      PROVE  ~Contains(s, taken[i])
  <2>1. \A k \in 1..Len(s): s[k] \in Nat /\ taken[i] < s[k]
    BY <1>4, <1>7 DEF Within
  <2> QED
    BY <1>4, <2>1 DEF Contains
<1>8. ~Contains(callbacks, taken[i]) /\ ~Contains(held, taken[i])
  BY <1>2, <1>3, <1>7
<1>9. ASSUME NEW k \in 1..Len(line) PROVE ~Contains(line[k].events, taken[i])
  <2>1. line[k] \in Parcels
    BY <1>3
  <2>3. line[k].events \in Seq(Nat)
    BY <2>1 DEF Parcels
  <2>2. Within(line[k].events, e, f)
    BY <1>2 DEF LineWithin
  <2> QED
    BY <1>2, <1>3, <1>7, <2>2, <2>3
<1> QED
  BY <1>4, <1>5, <1>6, <1>8, <1>9 DEF Waiting

\* What the game has processed it never processes again, whichever thread handed it
\* over: for any number of events, requests and losses, under all Conditions
\* (sync_centaur.py, pending_work.py, game_manager.py: receive_field, _game_thread).
THEOREM EventsAreProcessedOnce == Spec => []EventsOnce
<1>1. Init => IInv
  BY InitOnce
<1>2. IInv /\ [Next]_vars => IInv'
  BY StepKept
<1>3. IInv => EventsOnce
  BY ProcessedIsGone
<1> QED
  BY <1>1, <1>2, <1>3, PTL DEF Spec
=============================================================================
