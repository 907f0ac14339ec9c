----------------------- MODULE RefreshScheduler_proofs -----------------------
(***************************************************************************)
(* The types of the refresh scheduler; that the panel never goes back to   *)
(* older content, so that the scheduler implements the safety of           *)
(* PanelMirror; and what a refresh may rely on: that no partial follows an *)
(* aborted refresh, that a partial finds its red on the glass, that the    *)
(* panel is awake and that a full refresh asked for is not overtaken.      *)
(***************************************************************************)
EXTENDS RefreshScheduler, TLAPS

LEMMA ContentsAreNat == Contents \subseteq Nat
  BY MaxContentAssumption DEF Contents

LEMMA NoFrameIsFrame == NoFrame \in Frames
  BY MaxContentAssumption, RedsAssumption DEF NoFrame, Frames, Contents

\* A frame is made of its fields.
LEMMA FrameFields ==
  ASSUME NEW n \in Contents, NEW red \in Reds, NEW full \in BOOLEAN, NEW clock \in BOOLEAN
  PROVE  [n |-> n, red |-> red, full |-> full, clock |-> clock] \in Frames
  BY DEF Frames

LEMMA FieldsOfFrame ==
  ASSUME NEW f \in Frames
  PROVE  f.n \in Contents /\ f.red \in Reds /\ f.full \in BOOLEAN /\ f.clock \in BOOLEAN
  BY DEF Frames

\* The end of a non-empty sequence, element by element.
LEMMA TailElements ==
  ASSUME NEW S, NEW q \in Seq(S), q # <<>>
  PROVE  /\ Head(q) \in S /\ Head(q) = q[1] /\ Len(q) \in Nat \ {0}
         /\ Tail(q) \in Seq(S) /\ Len(Tail(q)) = Len(q) - 1
         /\ \A i \in 1..Len(Tail(q)): Tail(q)[i] = q[i + 1]
  OBVIOUS

\* A queue that takes a frame loses its oldest one when it is full.
LEMMA EnqueueElements ==
  ASSUME NEW q \in Seq(Frames), Len(q) <= QueueMax, NEW f \in Frames
  PROVE  /\ Enqueue(q, f) \in Seq(Frames) /\ Len(Enqueue(q, f)) <= QueueMax
         /\ Enqueue(q, f)[Len(Enqueue(q, f))] = f
         /\ \/ Len(Enqueue(q, f)) = Len(q) + 1
               /\ \A i \in 1..Len(q): Enqueue(q, f)[i] = q[i]
            \/ Len(Enqueue(q, f)) = Len(q)
               /\ \A i \in 1..(Len(q) - 1): Enqueue(q, f)[i] = q[i + 1]
  <1>1. CASE Len(q) >= QueueMax
    <2>1. q # <<>> /\ QueueMax \in Nat  BY <1>1, QueueMaxAssumption
    <2>2. Enqueue(q, f) = Append(Tail(q), f)  BY <1>1 DEF Enqueue
    <2> QED  BY <1>1, <2>1, <2>2, TailElements, QueueMaxAssumption
  <1>2. CASE ~(Len(q) >= QueueMax)
    <2>1. Enqueue(q, f) = Append(q, f)  BY <1>2 DEF Enqueue
    <2> QED  BY <1>2, <2>1, QueueMaxAssumption
  <1> QED  BY <1>1, <1>2

\* What a batch becomes when it is coalesced.
LEMMA CoalescedElements ==
  ASSUME NEW b \in Seq(Frames), b # <<>>
  PROVE  /\ Coalesced(b) \in Seq(Frames) /\ Len(Coalesced(b)) = 1
         /\ Coalesced(b)[1].n = b[Len(b)].n
  <1> DEFINE l == b[Len(b)]
             g == [l EXCEPT !.full = AnyFull(b)]
  <1>1. l \in Frames  OBVIOUS
  <1>2. AnyFull(b) \in BOOLEAN  BY DEF AnyFull
  <1>3. g \in Frames /\ g.n = l.n  BY <1>1, <1>2 DEF Frames
  <1>4. Coalesced(b) = <<g>>  BY DEF Coalesced
  <1> HIDE DEF g
  <1> QED  BY <1>3, <1>4

-----------------------------------------------------------------------------
\* The numbers of the frames of a queue: between two bounds, nondecreasing, and
\* not above those of another queue.
Within(q, lo, hi) == \A i \in 1..Len(q): lo <= q[i].n /\ q[i].n <= hi
Sorted(q) == \A i, j \in 1..Len(q): i <= j => q[i].n <= q[j].n
Below(b, q) == \A i \in 1..Len(b), j \in 1..Len(q): b[i].n <= q[j].n

\* The inductive invariant: what is on the glass, the batch, the queue and the
\* last submission are in this order, and renders are submitted one by one.
InOrder ==
    /\ glass.n <= submitted
    /\ Within(batch, glass.n, submitted) /\ Within(queue, glass.n, submitted)
    /\ Sorted(batch) /\ Sorted(queue) /\ Below(batch, queue)
    /\ IF Rendering
       THEN inflight.n = content.n /\ submitted <= content.n /\ content.n <= submitted + 1
       ELSE content.n = submitted
    /\ pc \in {"route", "start", "draw", "busy"} => batch # <<>>

LEMMA NumbersOf ==
  ASSUME NEW q \in Seq(Frames), NEW i \in 1..Len(q)
  PROVE  q[i] \in Frames /\ q[i].n \in Nat
  <1>1. q[i] \in Frames  OBVIOUS
  <1> QED  BY <1>1, FieldsOfFrame, ContentsAreNat

LEMMA TailOrder ==
  ASSUME NEW b \in Seq(Frames), b # <<>>, NEW q \in Seq(Frames), NEW lo \in Nat, NEW hi \in Nat,
         Within(b, lo, hi), Sorted(b), Below(b, q)
  PROVE  /\ Tail(b) \in Seq(Frames) /\ Len(Tail(b)) = Len(b) - 1
         /\ Within(Tail(b), lo, hi) /\ Sorted(Tail(b)) /\ Below(Tail(b), q)
         /\ Within(Tail(b), Head(b).n, hi)
         /\ Head(b) \in Frames /\ lo <= Head(b).n /\ Head(b).n <= hi
         /\ \A j \in 1..Len(q): Head(b).n <= q[j].n
  <1> DEFINE t == Tail(b)
  <1>1. /\ Head(b) \in Frames /\ Head(b) = b[1] /\ Len(b) \in Nat \ {0}
        /\ t \in Seq(Frames) /\ Len(t) = Len(b) - 1
        /\ \A i \in 1..Len(t): t[i] = b[i + 1]
    BY TailElements
  <1>2. \A i \in 1..Len(t): i + 1 \in 1..Len(b)  BY <1>1
  <1>3. 1 \in 1..Len(b)  BY <1>1
  <1> HIDE DEF t
  <1>4. Within(t, lo, hi)  BY <1>1, <1>2 DEF Within
  <1>5. Sorted(t)
    <2> SUFFICES ASSUME NEW i \in 1..Len(t), NEW j \in 1..Len(t), i <= j
                 PROVE  t[i].n <= t[j].n
      BY DEF Sorted
    <2>1. i + 1 \in 1..Len(b) /\ j + 1 \in 1..Len(b) /\ i + 1 <= j + 1  BY <1>2
    <2> QED  BY <1>1, <2>1 DEF Sorted
  <1>6. Below(t, q)  BY <1>1, <1>2 DEF Below
  <1>7. Within(t, Head(b).n, hi)
    <2> SUFFICES ASSUME NEW i \in 1..Len(t) PROVE b[1].n <= t[i].n /\ t[i].n <= hi
      BY <1>1 DEF Within
    <2>1. i + 1 \in 1..Len(b) /\ 1 <= i + 1  BY <1>1, <1>2
    <2> QED  BY <1>1, <1>3, <2>1 DEF Within, Sorted
  <1>8. lo <= Head(b).n /\ Head(b).n <= hi  BY <1>1, <1>3 DEF Within
  <1>9. \A j \in 1..Len(q): Head(b).n <= q[j].n  BY <1>1, <1>3 DEF Below
  <1> QED  BY <1>1, <1>4, <1>5, <1>6, <1>7, <1>8, <1>9 DEF t

\* A frame that is not older than the others goes to the end of the queue.
LEMMA EnqueueOrder ==
  ASSUME NEW q \in Seq(Frames), Len(q) <= QueueMax, NEW f \in Frames,
         NEW b \in Seq(Frames), NEW lo \in Nat, NEW hi \in Nat, NEW top \in Nat,
         Within(q, lo, hi), Sorted(q), Below(b, q), Within(b, lo, hi),
         lo <= hi, hi <= f.n, f.n <= top
  PROVE  /\ Enqueue(q, f) \in Seq(Frames) /\ Len(Enqueue(q, f)) <= QueueMax
         /\ Within(Enqueue(q, f), lo, top) /\ Sorted(Enqueue(q, f))
         /\ Below(b, Enqueue(q, f)) /\ Within(b, lo, top)
  <1> DEFINE e == Enqueue(q, f)
  <1>1. /\ e \in Seq(Frames) /\ Len(e) <= QueueMax /\ e[Len(e)] = f
        /\ \/ Len(e) = Len(q) + 1 /\ \A i \in 1..Len(q): e[i] = q[i]
           \/ Len(e) = Len(q) /\ \A i \in 1..(Len(q) - 1): e[i] = q[i + 1]
    BY EnqueueElements
  <1> HIDE DEF e
  <1>2. Len(e) \in Nat /\ Len(q) \in Nat /\ f.n \in Nat
    <2>1. f.n \in Nat  BY FieldsOfFrame, ContentsAreNat
    <2> QED  BY <1>1, <2>1
  \* every other frame of the new queue is one of the old queue, in the same order
  <1>3. PICK k \in {0, 1}: /\ \A i \in 1..(Len(e) - 1): i + k \in 1..Len(q) /\ e[i] = q[i + k]
    <2>1. CASE Len(e) = Len(q) + 1 /\ \A i \in 1..Len(q): e[i] = q[i]
      <3>1. \A i \in 1..(Len(e) - 1): i + 0 \in 1..Len(q) /\ e[i] = q[i + 0]
        BY <1>2, <2>1
      <3> QED  BY <3>1
    <2>2. CASE Len(e) = Len(q) /\ \A i \in 1..(Len(q) - 1): e[i] = q[i + 1]
      <3>1. \A i \in 1..(Len(e) - 1): i + 1 \in 1..Len(q) /\ e[i] = q[i + 1]
        BY <1>2, <2>2
      <3> QED  BY <3>1
    <2> QED  BY <1>1, <2>1, <2>2
  <1>4. \A i \in 1..(Len(e) - 1): lo <= e[i].n /\ e[i].n <= hi /\ e[i].n \in Nat
    <2> SUFFICES ASSUME NEW i \in 1..(Len(e) - 1)
                 PROVE  lo <= e[i].n /\ e[i].n <= hi /\ e[i].n \in Nat
      OBVIOUS
    <2>1. i + k \in 1..Len(q) /\ e[i] = q[i + k]  BY <1>3
    <2> QED  BY <2>1, NumbersOf DEF Within
  <1>5. \A i \in 1..Len(e): i = Len(e) \/ i \in 1..(Len(e) - 1)  BY <1>2
  <1>6. Within(e, lo, top)
    <2> SUFFICES ASSUME NEW i \in 1..Len(e) PROVE lo <= e[i].n /\ e[i].n <= top
      BY DEF Within
    <2>1. CASE i = Len(e)  BY <1>1, <1>2, <2>1
    <2>2. CASE i \in 1..(Len(e) - 1)  BY <1>2, <1>4, <2>2
    <2> QED  BY <1>5, <2>1, <2>2
  <1>7. Sorted(e)
    <2> SUFFICES ASSUME NEW i \in 1..Len(e), NEW j \in 1..Len(e), i <= j PROVE e[i].n <= e[j].n
      BY DEF Sorted
    <2>1. CASE i = Len(e)
      <3>1. j = i  BY <1>2, <2>1
      <3> QED  BY <1>1, <1>2, <2>1, <3>1
    <2>2. CASE i \in 1..(Len(e) - 1) /\ j = Len(e)  BY <1>1, <1>2, <1>4, <2>2
    <2>3. CASE i \in 1..(Len(e) - 1) /\ j \in 1..(Len(e) - 1)
      <3>1. /\ i + k \in 1..Len(q) /\ e[i] = q[i + k]
            /\ j + k \in 1..Len(q) /\ e[j] = q[j + k] /\ i + k <= j + k
        BY <1>3, <2>3
      <3> QED  BY <3>1 DEF Sorted
    <2> QED  BY <1>5, <2>1, <2>2, <2>3
  <1>8. Below(b, e)
    <2> SUFFICES ASSUME NEW i \in 1..Len(b), NEW j \in 1..Len(e) PROVE b[i].n <= e[j].n
      BY DEF Below
    <2>1. CASE j = Len(e)
      <3>1. b[i].n \in Nat /\ b[i].n <= hi  BY NumbersOf DEF Within
      <3> QED  BY <1>1, <1>2, <2>1, <3>1
    <2>2. CASE j \in 1..(Len(e) - 1)
      <3>1. j + k \in 1..Len(q) /\ e[j] = q[j + k]  BY <1>3, <2>2
      <3> QED  BY <3>1 DEF Below
    <2> QED  BY <1>5, <2>1, <2>2
  <1>9. Within(b, lo, top)
    <2> SUFFICES ASSUME NEW i \in 1..Len(b) PROVE lo <= b[i].n /\ b[i].n <= top
      BY DEF Within
    <2>1. b[i].n \in Nat /\ lo <= b[i].n /\ b[i].n <= hi  BY NumbersOf DEF Within
    <2> QED  BY <1>2, <2>1
  <1> QED  BY <1>1, <1>6, <1>7, <1>8, <1>9 DEF e

\* The batch takes the first frame of the queue.
LEMMA TakeOrder ==
  ASSUME NEW b \in Seq(Frames), NEW q \in Seq(Frames), q # <<>>, NEW lo \in Nat, NEW hi \in Nat,
         Within(b, lo, hi), Within(q, lo, hi), Sorted(b), Sorted(q), Below(b, q)
  PROVE  LET a == Append(b, Head(q))
         IN  /\ a \in Seq(Frames) /\ Len(a) = Len(b) + 1 /\ a # <<>>
             /\ Within(a, lo, hi) /\ Sorted(a) /\ Below(a, Tail(q))
  <1> DEFINE a == Append(b, Head(q))
             t == Tail(q)
  <1>1. /\ Head(q) \in Frames /\ Head(q) = q[1] /\ Len(q) \in Nat \ {0}
        /\ t \in Seq(Frames) /\ Len(t) = Len(q) - 1
        /\ \A i \in 1..Len(t): t[i] = q[i + 1]
    BY TailElements
  <1>2. /\ a \in Seq(Frames) /\ Len(a) = Len(b) + 1 /\ Len(b) \in Nat
        /\ a[Len(b) + 1] = q[1] /\ \A i \in 1..Len(b): a[i] = b[i]
    BY <1>1
  <1>3. 1 \in 1..Len(q) /\ \A i \in 1..Len(t): i + 1 \in 1..Len(q) /\ 1 <= i + 1
    BY <1>1
  <1>4. \A i \in 1..Len(a): i = Len(b) + 1 \/ i \in 1..Len(b)  BY <1>2
  <1> HIDE DEF a, t
  <1>5. Within(a, lo, hi)
    BY <1>2, <1>3, <1>4 DEF Within
  <1>6. Sorted(a)
    <2> SUFFICES ASSUME NEW i \in 1..Len(a), NEW j \in 1..Len(a), i <= j PROVE a[i].n <= a[j].n
      BY DEF Sorted
    <2>1. CASE i \in 1..Len(b) /\ j \in 1..Len(b)  BY <1>2, <2>1 DEF Sorted
    <2>2. CASE i \in 1..Len(b) /\ j = Len(b) + 1  BY <1>2, <1>3, <2>2 DEF Below
    <2>3. CASE i = Len(b) + 1
      <3>1. j = i /\ a[i] = q[1]  BY <1>2, <1>4, <2>3
      <3>2. q[1].n \in Nat  BY <1>3, NumbersOf
      <3> QED  BY <3>1, <3>2
    <2> QED  BY <1>4, <2>1, <2>2, <2>3
  <1>7. Below(a, t)
    <2> SUFFICES ASSUME NEW i \in 1..Len(a), NEW j \in 1..Len(t) PROVE a[i].n <= t[j].n
      BY DEF Below
    <2>1. j + 1 \in 1..Len(q) /\ 1 <= j + 1 /\ t[j] = q[j + 1]  BY <1>1, <1>3
    <2>2. CASE i \in 1..Len(b)  BY <1>2, <2>1, <2>2 DEF Below
    <2>3. CASE i = Len(b) + 1  BY <1>2, <1>3, <2>1, <2>3 DEF Sorted
    <2> QED  BY <1>4, <2>2, <2>3
  <1>8. a # <<>>  BY <1>2
  <1> QED  BY <1>2, <1>5, <1>6, <1>7, <1>8 DEF a, t

\* A coalesced batch shows the last of its frames.
LEMMA CoalescedOrder ==
  ASSUME NEW b \in Seq(Frames), b # <<>>, NEW q \in Seq(Frames), NEW lo \in Nat, NEW hi \in Nat,
         Within(b, lo, hi), Below(b, q)
  PROVE  /\ Coalesced(b) \in Seq(Frames) /\ Len(Coalesced(b)) = 1
         /\ Within(Coalesced(b), lo, hi) /\ Sorted(Coalesced(b)) /\ Below(Coalesced(b), q)
  <1>1. /\ Coalesced(b) \in Seq(Frames) /\ Len(Coalesced(b)) = 1
        /\ Coalesced(b)[1].n = b[Len(b)].n
    BY CoalescedElements
  <1>2. Len(b) \in 1..Len(b)  OBVIOUS
  <1>3. b[Len(b)].n \in Nat  BY <1>2, NumbersOf
  <1>4. \A i \in 1..Len(Coalesced(b)): i = 1  BY <1>1
  <1> QED  BY <1>1, <1>2, <1>3, <1>4 DEF Within, Sorted, Below
-----------------------------------------------------------------------------
\* The actions keep the types and the order.  Some lemmas serve several actions.

LEMMA Numbers ==
  ASSUME TypeOK
  PROVE  /\ glass.n \in Nat /\ submitted \in Nat /\ content.n \in Nat /\ inflight.n \in Nat
         /\ inflight.n \in Contents /\ inflight.red \in Reds
  BY FieldsOfFrame, ContentsAreNat DEF TypeOK

\* What the order depends on besides pc.
lineVars == <<content, inflight, queue, batch, glass, submitted>>

LEMMA OrderUnchanged ==
  ASSUME InOrder, UNCHANGED lineVars,
         pc' \in {"route", "start", "draw", "busy"} => batch # <<>>
  PROVE  InOrder'
  BY DEF InOrder, lineVars, Rendering, Within, Sorted, Below

\* The first frame of the batch is done with: it is skipped, dropped or aborted,
\* or it is on the glass.
LEMMA AdvanceTail ==
  ASSUME TypeOK, InOrder, batch # <<>>, Advance(Tail(batch)),
         glass'.n = glass.n \/ glass'.n = Head(batch).n,
         UNCHANGED <<content, inflight, queue, submitted>>
  PROVE  /\ batch' \in Seq(Frames) /\ Len(batch') <= BatchMax
         /\ pc' \in {"collect", "route"} /\ kind' = "none"
         /\ InOrder'
  <1>1. batch \in Seq(Frames) /\ queue \in Seq(Frames) /\ Len(batch) <= BatchMax
    BY DEF TypeOK
  <1>2. /\ Within(batch, glass.n, submitted) /\ Sorted(batch) /\ Below(batch, queue)
        /\ Within(queue, glass.n, submitted) /\ Sorted(queue)
    BY DEF InOrder
  <1>3. /\ Tail(batch) \in Seq(Frames) /\ Len(Tail(batch)) = Len(batch) - 1
        /\ Within(Tail(batch), glass.n, submitted) /\ Sorted(Tail(batch))
        /\ Below(Tail(batch), queue)
        /\ Within(Tail(batch), Head(batch).n, submitted)
        /\ Head(batch) \in Frames
        /\ glass.n <= Head(batch).n /\ Head(batch).n <= submitted
        /\ \A j \in 1..Len(queue): Head(batch).n <= queue[j].n
    BY <1>1, <1>2, TailOrder, Numbers
  <1>4. batch' = Tail(batch) /\ kind' = "none" /\ pc' \in {"collect", "route"}
        /\ (pc' # "collect" => batch' # <<>>)
    BY DEF Advance
  <1>5. Within(queue, Head(batch).n, submitted)
    BY <1>2, <1>3 DEF Within
  <1>6. /\ Within(batch', glass'.n, submitted) /\ Within(queue, glass'.n, submitted)
        /\ glass'.n <= submitted
    BY <1>2, <1>3, <1>4, <1>5 DEF InOrder
  <1>7. InOrder'
    BY <1>2, <1>3, <1>4, <1>6 DEF InOrder, Rendering, Within, Sorted, Below
  <1>8. Len(batch') <= BatchMax
    BY <1>1, <1>3, <1>4, BatchMaxAssumption
  <1> QED  BY <1>3, <1>4, <1>7, <1>8

\* A render begins: of newer content, or a tick of the clock.
LEMMA RenderOrder ==
  ASSUME TypeOK, InOrder, ~Rendering, Rendering',
         inflight'.n = content'.n, content'.n = content.n \/ content'.n = content.n + 1,
         UNCHANGED <<queue, batch, pc, glass, submitted>>
  PROVE  InOrder'
  <1>1. content.n = submitted /\ content.n \in Nat  BY Numbers DEF InOrder
  <1> QED  BY <1>1 DEF InOrder, Within, Sorted, Below

\* The queue is emptied.
LEMMA ClearOrder ==
  ASSUME InOrder, queue' = <<>>, UNCHANGED <<content, inflight, batch, pc, glass, submitted>>
  PROVE  InOrder'
  BY DEF InOrder, Rendering, Within, Sorted, Below

-----------------------------------------------------------------------------
\* The variables of every value have their types in every reachable state: in
\* particular the queue and the batch respect their limits.
LEMMA InitHolds == Init => TypeOK /\ InOrder
  <1> SUFFICES ASSUME Init PROVE TypeOK /\ InOrder
    OBVIOUS
  <1>1. 0 \in Contents /\ 0 \in Reds /\ NoRed \in Reds \cup {NoRed}
    BY MaxContentAssumption, RedsAssumption DEF Contents
  <1>2. TypeOK
    <2>1. [n |-> 0, red |-> 0] \in [n: Contents, red: Reds]  BY <1>1
    <2>2. <<>> \in Seq(Frames) /\ Len(<<>>) <= QueueMax /\ Len(<<>>) <= BatchMax
      BY QueueMaxAssumption, BatchMaxAssumption
    <2> QED  BY <1>1, <2>1, <2>2, NoFrameIsFrame DEF Init, TypeOK
  <1>3. InOrder
    BY DEF Init, InOrder, Rendering, Within, Sorted, Below
  <1> QED  BY <1>2, <1>3

LEMMA StepHolds == TypeOK /\ InOrder /\ [Next]_vars => TypeOK' /\ InOrder'
  <1> SUFFICES ASSUME TypeOK, InOrder, [Next]_vars PROVE TypeOK' /\ InOrder'
    OBVIOUS
  <1> USE DEF renderVars, flagVars, panelVars
  <1>t. /\ batch \in Seq(Frames) /\ queue \in Seq(Frames)
        /\ Len(batch) <= BatchMax /\ Len(queue) <= QueueMax
    BY DEF TypeOK
  <1>o. /\ Within(batch, glass.n, submitted) /\ Within(queue, glass.n, submitted)
        /\ Sorted(batch) /\ Sorted(queue) /\ Below(batch, queue)
        /\ glass.n <= submitted
    BY DEF InOrder
  <1>1. CASE Exit
    <2>1. UNCHANGED lineVars  BY <1>1 DEF Exit, lineVars
    <2>2. pc' \in {"route", "start", "draw", "busy"} => batch # <<>>  BY <1>1 DEF Exit, InOrder
    <2>3. TypeOK'  BY <1>1 DEF Exit, TypeOK
    <2> QED  BY <2>1, <2>2, <2>3, OrderUnchanged
  <1>2. CASE Route
    <2>1. UNCHANGED lineVars  BY <1>2 DEF Route, lineVars
    <2>2. pc' \in {"route", "start", "draw", "busy"} => batch # <<>>  BY <1>2 DEF Route, InOrder
    <2>3. kind' \in {"none", "partial", "full"}  BY <1>2 DEF Route
    <2>4. pendingFull' \in BOOLEAN
      <3>1. CASE Panel = "slow"  BY <1>2, <3>1 DEF Route, TypeOK
      <3>2. CASE Panel # "slow"  BY <1>2, <3>2 DEF Route
      <3> QED  BY <3>1, <3>2
    <2>5. /\ pc' = "start"
          /\ UNCHANGED <<renderVars, queue, batch, stop, inPartial, baseline, asleep,
                         forceReinit, lastRed, panelVars, owner, submitted, owed>>
      BY <1>2 DEF Route
    <2>6. TypeOK'  BY <2>3, <2>4, <2>5 DEF TypeOK
    <2> QED  BY <2>1, <2>2, <2>6, OrderUnchanged
  <1>3. CASE Start
    <2>1. UNCHANGED lineVars  BY <1>3 DEF Start, lineVars
    <2>2. pc' \in {"route", "start", "draw", "busy"} => batch # <<>>  BY <1>3 DEF Start, InOrder
    <2>3. asleep' \in BOOLEAN /\ forceReinit' \in BOOLEAN /\ power' \in {"on", "off", "closed"}
      <3>1. CASE NeedsInit  BY <1>3, <3>1 DEF Start
      <3>2. CASE ~NeedsInit  BY <1>3, <3>2 DEF Start, TypeOK
      <3> QED  BY <3>1, <3>2
    <2>4. inPartial' \in BOOLEAN /\ baseline' \in BOOLEAN
      BY <1>3 DEF Start
    <2>5. /\ pc' \in {"busy", "draw"}
          /\ UNCHANGED <<renderVars, queue, batch, kind, stop, pendingFull, lastRed,
                         glass, mixed, owner, submitted, owed>>
      BY <1>3 DEF Start
    <2>6. TypeOK'  BY <2>3, <2>4, <2>5 DEF TypeOK
    <2> QED  BY <2>1, <2>2, <2>6, OrderUnchanged
  <1>4. CASE IdleSleep
    <2>1. UNCHANGED lineVars  BY <1>4 DEF IdleSleep, lineVars
    <2>2. pc' \in {"route", "start", "draw", "busy"} => batch # <<>>  BY <1>4 DEF IdleSleep, InOrder
    <2>3. TypeOK'  BY <1>4 DEF IdleSleep, TypeOK
    <2> QED  BY <2>1, <2>2, <2>3, OrderUnchanged
  <1>5. CASE Reinit
    <2>1. UNCHANGED lineVars  BY <1>5 DEF Reinit, lineVars
    <2>2. pc' \in {"route", "start", "draw", "busy"} => batch # <<>>  BY <1>5 DEF Reinit, InOrder
    <2>3. TypeOK'  BY <1>5 DEF Reinit, TypeOK
    <2> QED  BY <2>1, <2>2, <2>3, OrderUnchanged
  <1>6. CASE StopSet
    <2>1. UNCHANGED lineVars  BY <1>6 DEF StopSet, lineVars
    <2>2. pc' \in {"route", "start", "draw", "busy"} => batch # <<>>  BY <1>6 DEF StopSet, InOrder
    <2>3. TypeOK'  BY <1>6 DEF StopSet, TypeOK
    <2> QED  BY <2>1, <2>2, <2>3, OrderUnchanged
  <1>7. CASE StopJoin
    <2>1. UNCHANGED lineVars  BY <1>7 DEF StopJoin, lineVars
    <2>2. pc' \in {"route", "start", "draw", "busy"} => batch # <<>>  BY <1>7 DEF StopJoin, InOrder
    <2>3. TypeOK'  BY <1>7 DEF StopJoin, TypeOK
    <2> QED  BY <2>1, <2>2, <2>3, OrderUnchanged
  <1>8. CASE Release
    <2>1. UNCHANGED lineVars  BY <1>8 DEF Release, lineVars
    <2>2. pc' \in {"route", "start", "draw", "busy"} => batch # <<>>  BY <1>8 DEF Release, InOrder
    <2>3. TypeOK'  BY <1>8, MaxContentAssumption DEF Release, TypeOK, Contents
    <2> QED  BY <2>1, <2>2, <2>3, OrderUnchanged
  <1>9. CASE Reacquire
    <2>1. UNCHANGED lineVars  BY <1>9 DEF Reacquire, lineVars
    <2>2. pc' \in {"route", "start", "draw", "busy"} => batch # <<>>  BY <1>9 DEF Reacquire, InOrder
    <2>3. pc' \in {"collect", "route", "start", "draw", "busy", "dead"} /\ stop' \in BOOLEAN
      <3>1. CASE pc = "dead"  BY <1>9, <3>1 DEF Reacquire
      <3>2. CASE pc # "dead"  BY <1>9, <3>2 DEF Reacquire, TypeOK
      <3> QED  BY <3>1, <3>2
    <2>4. TypeOK'  BY <1>9, <2>3 DEF Reacquire, TypeOK
    <2> QED  BY <2>1, <2>2, <2>4, OrderUnchanged
  <1>10. CASE SkipStopped
    <2>1. batch # <<>>  BY <1>10 DEF SkipStopped, InOrder
    <2>2. /\ Advance(Tail(batch)) /\ (glass'.n = glass.n \/ glass'.n = Head(batch).n)
          /\ UNCHANGED <<content, inflight, queue, submitted>>
      BY <1>10 DEF SkipStopped
    <2>3. /\ batch' \in Seq(Frames) /\ Len(batch') <= BatchMax
          /\ pc' \in {"collect", "route"} /\ kind' = "none" /\ InOrder'
      BY <2>1, <2>2, AdvanceTail
    <2>4. Head(batch).n \in Contents /\ Head(batch).red \in Reds
      BY <1>t, <2>1, TailElements, FieldsOfFrame
    <2>5. TypeOK'  BY <1>10, <2>3, <2>4, MaxContentAssumption DEF SkipStopped, RecordRed, TypeOK, Contents
    <2> QED  BY <2>3, <2>5
  <1>11. CASE StartStopped
    <2>1. batch # <<>>  BY <1>11 DEF StartStopped, InOrder
    <2>2. /\ Advance(Tail(batch)) /\ (glass'.n = glass.n \/ glass'.n = Head(batch).n)
          /\ UNCHANGED <<content, inflight, queue, submitted>>
      BY <1>11 DEF StartStopped
    <2>3. /\ batch' \in Seq(Frames) /\ Len(batch') <= BatchMax
          /\ pc' \in {"collect", "route"} /\ kind' = "none" /\ InOrder'
      BY <2>1, <2>2, AdvanceTail
    <2>4. Head(batch).n \in Contents /\ Head(batch).red \in Reds
      BY <1>t, <2>1, TailElements, FieldsOfFrame
    <2>5. forceReinit' \in BOOLEAN  BY <1>11, Zenon DEF StartStopped, TypeOK
    <2>6. lastRed' \in Reds \cup {NoRed}  BY <1>11, <2>4 DEF StartStopped, RecordRed, TypeOK
    <2>7. TypeOK'  BY <1>11, <2>3, <2>5, <2>6 DEF StartStopped, TypeOK
    <2> QED  BY <2>3, <2>7
  <1>12. CASE DrawStopped
    <2>1. batch # <<>>  BY <1>12 DEF DrawStopped, InOrder
    <2>2. /\ Advance(Tail(batch)) /\ (glass'.n = glass.n \/ glass'.n = Head(batch).n)
          /\ UNCHANGED <<content, inflight, queue, submitted>>
      BY <1>12 DEF DrawStopped
    <2>3. /\ batch' \in Seq(Frames) /\ Len(batch') <= BatchMax
          /\ pc' \in {"collect", "route"} /\ kind' = "none" /\ InOrder'
      BY <2>1, <2>2, AdvanceTail
    <2>4. Head(batch).n \in Contents /\ Head(batch).red \in Reds
      BY <1>t, <2>1, TailElements, FieldsOfFrame
    <2>5. TypeOK'  BY <1>12, <2>3, <2>4, MaxContentAssumption DEF DrawStopped, RecordRed, TypeOK, Contents
    <2> QED  BY <2>3, <2>5
  <1>13. CASE DrawPartial
    <2>1. batch # <<>>  BY <1>13 DEF DrawPartial, InOrder
    <2>2. /\ Advance(Tail(batch)) /\ (glass'.n = glass.n \/ glass'.n = Head(batch).n)
          /\ UNCHANGED <<content, inflight, queue, submitted>>
      BY <1>13 DEF DrawPartial
    <2>3. /\ batch' \in Seq(Frames) /\ Len(batch') <= BatchMax
          /\ pc' \in {"collect", "route"} /\ kind' = "none" /\ InOrder'
      BY <2>1, <2>2, AdvanceTail
    <2>4. Head(batch).n \in Contents /\ Head(batch).red \in Reds
      BY <1>t, <2>1, TailElements, FieldsOfFrame
    <2>5. TypeOK'  BY <1>13, <2>3, <2>4, MaxContentAssumption DEF DrawPartial, RecordRed, TypeOK, Contents
    <2> QED  BY <2>3, <2>5
  <1>14. CASE FinishFull
    <2>1. batch # <<>>  BY <1>14 DEF FinishFull, InOrder
    <2>2. /\ Advance(Tail(batch)) /\ (glass'.n = glass.n \/ glass'.n = Head(batch).n)
          /\ UNCHANGED <<content, inflight, queue, submitted>>
      BY <1>14 DEF FinishFull
    <2>3. /\ batch' \in Seq(Frames) /\ Len(batch') <= BatchMax
          /\ pc' \in {"collect", "route"} /\ kind' = "none" /\ InOrder'
      BY <2>1, <2>2, AdvanceTail
    <2>4. Head(batch).n \in Contents /\ Head(batch).red \in Reds
      BY <1>t, <2>1, TailElements, FieldsOfFrame
    <2>5. glass' \in [n: Contents, red: Reds]  BY <1>14, <2>4 DEF FinishFull
    <2>6. lastRed' \in Reds \cup {NoRed}  BY <1>14, <2>4 DEF FinishFull, RecordRed, TypeOK
    <2>7. 0 \in Contents  BY MaxContentAssumption DEF Contents
    <2>8. owed' \in Contents  BY <1>14, <2>7 DEF FinishFull, TypeOK
    <2>9. TypeOK'  BY <1>14, <2>3, <2>5, <2>6, <2>8 DEF FinishFull, TypeOK
    <2> QED  BY <2>3, <2>9
  <1>15. CASE AbortFull
    <2>1. batch # <<>>  BY <1>15 DEF AbortFull, InOrder
    <2>2. /\ Advance(Tail(batch)) /\ (glass'.n = glass.n \/ glass'.n = Head(batch).n)
          /\ UNCHANGED <<content, inflight, queue, submitted>>
      BY <1>15 DEF AbortFull
    <2>3. /\ batch' \in Seq(Frames) /\ Len(batch') <= BatchMax
          /\ pc' \in {"collect", "route"} /\ kind' = "none" /\ InOrder'
      BY <2>1, <2>2, AdvanceTail
    <2>4. Head(batch).n \in Contents /\ Head(batch).red \in Reds
      BY <1>t, <2>1, TailElements, FieldsOfFrame
    <2>5. TypeOK'  BY <1>15, <2>3, <2>4, MaxContentAssumption DEF AbortFull, RecordRed, TypeOK, Contents
    <2> QED  BY <2>3, <2>5
  <1>16. CASE Fail
    <2>1. batch # <<>>  BY <1>16 DEF Fail, InOrder
    <2>2. /\ Advance(Tail(batch)) /\ (glass'.n = glass.n \/ glass'.n = Head(batch).n)
          /\ UNCHANGED <<content, inflight, queue, submitted>>
      BY <1>16 DEF Fail
    <2>3. /\ batch' \in Seq(Frames) /\ Len(batch') <= BatchMax
          /\ pc' \in {"collect", "route"} /\ kind' = "none" /\ InOrder'
      BY <2>1, <2>2, AdvanceTail
    <2>4. Head(batch).n \in Contents /\ Head(batch).red \in Reds
      BY <1>t, <2>1, TailElements, FieldsOfFrame
    <2>5. TypeOK'  BY <1>16, <2>3, <2>4, MaxContentAssumption DEF Fail, RecordRed, TypeOK, Contents
    <2> QED  BY <2>3, <2>5
  <1>17. ASSUME NEW full \in BOOLEAN, NEW red \in Reds, Render(full, red) PROVE TypeOK' /\ InOrder'
    <2>1. /\ ~Rendering /\ inflight' \in Frames /\ inflight' # NoFrame
          /\ inflight'.n = content'.n /\ content'.n = content.n + 1 /\ content' \in [n: Contents, red: Reds]
          /\ UNCHANGED <<queue, batch, pc, glass, submitted>>
      <3>1. content.n \in Nat /\ content.n \in Contents /\ content.red \in Reds  BY Numbers DEF TypeOK
      <3>2. content.n + 1 \in Contents /\ content.n + 1 # 0
        BY <1>17, <3>1, MaxContentAssumption DEF Render, Contents
      <3>3. /\ content' = [n |-> content.n + 1, red |-> red]
            /\ inflight' = [n |-> content.n + 1, red |-> red, full |-> full, clock |-> FALSE]
        BY <1>17 DEF Render
      <3>4. inflight' \in Frames  BY <3>2, <3>3, FrameFields
      <3>5. inflight'.n = content.n + 1 /\ inflight' # NoFrame
        BY <3>2, <3>3 DEF NoFrame
      <3> QED  BY <1>17, <3>2, <3>3, <3>4, <3>5 DEF Render
    <2>2. InOrder'  BY <2>1, RenderOrder DEF Rendering
    <2>3. TypeOK'  BY <1>17, <2>1 DEF Render, TypeOK
    <2> QED  BY <2>2, <2>3
  <1>18. ASSUME NEW red \in Reds, NewScreen(red) PROVE TypeOK' /\ InOrder'
    <2>1. /\ ~Rendering /\ inflight' \in Frames /\ inflight' # NoFrame
          /\ inflight'.n = content'.n /\ content'.n = content.n + 1 /\ content' \in [n: Contents, red: Reds]
          /\ UNCHANGED <<queue, batch, pc, glass, submitted>>
      <3>1. content.n \in Nat /\ content.n \in Contents /\ content.red \in Reds  BY Numbers DEF TypeOK
      <3>2. content.n + 1 \in Contents /\ content.n + 1 # 0
        BY <1>18, <3>1, MaxContentAssumption DEF NewScreen, Contents
      <3>3. /\ content' = [n |-> content.n + 1, red |-> red]
            /\ inflight' = [n |-> content.n + 1, red |-> red, full |-> (owner = "tuning"), clock |-> FALSE]
        BY <1>18 DEF NewScreen
      <3>4. inflight' \in Frames  BY <3>2, <3>3, FrameFields
      <3>5. inflight'.n = content.n + 1 /\ inflight' # NoFrame
        BY <3>2, <3>3 DEF NoFrame
      <3> QED  BY <1>18, <3>2, <3>3, <3>4, <3>5 DEF NewScreen
    <2>2. InOrder'  BY <2>1, RenderOrder DEF Rendering
    <2>3. TypeOK'  BY <1>18, <2>1 DEF NewScreen, TypeOK
    <2> QED  BY <2>2, <2>3
  <1>19. CASE Tick
    <2>1. /\ ~Rendering /\ inflight' \in Frames /\ inflight' # NoFrame
          /\ inflight'.n = content'.n /\ content'.n = content.n /\ content' = content
          /\ UNCHANGED <<queue, batch, pc, glass, submitted>>
      <3>1. content.n \in Nat /\ content.n \in Contents /\ content.red \in Reds  BY Numbers DEF TypeOK
      <3>2. inflight' = [n |-> content.n, red |-> content.red, full |-> FALSE, clock |-> TRUE]
        BY <1>19 DEF Tick
      <3>3. inflight' \in Frames  BY <3>1, <3>2, FrameFields
      <3>4. inflight'.n = content.n /\ inflight' # NoFrame
        BY <1>19, <3>1, <3>2 DEF Tick, NoFrame
      <3> QED  BY <1>19, <3>3, <3>4 DEF Tick
    <2>2. InOrder'  BY <2>1, RenderOrder DEF Rendering
    <2>3. TypeOK'  BY <1>19, <2>1 DEF Tick, TypeOK
    <2> QED  BY <2>2, <2>3
  <1>20. CASE Submit
    <2>1. /\ inflight \in Frames /\ inflight.n \in Nat /\ inflight.n = content.n
          /\ submitted <= inflight.n
      BY <1>20, Numbers DEF Submit, TypeOK, InOrder
    <2>2. /\ queue' = Enqueue(queue, inflight) /\ inflight' = NoFrame /\ submitted' = inflight.n
          /\ UNCHANGED <<content, batch, pc, glass>>
      BY <1>20 DEF Submit
    <2>3. /\ queue' \in Seq(Frames) /\ Len(queue') <= QueueMax
          /\ Within(queue', glass.n, submitted') /\ Sorted(queue')
          /\ Below(batch, queue') /\ Within(batch, glass.n, submitted')
      BY <1>t, <1>o, <2>1, <2>2, EnqueueOrder, Numbers
    <2>4. glass.n <= submitted'  BY <1>o, <2>1, <2>2, Numbers
    <2>5. InOrder'
      BY <1>o, <2>1, <2>2, <2>3, <2>4 DEF InOrder, Rendering, Within, Sorted, Below
    <2>6. TypeOK'  BY <1>20, <2>3, NoFrameIsFrame, Numbers DEF Submit, TypeOK
    <2> QED  BY <2>5, <2>6
  <1>21. CASE Clear
    <2>1. InOrder'  BY <1>21, ClearOrder DEF Clear
    <2>2. TypeOK'  BY <1>21, QueueMaxAssumption, MaxContentAssumption DEF Clear, TypeOK, Contents
    <2> QED  BY <2>1, <2>2
  <1>22. CASE StopDrain
    <2>1. InOrder'  BY <1>22, ClearOrder DEF StopDrain
    <2>2. TypeOK'  BY <1>22, QueueMaxAssumption, MaxContentAssumption DEF StopDrain, TypeOK, Contents
    <2> QED  BY <2>1, <2>2
  <1>23. CASE Take
    <2>1. /\ queue # <<>> /\ batch' = Append(batch, Head(queue)) /\ queue' = Tail(queue)
          /\ UNCHANGED <<content, inflight, pc, glass, submitted>>
      BY <1>23 DEF Take
    <2>2. /\ batch' \in Seq(Frames) /\ Len(batch') = Len(batch) + 1 /\ batch' # <<>>
          /\ Within(batch', glass.n, submitted) /\ Sorted(batch') /\ Below(batch', queue')
      BY <1>t, <1>o, <2>1, TakeOrder, Numbers
    <2>3. /\ queue' \in Seq(Frames) /\ Len(queue') = Len(queue) - 1
          /\ Within(queue', glass.n, submitted) /\ Sorted(queue')
      <3>1. <<>> \in Seq(Frames) /\ Below(queue, <<>>)  BY DEF Below
      <3> QED  BY <1>t, <1>o, <2>1, <3>1, TailOrder, Numbers
    <2>4. InOrder'
      BY <1>o, <2>1, <2>2, <2>3 DEF InOrder, Rendering, Within, Sorted, Below
    <2>5. Len(batch') <= BatchMax /\ Len(queue') <= QueueMax
      BY <1>23, <1>t, <2>2, <2>3, BatchMaxAssumption, QueueMaxAssumption DEF Take
    <2>6. TypeOK'  BY <1>23, <2>2, <2>3, <2>5 DEF Take, TypeOK
    <2> QED  BY <2>4, <2>6
  <1>24. CASE BeginBatch
    <2>1. batch # <<>> /\ UNCHANGED <<content, inflight, queue, glass, submitted>>
      BY <1>24 DEF BeginBatch
    <2>2. \/ batch' = <<>> /\ pc' = "collect"
          \/ batch' = Coalesced(batch) /\ pc' \in {"collect", "route"} /\ (pc' = "route" => batch' # <<>>)
          \/ batch' = batch /\ pc' \in {"collect", "route"} /\ (pc' = "route" => batch' # <<>>)
      BY <1>24 DEF BeginBatch, Advance
    <2>3. kind' = "none"  BY <1>24 DEF BeginBatch, Advance
    <2>4. /\ Coalesced(batch) \in Seq(Frames) /\ Len(Coalesced(batch)) = 1
          /\ Within(Coalesced(batch), glass.n, submitted) /\ Sorted(Coalesced(batch))
          /\ Below(Coalesced(batch), queue)
      BY <1>t, <1>o, <2>1, CoalescedOrder, Numbers
    <2>5. /\ batch' \in Seq(Frames) /\ Len(batch') <= BatchMax
          /\ Within(batch', glass.n, submitted) /\ Sorted(batch') /\ Below(batch', queue)
          /\ pc' \in {"collect", "route"} /\ (pc' = "route" => batch' # <<>>)
      <3>1. CASE batch' = <<>> /\ pc' = "collect"
        BY <3>1, BatchMaxAssumption DEF Within, Sorted, Below
      <3>2. CASE batch' = Coalesced(batch) /\ pc' \in {"collect", "route"} /\ (pc' = "route" => batch' # <<>>)
        <4>1. /\ batch' \in Seq(Frames) /\ Len(batch') = 1
              /\ Within(batch', glass.n, submitted) /\ Sorted(batch') /\ Below(batch', queue)
          BY <2>4, <3>2, Zenon
        <4> QED  BY <3>2, <4>1, BatchMaxAssumption
      <3>3. CASE batch' = batch /\ pc' \in {"collect", "route"} /\ (pc' = "route" => batch' # <<>>)
        BY <1>t, <1>o, <3>3
      <3> QED  BY <2>2, <3>1, <3>2, <3>3
    <2>6. InOrder'
      BY <1>o, <2>1, <2>5 DEF InOrder, Rendering, Within, Sorted, Below
    <2>7. TypeOK'  BY <1>24, <2>3, <2>5 DEF BeginBatch, TypeOK
    <2> QED  BY <2>6, <2>7
  <1>25. CASE UNCHANGED vars
    <2>1. TypeOK'  BY <1>25 DEF vars, TypeOK
    <2>2. InOrder'
      BY <1>25, OrderUnchanged DEF vars, lineVars, InOrder
    <2> QED  BY <2>1, <2>2
  <1> QED
    BY <1>1, <1>2, <1>3, <1>4, <1>5, <1>6, <1>7, <1>8, <1>9, <1>10, <1>11, <1>12, <1>13, <1>14, <1>15, <1>16, <1>17, <1>18, <1>19, <1>20, <1>21, <1>22, <1>23, <1>24, <1>25
    DEF Next, Scheduler, Owner

THEOREM TypeCorrect == Spec => []TypeOK
  <1>1. Spec => [](TypeOK /\ InOrder)
    BY InitHolds, StepHolds, PTL DEF Spec
  <1> QED  BY <1>1, PTL

-----------------------------------------------------------------------------
\* Every step submits the next content, shows one that was submitted and is newer
\* than the one on the panel, or changes neither.
LEMMA StepIsMirrored == TypeOK /\ InOrder /\ [Next]_vars => [Mirror!Next]_(Mirror!mirrorVars)
  <1> SUFFICES ASSUME TypeOK, InOrder, [Next]_vars
               PROVE  [Mirror!Next]_(Mirror!mirrorVars)
    OBVIOUS
  <1> USE DEF renderVars, flagVars, panelVars
  <1>1. CASE Submit
    <2>1. /\ submitted' = inflight.n /\ glass' = glass
          /\ submitted <= inflight.n /\ inflight.n <= submitted + 1
      BY <1>1 DEF Submit, InOrder
    <2>2. submitted' = submitted \/ submitted' = submitted + 1
      BY <2>1, Numbers
    <2> QED  BY <2>1, <2>2 DEF Mirror!Next, Mirror!Want, Mirror!mirrorVars
  <1>2. CASE DrawPartial \/ FinishFull
    <2>1. batch # <<>> /\ glass'.n = Head(batch).n /\ submitted' = submitted
      BY <1>2 DEF DrawPartial, FinishFull, InOrder
    <2>2. /\ batch \in Seq(Frames) /\ queue \in Seq(Frames)
          /\ Within(batch, glass.n, submitted) /\ Sorted(batch) /\ Below(batch, queue)
      BY DEF TypeOK, InOrder
    <2>3. glass.n <= Head(batch).n /\ Head(batch).n <= submitted /\ Head(batch) \in Frames
      BY <2>1, <2>2, TailOrder, Numbers
    <2>4. Head(batch).n \in Nat  BY <2>3, FieldsOfFrame, ContentsAreNat
    <2>5. CASE glass'.n = glass.n  BY <2>1, <2>5 DEF Mirror!mirrorVars
    <2>6. CASE glass'.n # glass.n
      <3>1. glass.n < submitted /\ glass'.n \in (glass.n + 1)..submitted
        BY <2>1, <2>3, <2>4, <2>6, Numbers
      <3> QED  BY <2>1, <3>1 DEF Mirror!Next, Mirror!Show
    <2> QED  BY <2>5, <2>6
  <1>3. CASE \/ Exit \/ Route \/ Start \/ IdleSleep \/ Reinit \/ StopSet \/ StopJoin \/ Release
             \/ Reacquire \/ SkipStopped \/ StartStopped \/ DrawStopped \/ AbortFull \/ Fail
             \/ Tick \/ Clear \/ StopDrain \/ Take \/ BeginBatch \/ UNCHANGED vars
    <2>1. glass' = glass /\ submitted' = submitted
      BY <1>3 DEF Exit, Route, Start, IdleSleep, Reinit, StopSet, StopJoin, Release, Reacquire,
                  SkipStopped, StartStopped, DrawStopped, AbortFull, Fail, Tick, Clear,
                  StopDrain, Take, BeginBatch, vars
    <2> QED  BY <2>1 DEF Mirror!mirrorVars
  <1>4. ASSUME NEW full \in BOOLEAN, NEW red \in Reds, Render(full, red) \/ NewScreen(red)
        PROVE  [Mirror!Next]_(Mirror!mirrorVars)
    <2>1. glass' = glass /\ submitted' = submitted
      BY <1>4 DEF Render, NewScreen
    <2> QED  BY <2>1 DEF Mirror!mirrorVars
  <1> QED  BY <1>1, <1>2, <1>3, <1>4 DEF Next, Scheduler, Owner

\* The panel shows only what was submitted and never goes back to older content,
\* whatever is evicted, coalesced, replayed, aborted, fails or is stopped.
THEOREM NeverGoesBack == Spec => NeverOlder
  <1>1. Init => Mirror!Init
    BY DEF Init, Mirror!Init
  <1>2. Spec => [](TypeOK /\ InOrder)
    BY InitHolds, StepHolds, PTL DEF Spec
  <1> QED  BY <1>1, <1>2, StepIsMirrored, PTL DEF Spec, NeverOlder, Mirror!Safe


-----------------------------------------------------------------------------
\* An interrupted refresh is made good: while the planes are mixed, a full
\* refresh is pending or under way, and no partial is chosen.
AbortKept ==
    /\ ~stop /\ owner \in {"run", "clearing", "tuning"}
    /\ kind = "none" <=> pc \notin {"start", "draw", "busy"}
    /\ mixed => \/ pendingFull \/ Panel = "slow"
                \/ pc \in {"start", "busy"} /\ kind = "full"
    /\ pc = "draw" => kind = "partial"
    /\ pc = "busy" => kind = "full"
    /\ kind = "partial" => Panel # "slow"
    /\ pc \in {"start", "draw", "busy"} /\ Panel # "slow" => ~pendingFull

\* _last_red_buffer is the red on the glass, or unknown after an interruption;
\* the frame of a partial has that red.
RedKept ==
    Panel = "color" =>
        /\ IF lastRed = NoRed THEN glass.red = 0 \/ mixed ELSE lastRed = glass.red
        /\ kind = "partial" => Head(batch).red = glass.red

LEMMA HeadOfBatch ==
  ASSUME TypeOK, InOrder, pc \in {"route", "start", "draw", "busy"}
  PROVE  /\ batch # <<>> /\ Head(batch) \in Frames /\ Head(batch).red \in Reds
         /\ Head(batch).n \in Nat /\ Head(batch).red # NoRed
  <1>1. batch # <<>> /\ batch \in Seq(Frames)  BY DEF InOrder, TypeOK
  <1>2. Head(batch) \in Frames  BY <1>1, TailElements
  <1>3. Head(batch).red \in Reds /\ Head(batch).n \in Nat
    BY <1>2, FieldsOfFrame, ContentsAreNat
  <1>4. -1 \notin Reds  BY RedsAssumption
  <1> QED  BY <1>1, <1>2, <1>3, <1>4 DEF NoRed

LEMMA RedsAreKept ==
  ASSUME "stop" \notin Events, "error" \notin Events
  PROVE  TypeOK /\ InOrder /\ AbortKept /\ RedKept /\ [Next]_vars => AbortKept' /\ RedKept'
  <1> SUFFICES ASSUME TypeOK, InOrder, AbortKept, RedKept, [Next]_vars
               PROVE  AbortKept' /\ RedKept'
    OBVIOUS
  <1> USE DEF renderVars, flagVars, panelVars
  <1>1. CASE BeginBatch
    <2>1. /\ pc = "collect" /\ pc' \in {"collect", "route"} /\ kind' = "none"
          /\ UNCHANGED <<stop, owner, pendingFull, mixed, lastRed, glass>>
      BY <1>1 DEF BeginBatch, Advance
    <2> QED  BY <2>1 DEF AbortKept, RedKept
  <1>2. CASE Take
    <2>1. /\ pc = "collect" /\ kind = "none"
          /\ UNCHANGED <<pc, kind, stop, owner, pendingFull, mixed, lastRed, glass>>
      BY <1>2 DEF Take, AbortKept
    <2> QED  BY <2>1 DEF AbortKept, RedKept
  <1>3. CASE Route
    <2>1. /\ pc = "route" /\ pc' = "start" /\ batch' = batch
          /\ UNCHANGED <<stop, owner, mixed, lastRed, glass>>
          /\ kind' = IF NeedsFull(Head(batch)) THEN "full" ELSE "partial"
          /\ pendingFull' = IF Panel = "slow" THEN pendingFull ELSE FALSE
      BY <1>3 DEF Route
    <2>2. mixed => pendingFull \/ Panel = "slow"
      BY <2>1 DEF AbortKept
    <2>3. AbortKept'
      <3>1. CASE NeedsFull(Head(batch))
        <4>1. kind' = "full"
          BY <2>1, <3>1
        <4>2. Panel # "slow" => ~pendingFull'
          BY <2>1
        <4>3. ~stop' /\ owner' \in {"run", "clearing", "tuning"}
          BY <2>1 DEF AbortKept
        <4> QED  BY <2>1, <4>1, <4>2, <4>3 DEF AbortKept
      <3>2. CASE ~NeedsFull(Head(batch))
        <4>1. kind' = "partial" /\ Panel # "slow" /\ ~pendingFull /\ ~pendingFull'
          BY <2>1, <3>2 DEF NeedsFull
        <4>2. ~stop' /\ owner' \in {"run", "clearing", "tuning"} /\ ~mixed'
          BY <2>1, <2>2, <4>1 DEF AbortKept
        <4> QED  BY <2>1, <4>1, <4>2 DEF AbortKept
      <3> QED  BY <3>1, <3>2
    <2>4. ASSUME Panel = "color", kind' = "partial"
          PROVE  Head(batch).red = glass.red
      <3>1. ~pendingFull /\ ~RedChanged(Head(batch).red)
        BY <2>1, <2>4 DEF NeedsFull
      <3>2. ~mixed
        BY <2>2, <2>4, <3>1
      <3>3. IF lastRed = NoRed THEN Head(batch).red = 0 ELSE Head(batch).red = lastRed
        BY <3>1 DEF RedChanged
      <3> QED  BY <2>4, <3>2, <3>3 DEF RedKept
    <2>5. RedKept'
      BY <2>1, <2>4 DEF RedKept
    <2> QED  BY <2>3, <2>5
  <1>4. CASE Start
    <2>1. /\ pc = "start" /\ pc' = IF kind = "full" THEN "busy" ELSE "draw"
          /\ UNCHANGED <<batch, kind, stop, owner, pendingFull, mixed, lastRed, glass>>
      BY <1>4 DEF Start
    <2>2. kind \in {"partial", "full"}
      BY <2>1 DEF TypeOK, AbortKept
    <2>3. AbortKept'
      BY <2>1, <2>2 DEF AbortKept
    <2>4. RedKept'
      BY <2>1 DEF RedKept
    <2> QED  BY <2>3, <2>4
  <1>5. CASE DrawPartial
    <2>1. /\ pc = "draw" /\ pc' \in {"collect", "route"} /\ kind' = "none"
          /\ glass'.red = glass.red /\ RecordRed
          /\ UNCHANGED <<stop, owner, pendingFull, mixed>>
      BY <1>5 DEF DrawPartial, Advance
    <2>2. ~mixed /\ kind = "partial"
      BY <2>1 DEF AbortKept
    <2>3. AbortKept'
      BY <2>1, <2>2 DEF AbortKept
    <2>4. Panel = "color" => lastRed' = glass'.red /\ lastRed' # NoRed
      BY <2>1, <2>2, HeadOfBatch DEF RecordRed, RedKept
    <2>5. RedKept'
      BY <2>1, <2>4 DEF RedKept
    <2> QED  BY <2>3, <2>5
  <1>6. CASE FinishFull
    <2>1. /\ pc = "busy" /\ pc' \in {"collect", "route"} /\ kind' = "none"
          /\ glass' = [n |-> Head(batch).n, red |-> Head(batch).red] /\ RecordRed
          /\ mixed' = FALSE /\ UNCHANGED <<stop, owner, pendingFull>>
      BY <1>6 DEF FinishFull, Advance
    <2>2. AbortKept'
      BY <2>1 DEF AbortKept
    <2>3. Panel = "color" => lastRed' = glass'.red /\ lastRed' # NoRed
      BY <2>1, HeadOfBatch DEF RecordRed
    <2>4. RedKept'
      BY <2>1, <2>3 DEF RedKept
    <2> QED  BY <2>2, <2>4
  <1>7. CASE AbortFull
    <2>1. /\ pc = "busy" /\ pc' \in {"collect", "route"} /\ kind' = "none"
          /\ mixed' = TRUE /\ pendingFull' = TRUE
          /\ lastRed' = IF Panel = "color" THEN NoRed ELSE lastRed
          /\ UNCHANGED <<stop, owner>>
      BY <1>7 DEF AbortFull, Advance
    <2> QED  BY <2>1 DEF AbortKept, RedKept
  <1>8. CASE \/ Exit \/ SkipStopped \/ StartStopped \/ DrawStopped \/ Fail
             \/ StopSet \/ StopDrain \/ StopJoin \/ Release \/ Reacquire
    BY <1>8 DEF Exit, SkipStopped, StartStopped, DrawStopped, Fail, StopSet, StopDrain,
                StopJoin, Release, Reacquire, AbortKept
  <1>9. CASE \/ IdleSleep \/ Submit \/ Tick \/ Clear \/ Reinit
             \/ (\E full \in BOOLEAN, red \in Reds: Render(full, red))
             \/ (\E red \in Reds: NewScreen(red)) \/ UNCHANGED vars
    <2>1. /\ UNCHANGED <<batch, pc, kind, stop, pendingFull, mixed, lastRed, glass>>
          /\ owner' \in {owner, "run", "clearing", "tuning"}
      BY <1>9 DEF IdleSleep, Submit, Tick, Clear, Reinit, Render, NewScreen, vars
    <2> QED  BY <2>1 DEF AbortKept, RedKept
  <1> QED
    BY <1>1, <1>2, <1>3, <1>4, <1>5, <1>6, <1>7, <1>8, <1>9 DEF Next, Scheduler, Owner

LEMMA RedsFromTheStart ==
  ASSUME "stop" \notin Events, "error" \notin Events
  PROVE  Spec => [](TypeOK /\ InOrder /\ AbortKept /\ RedKept)
  <1>1. Init => AbortKept /\ RedKept
    BY DEF Init, AbortKept, RedKept, NoRed
  <1> QED  BY <1>1, InitHolds, StepHolds, RedsAreKept, PTL DEF Spec

\* Unless the driver raises or the hardware is handed over, no partial is drawn
\* over planes that an aborted refresh left half written, on any panel and
\* however often the full refresh that makes up for it is aborted itself.
THEOREM PartialsAreClean ==
  ASSUME "stop" \notin Events, "error" \notin Events
  PROVE  Spec => []NoPartialOverAborted
  <1>1. AbortKept => NoPartialOverAborted
    BY DEF AbortKept, NoPartialOverAborted
  <1> QED  BY <1>1, RedsFromTheStart, PTL

\* Under the same conditions a partial on a three-color panel finds the red of
\* its frame on the glass: _last_red_buffer never says more than was shown.
THEOREM RedIsAlwaysShown ==
  ASSUME "stop" \notin Events, "error" \notin Events
  PROVE  Spec => []RedIsShown
  <1>1. AbortKept /\ RedKept => RedIsShown
    BY DEF AbortKept, RedKept, RedIsShown
  <1> QED  BY <1>1, RedsFromTheStart, PTL

-----------------------------------------------------------------------------
\* Whenever the panel sleeps or is closed behind the scheduler's back, a flag
\* makes the next refresh initialise it; and it is closed only once the
\* scheduler thread is dead.
Awake ==
    /\ power # "on" /\ ~stop => asleep \/ forceReinit
    /\ pc \in {"draw", "busy"} => power = "on"
    /\ owner \in {"joined", "released"} => pc = "dead"
    /\ pc = "dead" => stop

LEMMA AwakeHolds ==
  ASSUME "error" \notin Events, "noinit" \notin Events, "timeout" \notin Events
  PROVE  TypeOK /\ Awake /\ [Next]_vars => Awake'
  <1> SUFFICES ASSUME TypeOK, Awake, [Next]_vars PROVE Awake'
    OBVIOUS
  <1> USE DEF renderVars, flagVars, panelVars
  <1>1. CASE Take \/ BeginBatch
    <2>1. /\ pc = "collect" /\ pc' \in {"collect", "route"}
          /\ UNCHANGED <<stop, asleep, forceReinit, power, owner>>
      BY <1>1 DEF Take, BeginBatch, Advance
    <2> QED  BY <2>1 DEF Awake
  <1>2. CASE Exit
    <2>1. /\ pc = "collect" /\ pc' = "dead" /\ stop
          /\ UNCHANGED <<stop, asleep, forceReinit, power, owner>>
      BY <1>2 DEF Exit
    <2> QED  BY <2>1 DEF Awake
  <1>3. CASE Route
    <2>1. /\ pc = "route" /\ pc' = "start"
          /\ UNCHANGED <<stop, asleep, forceReinit, power, owner>>
      BY <1>3 DEF Route
    <2> QED  BY <2>1 DEF Awake
  <1>4. CASE Start
    <2>1. /\ pc = "start" /\ ~stop /\ pc' \in {"draw", "busy"}
          /\ UNCHANGED <<stop, owner>>
      BY <1>4 DEF Start
    <2>2. power' = "on"
      <3>1. CASE NeedsInit
        BY <1>4, <3>1 DEF Start
      <3>2. CASE ~NeedsInit
        <4>1. ~asleep /\ ~forceReinit /\ power' = power
          BY <1>4, <3>2 DEF Start, NeedsInit
        <4> QED  BY <2>1, <4>1 DEF Awake
      <3> QED  BY <3>1, <3>2
    <2> QED  BY <2>1, <2>2 DEF Awake
  <1>5. CASE SkipStopped \/ StartStopped \/ DrawStopped
    <2>1. /\ stop /\ pc \in {"route", "start", "draw"} /\ pc' \in {"collect", "route"}
          /\ UNCHANGED <<stop, power, owner>>
      BY <1>5 DEF SkipStopped, StartStopped, DrawStopped, Advance
    <2> QED  BY <2>1 DEF Awake
  <1>6. CASE DrawPartial \/ FinishFull \/ AbortFull
    <2>1. /\ pc \in {"draw", "busy"} /\ pc' \in {"collect", "route"}
          /\ UNCHANGED <<stop, power, owner>>
      BY <1>6 DEF DrawPartial, FinishFull, AbortFull, Advance
    <2> QED  BY <2>1 DEF Awake
  <1>7. CASE IdleSleep
    <2>1. pc = "collect" /\ asleep' /\ UNCHANGED <<pc, stop, owner>>
      BY <1>7 DEF IdleSleep
    <2> QED  BY <2>1 DEF Awake
  <1>8. CASE StopSet
    <2>1. stop' = TRUE /\ owner' = "stopping" /\ UNCHANGED <<pc, power>>
      BY <1>8 DEF StopSet
    <2> QED  BY <2>1 DEF Awake
  <1>9. CASE StopJoin \/ Release
    <2>1. pc = "dead" /\ UNCHANGED <<pc, stop>>
      BY <1>9 DEF StopJoin, Release, Awake
    <2> QED  BY <2>1 DEF Awake
  <1>10. CASE Reacquire
    <2>1. /\ pc = "dead" /\ pc' = "collect" /\ owner' = "run" /\ forceReinit'
      BY <1>10 DEF Reacquire, Awake
    <2> QED  BY <2>1 DEF Awake
  <1>11. CASE Reinit
    <2>1. forceReinit' /\ owner' = "tuning" /\ UNCHANGED <<pc, stop, power>>
      BY <1>11 DEF Reinit
    <2> QED  BY <2>1 DEF Awake
  <1>12. CASE \/ Submit \/ Tick \/ Clear
              \/ (\E full \in BOOLEAN, red \in Reds: Render(full, red))
              \/ (\E red \in Reds: NewScreen(red)) \/ UNCHANGED vars
    <2>1. /\ UNCHANGED <<pc, stop, asleep, forceReinit, power>>
          /\ owner' \in {owner, "run", "clearing"}
      BY <1>12 DEF Submit, Tick, Clear, Render, NewScreen, vars
    <2> QED  BY <2>1 DEF Awake
  <1>13. ~Fail
    BY DEF Fail
  <1>14. CASE StopDrain
    <2>1. owner' = "joining" /\ UNCHANGED <<pc, stop, asleep, forceReinit, power>>
      BY <1>14 DEF StopDrain
    <2> QED  BY <2>1 DEF Awake
  <1> QED
    BY <1>1, <1>2, <1>3, <1>4, <1>5, <1>6, <1>7, <1>8, <1>9, <1>10, <1>11, <1>12, <1>13, <1>14
    DEF Next, Scheduler, Owner

\* Unless the driver raises or the thread outlives its join, the panel is awake
\* and open whenever it is driven, on every panel, through sleep, changes of
\* mode, aborted refreshes, changed waveforms and hand-overs of the hardware.
THEOREM PanelIsAwake ==
  ASSUME "error" \notin Events, "noinit" \notin Events, "timeout" \notin Events
  PROVE  Spec => []AwakeWhenDriven
  <1>1. Init => Awake
    BY DEF Init, Awake
  <1>2. Awake => AwakeWhenDriven
    BY DEF Awake, AwakeWhenDriven
  <1> QED  BY <1>1, <1>2, AwakeHolds, InitHolds, StepHolds, PTL DEF Spec

-----------------------------------------------------------------------------
\* A frame of the queue asks for a full refresh of content o or later, and those
\* before it are older; all frames of the queue are older than o; none is.
FullIn(q, o) == \E i \in 1..Len(q): /\ q[i].full /\ q[i].n >= o
                                    /\ \A j \in 1..(i - 1): q[j].n < o
AllBefore(q, o) == \A i \in 1..Len(q): q[i].n < o
AllFrom(q, o) == \A i \in 1..Len(q): q[i].n >= o

\* No frame that asks for a full refresh is evicted from a full queue.
NoRequestEvicted == Rendering /\ Len(queue) = QueueMax => ~Head(queue).full

\* Where the last full request is kept: in the batch, in the queue, in
\* _pending_full_after_interrupt, in the refresh under way; or the thread is
\* about to stop.
Carried(o) ==
    \/ FullIn(batch, o)
    \/ AllBefore(batch, o) /\ FullIn(queue, o)
    \/ pendingFull /\ AllFrom(batch, o) /\ AllFrom(queue, o)
    \/ pc \in {"start", "busy"} /\ kind = "full" /\ Head(batch).n >= o
    \/ stop /\ owner # "released"

RequestKept ==
    /\ owed # 0 => Carried(owed)
    /\ owed <= submitted
    /\ kind = "partial" /\ owed # 0 => Head(batch).n < owed \/ (stop /\ pc # "draw")
    /\ inflight.full => inflight.n = submitted + 1
    /\ kind = "none" <=> pc \notin {"start", "draw", "busy"}
    /\ pc = "draw" => kind = "partial"
    /\ pc = "busy" => kind = "full"
    /\ owner \in {"joined", "released"} => pc = "dead"
    /\ pc = "dead" => stop /\ batch = <<>>
    /\ stop <=> owner \in {"stopping", "joining", "joined", "released"}

\* A request outlives the first frame of its queue, unless that is the one.
LEMMA FullTail ==
  ASSUME NEW q \in Seq(Frames), q # <<>>, NEW o \in Nat, FullIn(q, o),
         ~Head(q).full \/ Head(q).n < o
  PROVE  FullIn(Tail(q), o)
  <1> DEFINE t == Tail(q)
  <1>1. /\ Head(q) = q[1] /\ Len(q) \in Nat \ {0} /\ Len(t) = Len(q) - 1
        /\ \A i \in 1..Len(t): t[i] = q[i + 1]
    BY TailElements
  <1> HIDE DEF t
  <1>2. PICK i \in 1..Len(q): /\ q[i].full /\ q[i].n >= o
                              /\ \A j \in 1..(i - 1): q[j].n < o
    BY DEF FullIn
  <1>3. 1 \in 1..Len(q) /\ q[1].n \in Nat
    BY <1>1, NumbersOf
  <1>4. i # 1
    <2>1. CASE ~q[1].full
      BY <1>2, <2>1
    <2>2. CASE q[1].n < o
      BY <1>2, <1>3, <2>2
    <2> QED  BY <1>1, <2>1, <2>2
  <1>5. i - 1 \in 1..Len(t) /\ (i - 1) + 1 = i
    BY <1>1, <1>4
  <1>6. t[i - 1] = q[i]
    BY <1>1, <1>5
  <1>7. ASSUME NEW j \in 1..((i - 1) - 1)
        PROVE  t[j].n < o
    <2>1. j \in 1..Len(t) /\ j + 1 \in 1..(i - 1)
      BY <1>1, <1>5
    <2> QED  BY <1>1, <1>2, <2>1
  <1>8. FullIn(t, o)
    BY <1>2, <1>5, <1>6, <1>7 DEF FullIn
  <1> QED  BY <1>8 DEF t

LEMMA TailBounds ==
  ASSUME NEW q \in Seq(Frames), q # <<>>, NEW o \in Nat
  PROVE  /\ AllBefore(q, o) => AllBefore(Tail(q), o)
         /\ AllFrom(q, o) => AllFrom(Tail(q), o)
  <1> DEFINE t == Tail(q)
  <1>1. /\ Len(q) \in Nat \ {0} /\ Len(t) = Len(q) - 1
        /\ \A i \in 1..Len(t): t[i] = q[i + 1]
    BY TailElements
  <1>2. \A i \in 1..Len(t): i + 1 \in 1..Len(q)
    BY <1>1
  <1> HIDE DEF t
  <1>3. AllBefore(q, o) => AllBefore(t, o)
    BY <1>1, <1>2 DEF AllBefore
  <1>4. AllFrom(q, o) => AllFrom(t, o)
    BY <1>1, <1>2 DEF AllFrom
  <1> QED  BY <1>3, <1>4 DEF t

\* What a frame at the end of a queue adds.
LEMMA AppendKeeps ==
  ASSUME NEW q \in Seq(Frames), NEW f \in Frames, NEW o \in Nat
  PROVE  /\ FullIn(q, o) => FullIn(Append(q, f), o)
         /\ AllBefore(q, o) /\ f.full /\ f.n >= o => FullIn(Append(q, f), o)
         /\ AllBefore(q, o) /\ f.n < o => AllBefore(Append(q, f), o)
         /\ AllFrom(q, o) /\ f.n >= o => AllFrom(Append(q, f), o)
  <1> DEFINE a == Append(q, f)
  <1>1. /\ Len(q) \in Nat /\ Len(a) = Len(q) + 1 /\ a[Len(q) + 1] = f
        /\ \A i \in 1..Len(q): a[i] = q[i]
    OBVIOUS
  <1> HIDE DEF a
  <1>2. \A i \in 1..Len(a): i = Len(q) + 1 \/ i \in 1..Len(q)
    BY <1>1
  <1>3. ASSUME FullIn(q, o)
        PROVE  FullIn(a, o)
    <2>1. PICK i \in 1..Len(q): /\ q[i].full /\ q[i].n >= o
                                /\ \A j \in 1..(i - 1): q[j].n < o
      BY <1>3 DEF FullIn
    <2>2. i \in 1..Len(a) /\ \A j \in 1..(i - 1): j \in 1..Len(q)
      BY <1>1
    <2>3. a[i] = q[i] /\ \A j \in 1..(i - 1): a[j] = q[j]
      BY <1>1, <2>2
    <2> QED  BY <2>1, <2>2, <2>3 DEF FullIn
  <1>4. ASSUME AllBefore(q, o), f.full, f.n >= o
        PROVE  FullIn(a, o)
    <2>1. Len(q) + 1 \in 1..Len(a) /\ (Len(q) + 1) - 1 = Len(q)
      BY <1>1
    <2>2. \A j \in 1..((Len(q) + 1) - 1): a[j].n < o
      BY <1>1, <1>4, <2>1 DEF AllBefore
    <2> QED  BY <1>1, <1>4, <2>1, <2>2 DEF FullIn
  <1>5. AllBefore(q, o) /\ f.n < o => AllBefore(a, o)
    BY <1>1, <1>2 DEF AllBefore
  <1>6. AllFrom(q, o) /\ f.n >= o => AllFrom(a, o)
    BY <1>1, <1>2 DEF AllFrom
  <1> QED  BY <1>3, <1>4, <1>5, <1>6 DEF a

\* Coalescing keeps a request, since the last frame is the newest.
LEMMA CoalescedKeeps ==
  ASSUME NEW b \in Seq(Frames), b # <<>>, Sorted(b), NEW o \in Nat
  PROVE  /\ FullIn(b, o) => FullIn(Coalesced(b), o)
         /\ AllBefore(b, o) => AllBefore(Coalesced(b), o)
         /\ AllFrom(b, o) => AllFrom(Coalesced(b), o)
  <1> DEFINE l == b[Len(b)]
             g == [l EXCEPT !.full = AnyFull(b)]
             c == Coalesced(b)
  <1>1. Len(b) \in 1..Len(b) /\ l \in Frames
    OBVIOUS
  <1>2. g.n = l.n /\ g.full = AnyFull(b)
    BY <1>1 DEF Frames
  <1>3. c = <<g>>
    BY DEF Coalesced
  <1> HIDE DEF g, c, l
  <1>4. Len(c) = 1 /\ c[1] = g /\ \A i \in 1..Len(c): i = 1
    BY <1>3
  <1>5. ASSUME FullIn(b, o)
        PROVE  FullIn(c, o)
    <2>1. PICK i \in 1..Len(b): b[i].full /\ b[i].n >= o
      BY <1>5 DEF FullIn
    <2>2. AnyFull(b)
      BY <2>1 DEF AnyFull
    <2>3. i <= Len(b)
      OBVIOUS
    <2>4. b[i].n <= l.n /\ b[i].n \in Nat /\ l.n \in Nat
      BY <1>1, <2>3, NumbersOf DEF Sorted, l
    <2>5. l.n >= o
      BY <2>1, <2>4
    <2>6. 1 \in 1..Len(c) /\ \A j \in 1..(1 - 1): c[j].n < o
      BY <1>4
    <2> QED  BY <1>2, <1>4, <2>2, <2>5, <2>6 DEF FullIn
  <1>6. AllBefore(b, o) => AllBefore(c, o)
    BY <1>1, <1>2, <1>4 DEF AllBefore, l
  <1>7. AllFrom(b, o) => AllFrom(c, o)
    BY <1>1, <1>2, <1>4 DEF AllFrom, l
  <1> QED  BY <1>5, <1>6, <1>7 DEF c

\* A frame that joins the queue evicts no request.
LEMMA EnqueueKeeps ==
  ASSUME NEW q \in Seq(Frames), Len(q) <= QueueMax, NEW f \in Frames, NEW o \in Nat,
         Len(q) = QueueMax => ~Head(q).full
  PROVE  /\ FullIn(q, o) => FullIn(Enqueue(q, f), o)
         /\ AllBefore(q, o) /\ f.full /\ f.n >= o => FullIn(Enqueue(q, f), o)
         /\ AllFrom(q, o) /\ f.n >= o => AllFrom(Enqueue(q, f), o)
  <1>1. CASE Len(q) >= QueueMax
    <2>1. q # <<>> /\ ~Head(q).full /\ Enqueue(q, f) = Append(Tail(q), f)
      BY <1>1, QueueMaxAssumption DEF Enqueue
    <2>2. Tail(q) \in Seq(Frames)
      BY <2>1, TailElements
    <2>3. /\ FullIn(q, o) => FullIn(Tail(q), o)
          /\ AllBefore(q, o) => AllBefore(Tail(q), o)
          /\ AllFrom(q, o) => AllFrom(Tail(q), o)
      BY <2>1, FullTail, TailBounds
    <2> QED  BY <2>1, <2>2, <2>3, AppendKeeps
  <1>2. CASE ~(Len(q) >= QueueMax)
    <2>1. Enqueue(q, f) = Append(q, f)
      BY <1>2 DEF Enqueue
    <2> QED  BY <2>1, AppendKeeps
  <1> QED  BY <1>1, <1>2

\* The first frame of a queue that holds a request is older, or is the request.
LEMMA FirstFrame ==
  ASSUME NEW q \in Seq(Frames), q # <<>>
  PROVE  /\ Head(q) \in Frames /\ Head(q).n \in Nat
         /\ Head(q) = q[1] /\ 1 \in 1..Len(q) /\ \A i \in 1..Len(q): 1 <= i
         /\ \A o \in Nat: FullIn(q, o) => \/ Head(q).n < o
                                          \/ Head(q).full /\ Head(q).n >= o
  <1>1. Head(q) \in Frames /\ Head(q) = q[1] /\ Len(q) \in Nat \ {0}
    BY TailElements
  <1>2. Head(q).n \in Nat
    BY <1>1, FieldsOfFrame, ContentsAreNat
  <1>3. 1 \in 1..Len(q) /\ \A i \in 1..Len(q): 1 <= i
    BY <1>1
  <1>4. ASSUME NEW o \in Nat, FullIn(q, o)
        PROVE  q[1].n < o \/ (q[1].full /\ q[1].n >= o)
    <2>1. PICK i \in 1..Len(q): /\ q[i].full /\ q[i].n >= o
                                /\ \A j \in 1..(i - 1): q[j].n < o
      BY <1>4 DEF FullIn
    <2>2. CASE i = 1
      BY <2>1, <2>2
    <2>3. CASE i # 1
      <3>1. 1 \in 1..(i - 1)
        BY <2>3
      <3> QED  BY <2>1, <3>1
    <2> QED  BY <2>2, <2>3
  <1> QED  BY <1>1, <1>2, <1>3, <1>4

LEMMA RequestsAreKept ==
  ASSUME "error" \notin Events, "timeout" \notin Events
  PROVE  TypeOK /\ InOrder /\ NoRequestEvicted /\ RequestKept /\ [Next]_vars => RequestKept'
  <1> SUFFICES ASSUME TypeOK, InOrder, NoRequestEvicted, RequestKept, [Next]_vars
               PROVE  RequestKept'
    OBVIOUS
  <1> USE DEF renderVars, flagVars, panelVars
  <1>t. /\ batch \in Seq(Frames) /\ queue \in Seq(Frames) /\ Len(queue) <= QueueMax
        /\ owed \in Nat /\ submitted \in Nat /\ glass.n \in Nat
    BY Numbers, ContentsAreNat DEF TypeOK
  <1>o. /\ Sorted(batch) /\ Sorted(queue) /\ Below(batch, queue)
        /\ Within(batch, glass.n, submitted) /\ Within(queue, glass.n, submitted)
    BY DEF InOrder
  <1>r. owed # 0 => Carried(owed)
    BY DEF RequestKept
  \* the batch loses its first frame, which is older than the request
  <1>a. ASSUME batch # <<>>, owed # 0, batch' = Tail(batch), Head(batch).n < owed,
               UNCHANGED <<queue, owed, pendingFull, stop, owner>>
        PROVE  Carried(owed)'
    <2>1. CASE FullIn(batch, owed)
      <3>1. FullIn(Tail(batch), owed)
        BY <1>a, <1>t, <2>1, FullTail
      <3> QED  BY <1>a, <3>1 DEF Carried
    <2>2. CASE AllBefore(batch, owed) /\ FullIn(queue, owed)
      <3>1. AllBefore(Tail(batch), owed)
        BY <1>a, <1>t, <2>2, TailBounds
      <3> QED  BY <1>a, <2>2, <3>1 DEF Carried
    <2>3. CASE pendingFull /\ AllFrom(batch, owed) /\ AllFrom(queue, owed)
      <3>1. AllFrom(Tail(batch), owed)
        BY <1>a, <1>t, <2>3, TailBounds
      <3> QED  BY <1>a, <2>3, <3>1, Zenon DEF Carried
    <2>4. CASE stop /\ owner # "released"
      BY <1>a, <2>4, Zenon DEF Carried
    <2>5. ~(Head(batch).n >= owed)
      <3>1. Head(batch).n \in Nat
        BY <1>a, <1>t, TailElements, FieldsOfFrame, ContentsAreNat
      <3> QED  BY <1>a, <1>t, <3>1
    <2> QED  BY <1>a, <1>r, <2>1, <2>2, <2>3, <2>4, <2>5 DEF Carried
  <1>1. CASE Take
    <2>1. /\ pc = "collect" /\ queue # <<>> /\ kind = "none"
          /\ batch' = Append(batch, Head(queue)) /\ queue' = Tail(queue)
          /\ UNCHANGED <<inflight, pc, kind, stop, pendingFull, owner, submitted, owed>>
      BY <1>1 DEF Take, RequestKept
    <2>2. /\ Head(queue) \in Frames /\ Head(queue) = queue[1] /\ 1 \in 1..Len(queue)
          /\ Head(queue).n \in Nat
      BY <1>t, <2>1, FirstFrame
    <2>3. ASSUME owed # 0
          PROVE  Carried(owed)'
      <3>1. CASE FullIn(batch, owed)
        <4>1. FullIn(batch', owed)
          BY <1>t, <2>1, <2>2, <3>1, AppendKeeps
        <4> QED  BY <2>1, <4>1 DEF Carried
      <3>2. CASE AllBefore(batch, owed) /\ FullIn(queue, owed)
        <4>1. CASE Head(queue).full /\ Head(queue).n >= owed
          <5>1. FullIn(batch', owed)
            BY <1>t, <2>1, <2>2, <3>2, <4>1, AppendKeeps
          <5> QED  BY <2>1, <5>1 DEF Carried
        <4>2. CASE Head(queue).n < owed
          <5>1. AllBefore(batch', owed) /\ FullIn(queue', owed)
            BY <1>t, <2>1, <2>2, <3>2, <4>2, AppendKeeps, FullTail
          <5> QED  BY <2>1, <5>1 DEF Carried
        <4>3. Head(queue).n < owed \/ (Head(queue).full /\ Head(queue).n >= owed)
          BY <1>t, <2>1, <3>2, FirstFrame
        <4> QED  BY <4>1, <4>2, <4>3
      <3>3. CASE pendingFull /\ AllFrom(batch, owed) /\ AllFrom(queue, owed)
        <4>1. Head(queue).n >= owed
          BY <2>2, <3>3 DEF AllFrom
        <4>2. AllFrom(batch', owed) /\ AllFrom(queue', owed)
          BY <1>t, <2>1, <2>2, <3>3, <4>1, AppendKeeps, TailBounds
        <4>3. pendingFull'
          BY <2>1, <3>3
        <4> QED  BY <2>1, <4>2, <4>3, Zenon DEF Carried
      <3>4. CASE stop /\ owner # "released"
        BY <2>1, <3>4, Zenon DEF Carried
      <3> QED  BY <1>r, <2>1, <2>3, <3>1, <3>2, <3>3, <3>4 DEF Carried
    <2>4. owed' # 0 => Carried(owed)'
      BY <2>1, <2>3
    <2> QED  BY <2>1, <2>4 DEF RequestKept
  <1>2. CASE BeginBatch
    <2>1. /\ pc = "collect" /\ batch # <<>> /\ kind = "none"
          /\ pc' \in {"collect", "route"} /\ kind' = "none"
          /\ batch' = IF stop THEN <<>>
                      ELSE IF Panel # "mono" \/ BatchUpdates THEN Coalesced(batch)
                      ELSE batch
          /\ UNCHANGED <<inflight, queue, stop, pendingFull, owner, submitted, owed>>
      BY <1>2 DEF BeginBatch, Advance, RequestKept
    <2>2. ASSUME owed # 0
          PROVE  Carried(owed)'
      <3>1. CASE stop
        <4>1. owner # "released" /\ owner' = owner
          BY <2>1 DEF RequestKept
        <4> QED  BY <2>1, <3>1, <4>1, Zenon DEF Carried
      <3>2. CASE ~stop
        <4>1. /\ FullIn(batch, owed) => FullIn(batch', owed)
              /\ AllBefore(batch, owed) => AllBefore(batch', owed)
              /\ AllFrom(batch, owed) => AllFrom(batch', owed)
          <5>1. CASE batch' = batch
            BY <5>1
          <5>2. CASE batch' = Coalesced(batch)
            BY <1>t, <1>o, <2>1, <5>2, CoalescedKeeps
          <5> QED  BY <2>1, <3>2, <5>1, <5>2
        <4>2. \/ FullIn(batch, owed)
              \/ AllBefore(batch, owed) /\ FullIn(queue, owed)
              \/ pendingFull /\ AllFrom(batch, owed) /\ AllFrom(queue, owed)
          BY <1>r, <2>1, <2>2, <3>2 DEF Carried
        <4>3. CASE FullIn(batch, owed) \/ (AllBefore(batch, owed) /\ FullIn(queue, owed))
          BY <2>1, <4>1, <4>3 DEF Carried
        <4>4. CASE pendingFull /\ AllFrom(batch, owed) /\ AllFrom(queue, owed)
          <5>1. /\ pendingFull' /\ AllFrom(batch', owed) /\ AllFrom(queue', owed)
                /\ owed' = owed
            BY <2>1, <4>1, <4>4
          <5> QED  BY <5>1, Zenon DEF Carried
        <4> QED  BY <4>2, <4>3, <4>4
      <3> QED  BY <3>1, <3>2
    <2>3. owed' # 0 => Carried(owed)'
      BY <2>1, <2>2
    <2> QED  BY <2>1, <2>3 DEF RequestKept
  <1>3. CASE Route
    <2>1. /\ pc = "route" /\ pc' = "start" /\ kind = "none" /\ batch # <<>>
          /\ kind' = IF NeedsFull(Head(batch)) THEN "full" ELSE "partial"
          /\ pendingFull' = IF Panel = "slow" THEN pendingFull ELSE FALSE
          /\ UNCHANGED <<inflight, queue, batch, stop, owner, submitted, owed>>
      BY <1>3 DEF Route, RequestKept, InOrder
    <2>2. Head(batch) = batch[1] /\ 1 \in 1..Len(batch) /\ Head(batch).n \in Nat
      BY <1>t, <2>1, FirstFrame
    <2>3. ASSUME owed # 0
          PROVE  /\ Carried(owed)'
                 /\ kind' = "partial" => Head(batch).n < owed \/ stop
      <3>1. CASE FullIn(batch, owed)
        <4>1. Head(batch).full \/ Head(batch).n < owed
          BY <1>t, <2>1, <3>1, FirstFrame
        <4>2. kind' = "partial" => Head(batch).n < owed
          BY <2>1, <4>1 DEF NeedsFull
        <4> QED  BY <2>1, <3>1, <4>2 DEF Carried
      <3>2. CASE AllBefore(batch, owed) /\ FullIn(queue, owed)
        BY <2>1, <2>2, <3>2 DEF Carried, AllBefore
      <3>3. CASE pendingFull /\ AllFrom(batch, owed) /\ AllFrom(queue, owed)
        <4>1. kind' = "full"
          BY <2>1, <3>3 DEF NeedsFull
        <4>2. Head(batch).n >= owed
          BY <2>2, <3>3 DEF AllFrom
        <4> QED  BY <2>1, <4>1, <4>2 DEF Carried
      <3>4. CASE stop /\ owner # "released"
        <4>1. stop' /\ owner' # "released"
          BY <2>1, <3>4
        <4> QED  BY <3>4, <4>1, Zenon DEF Carried
      <3> QED  BY <1>r, <2>1, <2>3, <3>1, <3>2, <3>3, <3>4 DEF Carried
    <2>4. kind' \in {"full", "partial"}
      BY <2>1
    <2>5. /\ owed' # 0 => Carried(owed)'
          /\ kind' = "partial" /\ owed' # 0 => Head(batch').n < owed' \/ (stop' /\ pc' # "draw")
      BY <2>1, <2>3
    <2> QED  BY <2>1, <2>4, <2>5 DEF RequestKept
  <1>4. CASE Start
    <2>1. /\ pc = "start" /\ ~stop /\ pc' = IF kind = "full" THEN "busy" ELSE "draw"
          /\ UNCHANGED <<inflight, queue, batch, kind, stop, pendingFull, owner,
                         submitted, owed>>
      BY <1>4 DEF Start
    <2>2. kind \in {"partial", "full"}
      BY <2>1 DEF TypeOK, RequestKept
    <2>3. owed' # 0 => Carried(owed)'
      BY <1>r, <2>1 DEF Carried
    <2>4. kind' = "partial" /\ owed' # 0 => Head(batch').n < owed'
      BY <2>1 DEF RequestKept
    <2> QED  BY <2>1, <2>2, <2>3, <2>4 DEF RequestKept
  <1>5. CASE SkipStopped \/ StartStopped \/ DrawStopped
    <2>1. /\ stop /\ pc \in {"route", "start", "draw"} /\ pc' \in {"collect", "route"}
          /\ kind' = "none"
          /\ UNCHANGED <<inflight, queue, stop, owner, submitted, owed>>
      BY <1>5 DEF SkipStopped, StartStopped, DrawStopped, Advance
    <2>2. owner # "released"
      BY <2>1 DEF RequestKept
    <2>3. Carried(owed)'
      BY <2>1, <2>2, Zenon DEF Carried
    <2> QED  BY <2>1, <2>3 DEF RequestKept
  <1>6. CASE DrawPartial
    <2>1. /\ pc = "draw" /\ pc' \in {"collect", "route"} /\ kind' = "none"
          /\ batch # <<>> /\ batch' = Tail(batch)
          /\ UNCHANGED <<inflight, queue, stop, pendingFull, owner, submitted, owed>>
      BY <1>6 DEF DrawPartial, Advance, InOrder
    <2>2. owed # 0 => Head(batch).n < owed
      BY <2>1 DEF RequestKept
    <2>3. owed' # 0 => Carried(owed)'
      BY <1>a, <2>1, <2>2
    <2> QED  BY <2>1, <2>3 DEF RequestKept
  <1>7. CASE FinishFull
    <2>1. /\ pc = "busy" /\ pc' \in {"collect", "route"} /\ kind' = "none"
          /\ batch # <<>> /\ batch' = Tail(batch)
          /\ owed' = IF Head(batch).n >= owed THEN 0 ELSE owed
          /\ UNCHANGED <<inflight, queue, stop, pendingFull, owner, submitted>>
      BY <1>7 DEF FinishFull, Advance, InOrder
    <2>2. Head(batch).n \in Nat
      BY <1>t, <2>1, TailElements, FieldsOfFrame, ContentsAreNat
    <2>3. owed' # 0 => Head(batch).n < owed /\ owed' = owed
      BY <1>t, <2>1, <2>2
    <2>4. owed' # 0 => Carried(owed)'
      BY <1>a, <2>1, <2>3
    <2>5. owed' <= submitted'
      BY <1>t, <2>1 DEF RequestKept
    <2> QED  BY <2>1, <2>4, <2>5 DEF RequestKept
  <1>8. CASE AbortFull
    <2>1. /\ pc = "busy" /\ pc' \in {"collect", "route"} /\ kind' = "none"
          /\ batch # <<>> /\ batch' = Tail(batch) /\ pendingFull' = TRUE
          /\ UNCHANGED <<inflight, queue, stop, owner, submitted, owed>>
      BY <1>8 DEF AbortFull, Advance, InOrder
    <2>2. /\ Head(batch) = batch[1] /\ 1 \in 1..Len(batch) /\ Head(batch).n \in Nat
          /\ \A i \in 1..Len(batch): 1 <= i
      BY <1>t, <2>1, FirstFrame
    <2>3. ASSUME owed # 0
          PROVE  Carried(owed)'
      <3>1. CASE Head(batch).n >= owed
        <4>1. \A i \in 1..Len(batch): Head(batch).n <= batch[i].n /\ batch[i].n \in Nat
          BY <1>t, <1>o, <2>2, NumbersOf DEF Sorted
        <4>2. \A i \in 1..Len(queue): Head(batch).n <= queue[i].n /\ queue[i].n \in Nat
          BY <1>t, <1>o, <2>2, NumbersOf DEF Below
        <4>3. AllFrom(batch, owed) /\ AllFrom(queue, owed)
          BY <1>t, <2>2, <3>1, <4>1, <4>2 DEF AllFrom
        <4>4. AllFrom(batch', owed) /\ AllFrom(queue', owed)
          BY <1>t, <2>1, <4>3, TailBounds
        <4> QED  BY <2>1, <4>4 DEF Carried
      <3>2. CASE Head(batch).n < owed
        <4>1. CASE FullIn(batch, owed)
          <5>1. FullIn(batch', owed)
            BY <1>t, <2>1, <3>2, <4>1, FullTail
          <5> QED  BY <2>1, <5>1 DEF Carried
        <4>2. CASE AllBefore(batch, owed) /\ FullIn(queue, owed)
          <5>1. AllBefore(batch', owed) /\ FullIn(queue', owed)
            BY <1>t, <2>1, <4>2, TailBounds
          <5> QED  BY <2>1, <5>1 DEF Carried
        <4>3. CASE pendingFull /\ AllFrom(batch, owed) /\ AllFrom(queue, owed)
          BY <1>t, <2>2, <3>2, <4>3 DEF AllFrom
        <4>4. CASE stop /\ owner # "released"
          BY <2>1, <4>4, Zenon DEF Carried
        <4>5. ~(Head(batch).n >= owed)
          BY <1>t, <2>2, <3>2
        <4> QED  BY <1>r, <2>3, <4>1, <4>2, <4>3, <4>4, <4>5 DEF Carried
      <3> QED  BY <1>t, <2>2, <3>1, <3>2
    <2>4. owed' # 0 => Carried(owed)'
      BY <2>1, <2>3
    <2> QED  BY <2>1, <2>4 DEF RequestKept
  <1>9. CASE Submit
    <2>1. /\ Rendering /\ queue' = Enqueue(queue, inflight) /\ inflight' = NoFrame
          /\ submitted' = inflight.n
          /\ owed' = IF inflight.full THEN inflight.n ELSE owed
          /\ UNCHANGED <<batch, pc, kind, stop, pendingFull, owner>>
      BY <1>9 DEF Submit
    <2>2. /\ inflight \in Frames /\ inflight.n \in Nat /\ submitted <= inflight.n
          /\ Len(queue) = QueueMax => ~Head(queue).full
      BY <2>1, Numbers DEF TypeOK, InOrder, NoRequestEvicted
    <2>3. ~inflight'.full
      BY <2>1 DEF NoFrame
    <2>4. /\ owed' <= submitted'
          /\ owed' # 0 => Carried(owed)'
          /\ kind' = "partial" /\ owed' # 0 => Head(batch').n < owed' \/ (stop' /\ pc' # "draw")
      <3>1. CASE inflight.full
        <4>1. owed' = inflight.n /\ inflight.n = submitted + 1
          BY <2>1, <3>1 DEF RequestKept
        <4>2. AllBefore(batch, inflight.n) /\ AllBefore(queue, inflight.n)
          <5>1. \A i \in 1..Len(batch): batch[i].n <= submitted /\ batch[i].n \in Nat
            BY <1>t, <1>o, NumbersOf DEF Within
          <5>2. \A i \in 1..Len(queue): queue[i].n <= submitted /\ queue[i].n \in Nat
            BY <1>t, <1>o, NumbersOf DEF Within
          <5> QED  BY <1>t, <4>1, <5>1, <5>2 DEF AllBefore
        <4>3. FullIn(queue', owed') /\ AllBefore(batch', owed')
          BY <1>t, <2>1, <2>2, <3>1, <4>1, <4>2, EnqueueKeeps
        <4>4. kind = "partial" => Head(batch).n < owed'
          <5>1. ASSUME kind = "partial"
                PROVE  batch # <<>>
            BY <5>1 DEF RequestKept, InOrder
          <5>2. batch # <<>> => 1 \in 1..Len(batch) /\ Head(batch) = batch[1]
            BY <1>t, TailElements
          <5> QED  BY <2>1, <4>3, <5>1, <5>2 DEF AllBefore
        <4> QED  BY <2>1, <2>2, <4>1, <4>3, <4>4 DEF Carried
      <3>2. CASE ~inflight.full
        <4>1. owed' = owed /\ owed <= inflight.n
          <5>1. owed <= submitted
            BY DEF RequestKept
          <5> QED  BY <1>t, <2>1, <2>2, <3>2, <5>1
        <4>2. ASSUME owed # 0
              PROVE  Carried(owed)'
          <5>1. CASE FullIn(batch, owed)
            BY <2>1, <4>1, <5>1 DEF Carried
          <5>2. CASE AllBefore(batch, owed) /\ FullIn(queue, owed)
            <6>1. FullIn(queue', owed)
              BY <1>t, <2>1, <2>2, <5>2, EnqueueKeeps
            <6> QED  BY <2>1, <4>1, <5>2, <6>1 DEF Carried
          <5>3. CASE pendingFull /\ AllFrom(batch, owed) /\ AllFrom(queue, owed)
            <6>1. AllFrom(queue', owed)
              BY <1>t, <2>1, <2>2, <4>1, <5>3, EnqueueKeeps
            <6>2. pendingFull' /\ AllFrom(batch', owed)
              BY <2>1, <5>3
            <6> QED  BY <4>1, <6>1, <6>2, Zenon DEF Carried
          <5>4. CASE pc \in {"start", "busy"} /\ kind = "full" /\ Head(batch).n >= owed
            BY <2>1, <4>1, <5>4 DEF Carried
          <5>5. CASE stop /\ owner # "released"
            BY <2>1, <5>5, Zenon DEF Carried
          <5> QED  BY <1>r, <4>2, <5>1, <5>2, <5>3, <5>4, <5>5 DEF Carried
        <4>3. kind = "partial" /\ owed # 0 => Head(batch).n < owed \/ (stop /\ pc # "draw")
          BY DEF RequestKept
        <4> QED  BY <2>1, <4>1, <4>2, <4>3
      <3> QED  BY <3>1, <3>2
    <2> QED  BY <2>1, <2>3, <2>4 DEF RequestKept
  <1>10. CASE Exit
    <2>1. /\ pc = "collect" /\ batch = <<>> /\ stop /\ pc' = "dead" /\ kind = "none"
          /\ UNCHANGED <<inflight, queue, batch, kind, stop, pendingFull, owner,
                         submitted, owed>>
      BY <1>10 DEF Exit, RequestKept
    <2>2. owner # "released"
      BY <2>1 DEF RequestKept
    <2>3. Carried(owed)'
      BY <2>1, <2>2, Zenon DEF Carried
    <2> QED  BY <2>1, <2>3 DEF RequestKept
  <1>11. CASE StopSet \/ StopDrain \/ StopJoin
    <2>1. /\ stop' = TRUE /\ owner' \in {"stopping", "joining", "joined"}
          /\ owner' = "joined" => pc = "dead"
          /\ UNCHANGED <<inflight, batch, pc, kind, submitted, owed>>
      BY <1>11 DEF StopSet, StopDrain, StopJoin, RequestKept
    <2>2. Carried(owed)'
      BY <2>1 DEF Carried
    <2> QED  BY <2>1, <2>2 DEF RequestKept
  <1>12. CASE Release \/ Clear
    <2>1. /\ owed' = 0 /\ owner' = (IF owner = "joined" THEN "released" ELSE "clearing")
          /\ owner \in {"joined", "run"}
          /\ UNCHANGED <<inflight, batch, pc, kind, stop, submitted>>
      BY <1>12 DEF Release, Clear
    <2>2. owed' <= submitted'
      BY <1>t, <2>1
    <2> QED  BY <2>1, <2>2 DEF RequestKept
  <1>13. CASE Reacquire
    <2>1. /\ owner = "released" /\ owner' = "run" /\ pc = "dead" /\ pc' = "collect"
          /\ stop' = FALSE /\ kind = "none"
          /\ UNCHANGED <<inflight, queue, batch, kind, pendingFull, submitted, owed>>
      BY <1>13 DEF Reacquire, RequestKept
    <2>2. owed' # 0 => Carried(owed)'
      BY <1>r, <2>1 DEF Carried
    <2> QED  BY <2>1, <2>2 DEF RequestKept
  <1>14. CASE \/ Tick \/ IdleSleep \/ Reinit \/ UNCHANGED vars
              \/ (\E full \in BOOLEAN, red \in Reds: Render(full, red))
              \/ (\E red \in Reds: NewScreen(red))
    <2>1. /\ UNCHANGED <<queue, batch, pc, kind, stop, pendingFull, submitted, owed>>
          /\ \/ owner' = owner
             \/ owner \in {"run", "clearing", "tuning"} /\ owner' \in {"run", "tuning"}
      BY <1>14 DEF Tick, IdleSleep, Reinit, Render, NewScreen, vars
    <2>2. inflight'.full => inflight'.n = submitted + 1
      <3>1. CASE \E full \in BOOLEAN, red \in Reds: Render(full, red)
        BY <3>1 DEF Render, InOrder, Rendering
      <3>2. CASE \E red \in Reds: NewScreen(red)
        BY <3>2 DEF NewScreen, InOrder, Rendering
      <3>3. CASE Tick
        BY <3>3 DEF Tick
      <3>4. CASE IdleSleep \/ Reinit \/ UNCHANGED vars
        <4>1. inflight' = inflight
          BY <3>4 DEF IdleSleep, Reinit, vars
        <4> QED  BY <4>1 DEF RequestKept
      <3> QED  BY <1>14, <3>1, <3>2, <3>3, <3>4
    <2>3. owed' # 0 => Carried(owed)'
      BY <1>r, <2>1 DEF Carried
    <2> QED  BY <2>1, <2>2, <2>3 DEF RequestKept
  <1>15. ~Fail
    BY DEF Fail
  <1> QED
    BY <1>1, <1>2, <1>3, <1>4, <1>5, <1>6, <1>7, <1>8, <1>9, <1>10, <1>11, <1>12,
       <1>13, <1>14, <1>15
    DEF Next, Scheduler, Owner

\* Unless the driver raises, the thread outlives its join or a full queue loses a
\* frame that asked for one, a full refresh that was asked for is not overtaken by
\* a partial: it survives coalescing, aborts, changed screens and hand-overs.
THEOREM RequestsAreHonoured ==
  ASSUME "error" \notin Events, "timeout" \notin Events
  PROVE  Spec /\ []NoRequestEvicted => []FullIsHonoured
  <1>1. Init => RequestKept
    BY DEF Init, RequestKept, NoFrame
  <1>2. RequestKept => FullIsHonoured
    BY DEF RequestKept, FullIsHonoured
  <1> QED  BY <1>1, <1>2, RequestsAreKept, InitHolds, StepHolds, PTL DEF Spec
=============================================================================
