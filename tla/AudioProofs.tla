----------------------------- MODULE AudioProofs -----------------------------
(***************************************************************************)
(* Machine-checked proofs about both ends of the audio path, which share   *)
(* nothing: PlaybackSink, for every bound and any set of drain() callers   *)
(* (no wakeup is lost, a stop leaves nothing of what it stopped in the     *)
(* queue, drain() says True only of what was played), and VoiceInput with  *)
(* the TurnGate it feeds, for every window, threshold, ring and bound that *)
(* the assumptions admit (what a turn captured is what was heard, and no   *)
(* window is refused or spliced but for the reasons named).                *)
(***************************************************************************)
EXTENDS PlaybackSink, VoiceInput, WellFoundedInduction, FiniteSetTheorems, SequenceTheorems, TLAPS
-----------------------------------------------------------------------------
(* The sink.                                                               *)

\* The counter of every generation is a natural number.
Counted == pending \in [Gens -> Nat]

\* A caller inside drain() waits for a generation that has a counter.
Waiters == \A d \in Drainers : drain[d].at \in {"waiting", "woken"} => drain[d].gen \in Gens

\* The inductive invariant.
IInv ==
  /\ Counted
  /\ DOMAIN drain = Drainers
  /\ Waiters
  /\ NoLostWakeup
-----------------------------------------------------------------------------
\* A wake leaves nobody waiting for the generations it names.
LEMMA WakeClears ==
  ASSUME NEW woken, DOMAIN drain = Drainers, Waiters, Wake(woken)
  PROVE  /\ DOMAIN drain' = Drainers
         /\ Waiters'
         /\ \A d \in Drainers : drain'[d].at = "waiting" =>
              drain[d].at = "waiting" /\ drain'[d].gen = drain[d].gen /\ drain[d].gen \notin woken
BY DEF Wake, Waiters

\* One counter drops, of whatever chunk was queued; whoever waited for the last
\* chunk of that generation is woken.
LEMMA ReleasePreserves ==
  ASSUME IInv, NEW g, Release(g)
  PROVE  IInv'
<1> USE DEF IInv, Counted, NoLostWakeup
<1>1. CASE pending[g] > 1
  BY <1>1 DEF Release, Waiters
<1>2. CASE ~(pending[g] > 1)
  <2>1. pending' = [pending EXCEPT ![g] = 0] /\ Wake({g})
    BY <1>2 DEF Release
  <2> QED BY <2>1, WakeClears DEF Waiters
<1> QED BY <1>1, <1>2

\* Counters that are all dropped, for a stop or at the end, wake their waiters.
LEMMA DropPreserves ==
  ASSUME IInv, NEW gone \in SUBSET Gens,
         pending' = [h \in Gens |-> IF h \in gone THEN 0 ELSE pending[h]],
         Wake({h \in Gens : h \in gone /\ pending[h] > 0})
  PROVE  IInv'
<1>1. Counted' BY DEF IInv, Counted
<1>2. DOMAIN drain' = Drainers /\ Waiters'
  BY WakeClears DEF IInv
<1>3. ASSUME NEW d \in Drainers, drain'[d].at = "waiting"
      PROVE  pending'[drain'[d].gen] > 0
  BY <1>3, WakeClears DEF IInv, NoLostWakeup, Waiters, Counted
<1> QED BY <1>1, <1>2, <1>3 DEF IInv, NoLostWakeup

\* drain() goes to sleep only for a generation that still has a chunk pending.
LEMMA DrainLoopPreserves ==
  ASSUME IInv, NEW d \in Drainers, NEW g \in Gens, UNCHANGED pending,
         DrainLoop(d, g) \/ Return(d, g, FALSE)
  PROVE  IInv'
BY DEF IInv, Counted, Waiters, NoLostWakeup, DrainLoop, Return
-----------------------------------------------------------------------------
LEMMA InitEstablishes == Init => IInv
BY BoundsAssumption DEF Init, IInv, Counted, Waiters, NoLostWakeup, Idle, Gens

\* A new chunk only raises a counter.
LEMMA SubmitPreserves == IInv /\ Submit => IInv'
BY DEF Submit, IInv, Counted, Waiters, NoLostWakeup

LEMMA StopPreserves ==
  ASSUME IInv, NEW g \in Gens, StopGeneration(g)
  PROVE  IInv'
<1> DEFINE before == IF stoppedBefore > g + 1 THEN stoppedBefore ELSE g + 1
           gone == {h \in Gens : IsStopped(h, before)}
<1>1. pending' = [h \in Gens |-> IF h \in gone THEN 0 ELSE pending[h]]
  BY DEF StopGeneration
<1>2. {h \in Gens : IsStopped(h, before) /\ pending[h] > 0}
        = {h \in Gens : h \in gone /\ pending[h] > 0}
  OBVIOUS
<1>3. Wake({h \in Gens : IsStopped(h, before) /\ pending[h] > 0})
  BY DEF StopGeneration
<1>4. Wake({h \in Gens : h \in gone /\ pending[h] > 0})
  BY <1>2, <1>3
<1> HIDE DEF gone
<1> QED BY <1>1, <1>4, gone \in SUBSET Gens, DropPreserves DEF gone

\* Playing, dropping or failing a chunk releases it, and so does the cancelled writer.
LEMMA WriterPreserves ==
  ASSUME IInv, WriterStep \/ WriterCancelled
  PROVE  IInv'
<1>1. CASE UNCHANGED <<pending, drain>>
  BY <1>1 DEF IInv, Counted, Waiters, NoLostWakeup
<1>2. CASE Release(Head(queue)) BY <1>2, ReleasePreserves
<1>3. CASE Release(writer) BY <1>3, ReleasePreserves
<1> QED BY <1>1, <1>2, <1>3
      DEF WriterStep, WriterGet, WriteDone, WriteFailed, WriterCancelled

\* close() drops every counter, at once or after it joined the writer.
LEMMA ClosePreserves ==
  ASSUME IInv, Close \/ CloseFinish
  PROVE  IInv'
<1>1. CASE UNCHANGED <<pending, drain>>
  BY <1>1 DEF IInv, Counted, Waiters, NoLostWakeup
<1>2. CASE pending' = [g \in Gens |-> 0] /\ Wake({g \in Gens : pending[g] > 0})
  <2>1. {g \in Gens : pending[g] > 0} = {h \in Gens : h \in Gens /\ pending[h] > 0}
    OBVIOUS
  <2>2. pending' = [h \in Gens |-> IF h \in Gens THEN 0 ELSE pending[h]]
    BY <1>2
  <2>3. Wake({h \in Gens : h \in Gens /\ pending[h] > 0})
    BY <1>2, <2>1
  <2> QED BY <2>2, <2>3, DropPreserves
<1> QED BY <1>1, <1>2 DEF Close, CloseFinish

LEMMA DrainPreserves ==
  ASSUME IInv, NEW d \in Drainers, DrainWake(d) \/ \E g \in Gens : DrainCall(d, g)
  PROVE  IInv'
<1>1. ASSUME NEW g \in Gens, DrainCall(d, g) PROVE IInv'
  BY <1>1, DrainLoopPreserves DEF DrainCall
<1>2. CASE DrainWake(d)
  <2>1. PICK g : g = drain[d].gen OBVIOUS
  <2>2. CASE DrainLoop(d, g)
    BY <1>2, <2>1, <2>2 DEF DrainWake, DrainLoop, Return, IInv, Counted, Waiters, NoLostWakeup
  <2>3. CASE Return(d, g, FALSE)
    BY <1>2, <2>1, <2>3 DEF DrainWake, Return, IInv, Counted, Waiters, NoLostWakeup
  <2> QED BY <1>2, <2>1, <2>2, <2>3 DEF DrainWake
<1> QED BY <1>1, <1>2

LEMMA StepPreserves == IInv /\ [Next]_vars => IInv'
<1> SUFFICES ASSUME IInv, [Next]_vars PROVE IInv' OBVIOUS
<1>1. CASE Start \/ Advance \/ UNCHANGED vars
  BY <1>1 DEF Start, Advance, vars, IInv, Counted, Waiters, NoLostWakeup
<1>2. CASE Submit BY <1>2, SubmitPreserves
<1>3. ASSUME NEW g \in Gens, StopGeneration(g) PROVE IInv' BY <1>3, StopPreserves
<1>4. ASSUME NEW d \in Drainers, (\E g \in Gens : DrainCall(d, g)) \/ DrainWake(d) PROVE IInv'
  BY <1>4, DrainPreserves
<1>5. CASE WriterStep \/ WriterCancelled BY <1>5, WriterPreserves
<1>6. CASE Close \/ CloseFinish BY <1>6, ClosePreserves
<1> QED BY <1>1, <1>2, <1>3, <1>4, <1>5, <1>6 DEF Next, CloseStep

\* The bookkeeping behind drain() holds in every state, for every capacity and bound.
THEOREM Invariance == Spec => []IInv
<1>1. Init => IInv BY InitEstablishes
<1>2. IInv /\ [Next]_vars => IInv' BY StepPreserves
<1> QED BY <1>1, <1>2, PTL DEF Spec

\* No wakeup is lost: a caller sleeping in drain() (playback.py) sleeps for a chunk
\* that is still pending, however writer, stop_generation and close interleave.
THEOREM NobodySleepsForNothing == Spec => []NoLostWakeup
<1>1. IInv => NoLostWakeup BY DEF IInv
<1> QED BY <1>1, Invariance, PTL
-----------------------------------------------------------------------------
\* A non-empty set of natural numbers has a least element: proofs by induction take
\* the least counterexample.
LEMMA LeastElement ==
  ASSUME NEW T \in SUBSET Nat, T # {}
  PROVE  \E n \in T : \A m \in T : n <= m
<1> DEFINE R == OpToRel(<, Nat)
<1>1. IsWellFoundedOn(R, Nat) BY NatLessThanWellFounded
<1>2. \A x, y \in Nat : y < x => <<y, x>> \in R BY DEF OpToRel
<1> HIDE DEF R
<1>3. PICK n \in T : \A m \in T : ~(<<m, n>> \in R) BY <1>1, WFMin
<1>4. ASSUME NEW m \in T PROVE n <= m
  <2>1. n \in Nat /\ m \in Nat OBVIOUS
  <2>2. ~(m < n) BY <1>2, <1>3, <2>1
  <2> QED BY <2>1, <2>2
<1> QED BY <1>3, <1>4

\* The chunks of generation g among the first n of a queue.
UpTo(q, n, g) == {i \in 1..n : q[i] = g}

\* One more chunk raises the count of its own generation by one.
LEMMA OneMore ==
  ASSUME NEW q, NEW n \in Nat, NEW g
  PROVE  /\ IsFiniteSet(UpTo(q, n, g)) /\ Cardinality(UpTo(q, n, g)) \in Nat
         /\ Cardinality(UpTo(q, n + 1, g))
              = Cardinality(UpTo(q, n, g)) + (IF q[n + 1] = g THEN 1 ELSE 0)
         /\ UpTo(q, 0, g) = {}
<1>1. IsFiniteSet(1..n) BY FS_Interval
<1>2. UpTo(q, n, g) \in SUBSET (1..n) BY DEF UpTo
<1>3. IsFiniteSet(UpTo(q, n, g)) BY <1>1, <1>2, FS_Subset
<1>4. n + 1 \notin UpTo(q, n, g) BY DEF UpTo
<1>5. UpTo(q, n + 1, g) = IF q[n + 1] = g THEN UpTo(q, n, g) \cup {n + 1} ELSE UpTo(q, n, g)
  BY DEF UpTo
<1>6. Cardinality(UpTo(q, n, g)) \in Nat BY <1>3, FS_CardinalityType
<1>7. Cardinality(UpTo(q, n + 1, g))
        = Cardinality(UpTo(q, n, g)) + (IF q[n + 1] = g THEN 1 ELSE 0)
  <2>1. CASE q[n + 1] = g BY <1>3, <1>4, <1>5, <1>6, <2>1, FS_AddElement
  <2>2. CASE q[n + 1] # g BY <1>3, <1>5, <1>6, <2>2
  <2> QED BY <2>1, <2>2
<1>8. UpTo(q, 0, g) = {} BY DEF UpTo
<1> QED BY <1>3, <1>6, <1>7, <1>8

\* A queued chunk counts for its generation, the first one when it is taken not any more.
LEMMA Taken ==
  ASSUME NEW q \in Seq(Gens), q # <<>>, NEW g
  PROVE  Cardinality(UpTo(Tail(q), Len(Tail(q)), g)) + (IF Head(q) = g THEN 1 ELSE 0)
           <= Cardinality(UpTo(q, Len(q), g))
<1> DEFINE S == UpTo(q, Len(q), g)
           T == UpTo(Tail(q), Len(Tail(q)), g)
<1>1. /\ Len(q) \in Nat \ {0} /\ Len(Tail(q)) = Len(q) - 1
      /\ \A i \in 1..Len(Tail(q)) : Tail(q)[i] = q[i + 1]
      /\ Head(q) = q[1]
  OBVIOUS
<1>2. IsFiniteSet(S) /\ Cardinality(S) \in Nat BY <1>1, OneMore
<1>3. T = {i - 1 : i \in S \ {1}}
  <2>1. ASSUME NEW i \in T PROVE i \in {j - 1 : j \in S \ {1}}
    <3>1. i + 1 \in S \ {1} /\ (i + 1) - 1 = i BY <1>1, <2>1 DEF UpTo
    <3> QED BY <3>1
  <2>2. ASSUME NEW j \in S \ {1} PROVE j - 1 \in T
    <3>1. j - 1 \in 1..Len(Tail(q)) /\ (j - 1) + 1 = j BY <1>1, <2>2 DEF UpTo
    <3> QED BY <1>1, <2>2, <3>1 DEF UpTo
  <2> QED BY <2>1, <2>2
<1> HIDE DEF S, T
<1>4. /\ IsFiniteSet(S \ {1})
      /\ Cardinality(S \ {1}) = IF 1 \in S THEN Cardinality(S) - 1 ELSE Cardinality(S)
  BY <1>2, FS_RemoveElement
<1>5. Cardinality(T) <= Cardinality(S \ {1})
  <2> DEFINE f == [i \in S \ {1} |-> i - 1]
  <2>1. f \in Surjection(S \ {1}, T) BY <1>3 DEF Surjection
  <2> QED BY <1>4, <2>1, FS_Surjection
<1>6. 1 \in S <=> Head(q) = g BY <1>1 DEF S, UpTo
<1>7. Cardinality(T) \in Nat
  <2>1. Len(Tail(q)) \in Nat BY <1>1
  <2> QED BY <2>1, OneMore DEF T
<1>8. Cardinality(T) + (IF Head(q) = g THEN 1 ELSE 0) <= Cardinality(S)
  BY <1>2, <1>4, <1>5, <1>6, <1>7
<1> QED BY <1>8 DEF S, T
-----------------------------------------------------------------------------
\* One chunk of the queue goes through stop_generation: dropped, or put back.
Next1(kept, g, i) ==
  IF i = 0 THEN <<>>
  ELSE IF IsStopped(queue[i], g + 1) THEN kept[i - 1]
  ELSE Append(kept[i - 1], queue[i])

\* The function that PutBack defines by recursion exists.
LEMMA PutBackIs ==
  ASSUME NEW g, Len(queue) \in Nat
  PROVE  PutBack(g) = [i \in 0..Len(queue) |-> Next1(PutBack(g), g, i)]
<1> DEFINE Good(n) == \E h : h = [i \in 0..n |-> Next1(h, g, i)]
           Bad == {n \in Nat : ~Good(n)}
<1>1. Good(0)
  <2> DEFINE h == [i \in 0..0 |-> <<>>]
  <2>1. h = [i \in 0..0 |-> Next1(h, g, i)] BY DEF Next1
  <2> QED BY <2>1
<1>2. ASSUME NEW n \in Nat \ {0}, Good(n - 1) PROVE Good(n)
  <2>1. PICK h : h = [i \in 0..(n - 1) |-> Next1(h, g, i)] BY <1>2
  <2> DEFINE k == [i \in 0..n |-> IF i = n THEN Next1(h, g, n) ELSE h[i]]
  <2>2. \A i \in 0..n : i # 0 => k[i - 1] = h[i - 1] OBVIOUS
  <2>3. \A i \in 0..n : Next1(k, g, i) = Next1(h, g, i) BY <2>2 DEF Next1
  <2>4. \A i \in 0..n : k[i] = Next1(h, g, i)
    <3> TAKE i \in 0..n
    <3>1. CASE i = n BY <3>1
    <3>2. CASE i # n
      <4>1. i \in 0..(n - 1) BY <3>2
      <4> HIDE DEF Next1
      <4>2. h[i] = Next1(h, g, i) BY <2>1, <4>1
      <4> QED BY <3>2, <4>2
    <3> QED BY <3>1, <3>2
  <2> HIDE DEF Next1
  <2>5. k = [i \in 0..n |-> Next1(k, g, i)] BY <2>3, <2>4
  <2> QED BY <2>5
<1>3. Bad = {}
  <2> SUFFICES ASSUME Bad # {} PROVE FALSE OBVIOUS
  <2> HIDE DEF Good
  <2>1. Bad \in SUBSET Nat OBVIOUS
  <2>2. PICK n \in Bad : \A m \in Bad : n <= m BY <2>1, LeastElement
  <2>3. n # 0 BY <1>1, <2>2
  <2>4. n - 1 \in Nat /\ n - 1 \notin Bad BY <2>2, <2>3
  <2> QED BY <1>2, <2>2, <2>3, <2>4
<1>4. Good(Len(queue)) BY <1>3
<1> QED BY <1>4 DEF PutBack, Next1

\* What is put back is what was queued and is not stopped, and no more of any
\* generation than was queued.
LEMMA PurgedIs ==
  ASSUME queue \in Seq(Gens), NEW g \in Gens
  PROVE  /\ Purged(g) \in Seq(Gens) /\ Len(Purged(g)) <= Len(queue)
         /\ \A i \in 1..Len(Purged(g)) :
              ~IsStopped(Purged(g)[i], g + 1) /\ \E j \in 1..Len(queue) : Purged(g)[i] = queue[j]
         /\ \A h : Cardinality(UpTo(Purged(g), Len(Purged(g)), h))
                    <= Cardinality(UpTo(queue, Len(queue), h))
<1> DEFINE kept == PutBack(g)
           Good(n) ==
             /\ kept[n] \in Seq(Gens) /\ Len(kept[n]) <= n
             /\ \A i \in 1..Len(kept[n]) :
                  ~IsStopped(kept[n][i], g + 1) /\ \E j \in 1..n : kept[n][i] = queue[j]
             /\ \A h : Cardinality(UpTo(kept[n], Len(kept[n]), h)) <= Cardinality(UpTo(queue, n, h))
           Bad == {n \in 0..Len(queue) : ~Good(n)}
<1>1. Len(queue) \in Nat OBVIOUS
<1>2. kept = [i \in 0..Len(queue) |-> Next1(kept, g, i)] BY <1>1, PutBackIs
<1> HIDE DEF kept
<1>3. Good(0)
  <2>1. kept[0] = <<>> BY <1>1, <1>2 DEF Next1
  <2>2. Len(kept[0]) = 0 BY <2>1
  <2>3. \A h : UpTo(kept[0], Len(kept[0]), h) = {} /\ UpTo(queue, 0, h) = {}
    BY <2>2, OneMore
  <2>4. \A h : Cardinality(UpTo(kept[0], Len(kept[0]), h)) <= Cardinality(UpTo(queue, 0, h))
    <3> TAKE h
    <3>1. UpTo(kept[0], Len(kept[0]), h) = {} /\ UpTo(queue, 0, h) = {} BY <2>3
    <3>2. Cardinality({}) = 0 BY FS_EmptySet
    <3>3. Cardinality(UpTo(kept[0], Len(kept[0]), h)) = 0 BY <3>1, <3>2
    <3>4. Cardinality(UpTo(queue, 0, h)) = 0 BY <3>1, <3>2
    <3> QED BY <3>3, <3>4
  <2> QED BY <2>1, <2>2, <2>4
<1>4. ASSUME NEW n \in 1..Len(queue), Good(n - 1) PROVE Good(n)
  <2>1. n - 1 \in Nat /\ n \in Nat BY <1>1
  <2>2. kept[n] = Next1(kept, g, n) BY <1>1, <1>2
  <2>3. \A h : /\ Cardinality(UpTo(queue, n, h))
                     = Cardinality(UpTo(queue, n - 1, h)) + (IF queue[n] = h THEN 1 ELSE 0)
               /\ Cardinality(UpTo(queue, n - 1, h)) \in Nat
    BY <2>1, OneMore, (n - 1) + 1 = n
  <2>4. CASE IsStopped(queue[n], g + 1)
    <3>1. kept[n] = kept[n - 1] BY <2>2, <2>4 DEF Next1
    <3>2. Len(kept[n]) <= n BY <1>4, <2>1, <3>1
    <3>3. \A h : Cardinality(UpTo(kept[n], Len(kept[n]), h)) \in Nat
      BY <1>4, <3>1, OneMore, Len(kept[n]) \in Nat
    <3>4. \A h : Cardinality(UpTo(kept[n], Len(kept[n]), h)) <= Cardinality(UpTo(queue, n, h))
      BY <1>4, <2>3, <3>1, <3>3
    <3> QED BY <1>4, <3>1, <3>2, <3>4
  <2>5. CASE ~IsStopped(queue[n], g + 1)
    <3>1. kept[n] = Append(kept[n - 1], queue[n]) BY <2>1, <2>2, <2>5 DEF Next1
    <3>2. queue[n] \in Gens OBVIOUS
    <3> DEFINE k == kept[n - 1]
               len == Len(k)
    <3>3. /\ len \in Nat /\ Len(kept[n]) = len + 1 /\ kept[n] \in Seq(Gens)
          /\ \A i \in 1..len : kept[n][i] = k[i]
          /\ kept[n][len + 1] = queue[n]
      BY <1>4, <3>1, <3>2
    <3>4. \A h : /\ Cardinality(UpTo(kept[n], len + 1, h))
                       = Cardinality(UpTo(kept[n], len, h)) + (IF queue[n] = h THEN 1 ELSE 0)
                 /\ UpTo(kept[n], len, h) = UpTo(k, len, h)
                 /\ Cardinality(UpTo(k, len, h)) \in Nat
      <4>1. \A h : UpTo(kept[n], len, h) = UpTo(k, len, h) BY <3>3 DEF UpTo
      <4> TAKE h
      <4>3. len \in Nat BY <3>3
      <4> HIDE DEF len
      <4>2. /\ Cardinality(UpTo(kept[n], len + 1, h))
                 = Cardinality(UpTo(kept[n], len, h)) + (IF kept[n][len + 1] = h THEN 1 ELSE 0)
            /\ Cardinality(UpTo(kept[n], len, h)) \in Nat
        BY <4>3, OneMore
      <4> QED BY <3>3, <4>1, <4>2
    <3>5. \A h : Cardinality(UpTo(kept[n], Len(kept[n]), h)) <= Cardinality(UpTo(queue, n, h))
      BY <1>4, <2>3, <3>3, <3>4
    <3>6. \A i \in 1..Len(kept[n]) :
            ~IsStopped(kept[n][i], g + 1) /\ \E j \in 1..n : kept[n][i] = queue[j]
      <4> TAKE i \in 1..Len(kept[n])
      <4>1. CASE i \in 1..len
        <5>1. ~IsStopped(kept[n][i], g + 1) BY <1>4, <3>3, <4>1
        <5>2. PICK j \in 1..(n - 1) : kept[n][i] = queue[j] BY <1>4, <3>3, <4>1
        <5>3. j \in 1..n OBVIOUS
        <5> QED BY <5>1, <5>2, <5>3
      <4>2. CASE i = len + 1
        <5>1. n \in 1..n OBVIOUS
        <5> QED BY <2>5, <3>3, <4>2, <5>1
      <4> QED BY <3>3, <4>1, <4>2
    <3>7. Len(kept[n]) <= n BY <1>4, <2>1, <3>3
    <3> QED BY <3>3, <3>5, <3>6, <3>7
  <2> QED BY <2>4, <2>5
<1>5. Bad = {}
  <2> SUFFICES ASSUME Bad # {} PROVE FALSE OBVIOUS
  <2> HIDE DEF Good
  <2>1. Bad \in SUBSET Nat OBVIOUS
  <2>2. PICK n \in Bad : \A m \in Bad : n <= m BY <2>1, LeastElement
  <2>3. n # 0 BY <1>3, <2>2
  <2>4. n - 1 \in 0..Len(queue) /\ n - 1 \notin Bad BY <2>2, <2>3
  <2> QED BY <1>4, <2>2, <2>3, <2>4
<1>6. Good(Len(queue)) BY <1>1, <1>5
<1>7. Purged(g) = kept[Len(queue)] BY DEF Purged, kept
<1> QED BY <1>6, <1>7
-----------------------------------------------------------------------------
\* The chunks of a generation still to be released: queued, or with the device.
Held(g) == Cardinality(UpTo(queue, Len(queue), g)) + (IF writer = g THEN 1 ELSE 0)

\* Chunks and failures belong to generations the coordinator has reached.
Reached ==
  /\ cur \in Gens /\ queue \in Seq(Gens) /\ \A i \in 1..Len(queue) : queue[i] <= cur
  /\ writer \in Gens \cup {NoWriter, Getting} /\ writer <= cur
  /\ failedGens \subseteq 0..cur /\ Cardinality(failedGens) <= MaxTracked
  /\ accepted \in [Gens -> Int] /\ played \in [Gens -> Int]

\* The teardown lags behind the coordinator by less than the failures remembered.
LagBounded ==
  stoppedBefore \in Nat /\ stoppedBefore <= cur /\ cur - stoppedBefore < MaxTracked

\* The counter of a generation covers what is still held, and without a failure it
\* is exactly what the device has not taken yet.
Balanced ==
  phase = "open" => \A g \in Gens : ~IsStopped(g, stoppedBefore) =>
    /\ Held(g) <= pending[g]
    /\ g \notin failedGens => accepted[g] - played[g] = pending[g]

\* The inductive invariant of what is queued, played and purged.
PlayInv == IInv /\ Reached /\ LagBounded /\ Balanced /\ PurgeComplete /\ DrainMeansPlayed

\* A failure of a generation that is not stopped is not forgotten: those that are
\* remembered and not stopped are fewer than the limit, so the oldest is stopped.
LEMMA FailuresKept ==
  ASSUME Reached, LagBounded, NEW g \in 0..cur
  PROVE  /\ RememberFailure(g) \subseteq 0..cur /\ Cardinality(RememberFailure(g)) <= MaxTracked
         /\ \A h \in failedGens \cup {g} :
              ~IsStopped(h, stoppedBefore) => h \in RememberFailure(g)
<1> DEFINE all == failedGens \cup {g}
<1>1. cur \in Nat /\ IsFiniteSet(0..cur) /\ all \in SUBSET (0..cur) /\ MaxTracked \in Nat \ {0}
  <2>1. cur \in Nat /\ MaxTracked \in Nat \ {0} BY BoundsAssumption DEF Reached, Gens
  <2>2. IsFiniteSet(0..cur) BY <2>1, FS_Interval
  <2>3. all \in SUBSET (0..cur) BY DEF Reached
  <2> QED BY <2>1, <2>2, <2>3
<1>2. IsFiniteSet(all) /\ Cardinality(all) \in Nat BY <1>1, FS_Subset, FS_CardinalityType
<1>3. IsFiniteSet(failedGens) /\ Cardinality(failedGens) \in Nat
  BY <1>1, FS_Subset, FS_CardinalityType
<1>4. Cardinality(all) <= MaxTracked + 1
  <2>1. Cardinality(all) = IF g \in failedGens THEN Cardinality(failedGens)
                           ELSE Cardinality(failedGens) + 1
    BY <1>3, FS_AddElement
  <2>2. Cardinality(failedGens) <= MaxTracked BY DEF Reached
  <2> QED BY <1>1, <1>3, <2>1, <2>2
<1>5. CASE Cardinality(all) <= MaxTracked
  <2>1. RememberFailure(g) = all BY <1>1, <1>2, <1>5 DEF RememberFailure
  <2> QED BY <1>1, <1>5, <2>1
<1>6. CASE Cardinality(all) > MaxTracked
  <2> DEFINE old == Oldest(all)
  <2>1. old \in all /\ \A h \in all : old <= h
    <3>1. all \in SUBSET Nat /\ all # {} BY <1>1
    <3>2. \E n \in all : \A h \in all : n <= h BY <3>1, LeastElement
    <3> QED BY <3>2 DEF Oldest
  <2>2. RememberFailure(g) = all \ {old} BY <1>6 DEF RememberFailure
  <2> HIDE DEF old
  <2>3. Cardinality(all \ {old}) <= MaxTracked
    <3>1. Cardinality(all \ {old}) = Cardinality(all) - 1 BY <1>2, <2>1, FS_RemoveElement
    <3> QED BY <1>1, <1>2, <1>4, <3>1
  <2>4. old < stoppedBefore
    <3>1. old \in 0..cur /\ all \in SUBSET (old..cur) BY <1>1, <2>1
    <3>2. IsFiniteSet(old..cur) /\ Cardinality(old..cur) = cur - old + 1
      BY <1>1, <3>1, FS_Interval
    <3>3. Cardinality(all) <= cur - old + 1 BY <3>1, <3>2, FS_Subset
    <3> QED BY <1>1, <1>2, <1>6, <3>1, <3>3 DEF LagBounded
  <2>5. \A h \in all : ~IsStopped(h, stoppedBefore) => h # old BY <2>4 DEF IsStopped
  <2> QED BY <1>1, <2>2, <2>3, <2>5
<1> QED BY <1>1, <1>2, <1>5, <1>6

\* Waking, going to sleep and giving up leave the results of other callers alone.
LEMMA WakeKeepsResults ==
  ASSUME DrainMeansPlayed, UNCHANGED drain \/ \E woken : Wake(woken)
  PROVE  DrainMeansPlayed'
<1>1. CASE UNCHANGED drain BY <1>1 DEF DrainMeansPlayed
<1>2. ASSUME NEW woken, Wake(woken) PROVE DrainMeansPlayed'
  <2>1. ASSUME NEW d \in Drainers, drain'[d].at = "done" PROVE drain'[d] = drain[d]
    <3>1. drain'[d] = IF drain[d].at = "waiting" /\ drain[d].gen \in woken
                      THEN [drain[d] EXCEPT !.at = "woken"] ELSE drain[d]
      BY <1>2 DEF Wake
    <3> QED BY <2>1, <3>1
  <2> QED BY <2>1 DEF DrainMeansPlayed
<1> QED BY <1>1, <1>2

LEMMA ReleaseKeepsResults ==
  ASSUME DrainMeansPlayed, NEW g, Release(g)
  PROVE  DrainMeansPlayed'
BY WakeKeepsResults DEF Release

\* What Release does to the counters.
LEMMA Released ==
  ASSUME IInv, NEW g \in Gens, Release(g)
  PROVE  /\ \A h \in Gens \ {g} : pending'[h] = pending[h]
         /\ pending'[g] = IF pending[g] > 0 THEN pending[g] - 1 ELSE 0
BY DEF Release, IInv, Counted
-----------------------------------------------------------------------------
LEMMA InitPlays == Init => PlayInv
<1> SUFFICES ASSUME Init PROVE PlayInv OBVIOUS
<1>1. IInv BY InitEstablishes
<1>2. queue = <<>> /\ Len(queue) = 0 BY DEF Init
<1>3. Reached
  <2>1. queue \in Seq(Gens) /\ \A i \in 1..Len(queue) : queue[i] <= cur BY <1>2
  <2>2. failedGens = {} /\ Cardinality(failedGens) = 0 BY FS_EmptySet DEF Init
  <2> QED BY <2>1, <2>2, BoundsAssumption DEF Init, Reached, Gens, NoWriter, Getting
<1>4. LagBounded BY BoundsAssumption DEF Init, LagBounded
<1>5. Balanced
  <2>1. \A g \in Gens : Held(g) = 0
    <3> TAKE g \in Gens
    <3>1. UpTo(queue, Len(queue), g) = {} BY <1>2 DEF UpTo
    <3>2. Cardinality({}) = 0 BY FS_EmptySet
    <3>3. writer # g BY DEF Init, NoWriter, Gens
    <3> QED BY <3>1, <3>2, <3>3 DEF Held
  <2>2. \A g \in Gens : pending[g] = 0 /\ accepted[g] = 0 /\ played[g] = 0 BY DEF Init
  <2> QED BY <2>1, <2>2 DEF Balanced
<1>6. PurgeComplete BY <1>2, BoundsAssumption DEF PurgeComplete
<1>7. DrainMeansPlayed BY DEF Init, DrainMeansPlayed, Idle
<1> QED BY <1>1, <1>3, <1>4, <1>5, <1>6, <1>7 DEF PlayInv

\* The steps that neither queue nor play a chunk.
LEMMA OthersPlay ==
  ASSUME PlayInv, Start \/ Advance \/ Close \/ CloseFinish \/ UNCHANGED vars
  PROVE  Reached' /\ LagBounded' /\ Balanced' /\ PurgeComplete' /\ DrainMeansPlayed'
<1> USE DEF PlayInv
<1>1. CASE Start
  <2>1. Reached' BY <1>1 DEF Start, Reached, Gens, Getting
  <2>2. \A g \in Gens : Held(g)' = Held(g)
    BY <1>1 DEF Start, Held, Gens, Getting, NoWriter
  <2>3. Balanced' BY <1>1, <2>2 DEF Start, Balanced
  <2> QED BY <1>1, <2>1, <2>3 DEF Start, LagBounded, PurgeComplete, DrainMeansPlayed
<1>2. CASE Advance
  <2>1. cur' = cur + 1 /\ cur' \in Gens /\ cur \in Nat
    BY <1>2, BoundsAssumption DEF Advance, Reached, Gens
  <2>2. Reached' BY <1>2, <2>1 DEF Advance, Reached, Gens, Getting, NoWriter
  <2>3. LagBounded' BY <1>2, <2>1, BoundsAssumption DEF Advance, LagBounded
  <2>4. Balanced' BY <1>2 DEF Advance, Balanced, Held
  <2> QED BY <1>2, <2>2, <2>3, <2>4 DEF Advance, PurgeComplete, DrainMeansPlayed
<1>3. CASE Close \/ CloseFinish
  <2>1. UNCHANGED <<cur, queue, stoppedBefore, failedGens, writer, accepted, played>>
        /\ phase' # "open" /\ (UNCHANGED drain \/ \E woken : Wake(woken))
    BY <1>3 DEF Close, CloseFinish
  <2>2. DrainMeansPlayed' BY <2>1, WakeKeepsResults
  <2> QED BY <2>1, <2>2 DEF Reached, LagBounded, Balanced, PurgeComplete
<1>4. CASE UNCHANGED vars
  BY <1>4 DEF vars, Reached, LagBounded, Balanced, Held, PurgeComplete, DrainMeansPlayed
<1> QED BY <1>1, <1>2, <1>3, <1>4

\* A chunk is accepted: one more held, one more pending, one more owed.
LEMMA SubmitPlays ==
  ASSUME PlayInv, Submit
  PROVE  Reached' /\ LagBounded' /\ Balanced' /\ PurgeComplete' /\ DrainMeansPlayed'
<1> USE DEF PlayInv
<1>1. /\ UNCHANGED <<cur, stoppedBefore, failedGens, phase, drain, played>>
      /\ ~IsStopped(cur, stoppedBefore)
      /\ writer' = IF writer = NoWriter THEN Getting ELSE writer
  BY DEF Submit
<1>2. cur \in Gens /\ cur \in Nat /\ writer' \in Gens \cup {NoWriter, Getting} /\ writer' <= cur
  BY <1>1 DEF Reached, Gens, Getting, NoWriter
<1>3. \A g \in Gens : writer' = g <=> writer = g
  BY <1>1 DEF Gens, Getting, NoWriter
<1>4. CASE UNCHANGED <<queue, pending, accepted>>
  <2>1. \A g \in Gens : Held(g)' = Held(g) BY <1>3, <1>4 DEF Held
  <2> QED BY <1>1, <1>2, <1>4, <2>1
            DEF Reached, LagBounded, Balanced, PurgeComplete, DrainMeansPlayed
<1>5. CASE /\ queue' = Append(queue, cur) /\ Len(queue) # Capacity
           /\ pending' = [pending EXCEPT ![cur] = @ + 1]
           /\ accepted' = [accepted EXCEPT ![cur] = @ + 1]
  <2> DEFINE n == Len(queue)
  <2>1. /\ queue \in Seq(Gens) /\ n \in Nat /\ queue' \in Seq(Gens) /\ Len(queue') = n + 1
        /\ \A i \in 1..n : queue'[i] = queue[i]
        /\ queue'[n + 1] = cur
    BY <1>2, <1>5 DEF Reached
  <2>2. \A i \in 1..Len(queue') : i \in 1..n \/ i = n + 1 BY <2>1
  <2> HIDE DEF n
  <2>3. ASSUME NEW g \in Gens
        PROVE  Held(g)' = Held(g) + (IF g = cur THEN 1 ELSE 0) /\ Held(g) \in Nat
    <3>1. UpTo(queue', n, g) = UpTo(queue, n, g) BY <2>1 DEF UpTo
    <3>2. /\ Cardinality(UpTo(queue', n + 1, g))
               = Cardinality(UpTo(queue', n, g)) + (IF queue'[n + 1] = g THEN 1 ELSE 0)
          /\ Cardinality(UpTo(queue', n, g)) \in Nat
      BY <2>1, OneMore
    <3> QED BY <1>3, <2>1, <3>1, <3>2 DEF Held, n
  <2>4. Reached' BY <1>1, <1>2, <1>5, <2>1, <2>2 DEF Reached
  <2>5. Balanced'
    <3> SUFFICES ASSUME phase = "open", NEW g \in Gens, ~IsStopped(g, stoppedBefore)
                 PROVE  /\ Held(g)' <= pending'[g]
                        /\ g \notin failedGens => accepted'[g] - played[g] = pending'[g]
      BY <1>1 DEF Balanced
    <3>1. /\ Held(g) <= pending[g]
          /\ g \notin failedGens => accepted[g] - played[g] = pending[g]
      BY DEF Balanced
    <3>2. pending[g] \in Nat /\ accepted[g] \in Int /\ played[g] \in Int
      BY DEF IInv, Counted, Reached
    <3>3. pending'[g] = pending[g] + (IF g = cur THEN 1 ELSE 0) BY <1>5, <3>2 DEF IInv, Counted
    <3>4. accepted'[g] = accepted[g] + (IF g = cur THEN 1 ELSE 0) BY <1>5, <3>2 DEF Reached
    <3> QED BY <2>3, <3>1, <3>2, <3>3, <3>4
  <2>6. PurgeComplete'
    <3>1. n <= Capacity /\ Capacity \in Nat BY BoundsAssumption DEF PurgeComplete, n
    <3>2. Len(queue') <= Capacity BY <1>5, <2>1, <3>1 DEF n
    <3> QED BY <1>1, <2>1, <2>2, <3>2 DEF PurgeComplete, n
  <2> QED BY <1>1, <2>4, <2>5, <2>6 DEF LagBounded, DrainMeansPlayed
<1> QED BY <1>4, <1>5 DEF Submit

\* A stop purges: what stays is not stopped, and no counter is below what it covers.
LEMMA StopPlays ==
  ASSUME PlayInv, NEW g \in Gens, StopGeneration(g)
  PROVE  Reached' /\ LagBounded' /\ Balanced' /\ PurgeComplete' /\ DrainMeansPlayed'
<1> USE DEF PlayInv
<1> DEFINE before == IF stoppedBefore > g + 1 THEN stoppedBefore ELSE g + 1
<1>1. /\ UNCHANGED <<cur, failedGens, writer, phase, accepted, played>> /\ g < cur
      /\ stoppedBefore' = before /\ queue' = Purged(g)
      /\ pending' = [h \in Gens |-> IF IsStopped(h, before) THEN 0 ELSE pending[h]]
      /\ \E woken : Wake(woken)
  BY DEF StopGeneration
<1>2. /\ cur \in Nat /\ g \in Nat /\ stoppedBefore \in Nat /\ before \in Nat
      /\ before <= cur /\ stoppedBefore <= before /\ g + 1 <= before
      /\ before = stoppedBefore \/ before = g + 1
  BY <1>1, BoundsAssumption DEF Reached, LagBounded, Gens
<1> HIDE DEF before
<1>3. queue \in Seq(Gens) BY DEF Reached
<1>4. /\ queue' \in Seq(Gens) /\ Len(queue') <= Len(queue)
      /\ \A i \in 1..Len(queue') :
           ~IsStopped(queue'[i], g + 1) /\ \E j \in 1..Len(queue) : queue'[i] = queue[j]
      /\ \A h : Cardinality(UpTo(queue', Len(queue'), h)) <= Cardinality(UpTo(queue, Len(queue), h))
  BY <1>1, <1>3, PurgedIs
<1>5. Reached' BY <1>1, <1>4 DEF Reached
<1>6. LagBounded' BY <1>1, <1>2, BoundsAssumption DEF LagBounded
<1>7. ASSUME NEW h \in Gens PROVE Held(h)' <= Held(h) /\ Held(h) \in Nat /\ Held(h)' \in Nat
  <2>1. Len(queue) \in Nat /\ Len(queue') \in Nat BY <1>3, <1>4
  <2>2. /\ Cardinality(UpTo(queue, Len(queue), h)) \in Nat
        /\ Cardinality(UpTo(queue', Len(queue'), h)) \in Nat
    BY <2>1, OneMore
  <2>3. Cardinality(UpTo(queue', Len(queue'), h)) <= Cardinality(UpTo(queue, Len(queue), h))
    BY <1>4
  <2> QED BY <1>1, <2>2, <2>3 DEF Held
<1>8. Balanced'
  <2> SUFFICES ASSUME phase = "open", NEW h \in Gens, ~IsStopped(h, before)
               PROVE  /\ Held(h)' <= pending'[h]
                      /\ h \notin failedGens => accepted[h] - played[h] = pending'[h]
    BY <1>1 DEF Balanced
  <2>1. ~IsStopped(h, stoppedBefore) /\ pending'[h] = pending[h] /\ pending[h] \in Nat
    BY <1>1, <1>2 DEF IsStopped, Gens, IInv, Counted
  <2> QED BY <1>7, <2>1 DEF Balanced
<1>9. PurgeComplete'
  <2>1. Len(queue') <= Capacity
    BY <1>3, <1>4, BoundsAssumption DEF PurgeComplete
  <2>2. ASSUME NEW i \in 1..Len(queue') PROVE ~IsStopped(queue'[i], before)
    <3>1. ~IsStopped(queue'[i], g + 1) BY <1>4
    <3>2. ~IsStopped(queue'[i], stoppedBefore) BY <1>4 DEF PurgeComplete
    <3> QED BY <1>2, <3>1, <3>2
  <2> QED BY <1>1, <2>1, <2>2 DEF PurgeComplete
<1>10. DrainMeansPlayed' BY <1>1, WakeKeepsResults
<1> QED BY <1>5, <1>6, <1>8, <1>9, <1>10

\* A caller of drain() learns that its generation was played only when nothing of it
\* is pending and no failure of it is on record.
LEMMA DrainPlays ==
  ASSUME PlayInv, NEW d \in Drainers, DrainWake(d) \/ \E g \in Gens : DrainCall(d, g)
  PROVE  Reached' /\ LagBounded' /\ Balanced' /\ PurgeComplete' /\ DrainMeansPlayed'
<1> USE DEF PlayInv
<1>1. UNCHANGED <<cur, queue, stoppedBefore, pending, failedGens, writer, phase, accepted, played>>
  BY DEF DrainWake, DrainCall
<1>2. Reached' /\ LagBounded' /\ Balanced' /\ PurgeComplete'
  BY <1>1 DEF Reached, LagBounded, Balanced, Held, PurgeComplete
<1>3. PICK g \in Gens :
        \/ Return(d, g, FALSE)
        \/ DrainLoop(d, g) /\ ~IsStopped(g, stoppedBefore) /\ phase = "open"
  <2>1. CASE DrainWake(d)
    BY <2>1 DEF DrainWake, closed, IInv, Waiters
  <2>2. CASE \E g \in Gens : DrainCall(d, g)
    BY <2>2 DEF DrainCall, closed
  <2> QED BY <2>1, <2>2
<1>4. pending[g] \in Nat BY DEF IInv, Counted
<1>5. \A e \in Drainers : e # d => drain'[e] = drain[e]
  BY <1>3 DEF DrainLoop, Return, IInv
<1>6. drain'[d].at = "done" /\ drain'[d].ok => drain'[d].owed = 0
  <2>1. CASE Return(d, g, FALSE) BY <2>1 DEF Return, IInv
  <2>2. CASE DrainLoop(d, g) /\ ~IsStopped(g, stoppedBefore) /\ phase = "open"
    <3>1. CASE pending[g] > 0 BY <2>2, <3>1 DEF DrainLoop, IInv
    <3>2. CASE ~(pending[g] > 0)
      <4>1. pending[g] = 0 /\ Return(d, g, g \notin failedGens) BY <1>4, <2>2, <3>2 DEF DrainLoop
      <4>2. g \notin failedGens => accepted[g] - played[g] = 0 BY <2>2, <4>1 DEF Balanced
      <4> QED BY <4>1, <4>2 DEF Return, IInv
    <3> QED BY <3>1, <3>2
  <2> QED BY <1>3, <2>1, <2>2
<1>7. DrainMeansPlayed' BY <1>5, <1>6 DEF DrainMeansPlayed
<1> QED BY <1>2, <1>7
\* A chunk goes to the device, or leaves it: the counter drops with what is held,
\* and by what the device took unless the failure is remembered.
LEMMA WriterPlays ==
  ASSUME PlayInv, WriterStep \/ WriterCancelled
  PROVE  Reached' /\ LagBounded' /\ Balanced' /\ PurgeComplete' /\ DrainMeansPlayed'
<1> USE DEF PlayInv
<1>1. CASE WriterGet
  <2> DEFINE h == Head(queue)
  <2>1. /\ queue \in Seq(Gens) /\ queue # <<>> /\ queue' = Tail(queue) /\ phase = "open"
        /\ writer = Getting
        /\ UNCHANGED <<cur, stoppedBefore, failedGens, phase, accepted, played>>
    BY <1>1 DEF WriterGet, Reached
  <2>2. /\ queue' \in Seq(Gens) /\ Len(queue') = Len(queue) - 1 /\ Len(queue) \in Nat \ {0}
        /\ \A i \in 1..Len(queue') : queue'[i] = queue[i + 1] /\ i + 1 \in 1..Len(queue)
        /\ h = queue[1] /\ h \in Gens /\ 1 \in 1..Len(queue)
    BY <2>1
  <2>3. ~IsStopped(h, stoppedBefore) BY <2>2 DEF PurgeComplete
  <2>4. writer' = h /\ UNCHANGED <<pending, drain>> BY <1>1, <2>3 DEF WriterGet
  <2>5. ASSUME NEW g \in Gens PROVE Held(g)' <= Held(g) /\ Held(g) \in Nat /\ Held(g)' \in Nat
    <3>1. Cardinality(UpTo(Tail(queue), Len(Tail(queue)), g)) + (IF Head(queue) = g THEN 1 ELSE 0)
            <= Cardinality(UpTo(queue, Len(queue), g))
      BY <2>1, Taken
    <3>2. /\ Cardinality(UpTo(queue, Len(queue), g)) \in Nat
          /\ Cardinality(UpTo(queue', Len(queue'), g)) \in Nat
      BY <2>2, OneMore, Len(queue') \in Nat
    <3>3. writer # g BY <2>1 DEF Gens, Getting
    <3> QED BY <2>1, <2>4, <3>1, <3>2, <3>3 DEF Held
  <2>6. Reached' BY <2>1, <2>2, <2>4 DEF Reached
  <2>7. Balanced' BY <2>1, <2>4, <2>5 DEF Balanced, IInv, Counted
  <2>8. PurgeComplete' BY <2>1, <2>2, BoundsAssumption DEF PurgeComplete
  <2> QED BY <2>1, <2>4, <2>6, <2>7, <2>8 DEF LagBounded, DrainMeansPlayed
<1>2. CASE WriteDone \/ WriteFailed
  <2> DEFINE w == writer
  <2>1. /\ w \in Gens /\ phase = "open" /\ Release(w) /\ writer' = Getting
        /\ UNCHANGED <<cur, queue, stoppedBefore, phase, accepted>>
    BY <1>2 DEF WriteDone, WriteFailed
  <2>2. /\ \A h \in Gens \ {w} : pending'[h] = pending[h]
        /\ pending'[w] = IF pending[w] > 0 THEN pending[w] - 1 ELSE 0
    BY <2>1, Released
  <2>3. ASSUME NEW g \in Gens
        PROVE  Held(g)' = Held(g) - (IF g = w THEN 1 ELSE 0) /\ Held(g)' \in Nat
    <3>1. Cardinality(UpTo(queue, Len(queue), g)) \in Nat
      BY OneMore, Len(queue) \in Nat DEF Reached
    <3>2. writer' # g BY <2>1 DEF Gens, Getting
    <3> QED BY <2>1, <3>1, <3>2 DEF Held
  <2>4. w \in 0..cur /\ cur \in Nat BY <2>1 DEF Reached, Gens
  <2>5. /\ failedGens' \subseteq 0..cur /\ Cardinality(failedGens') <= MaxTracked
        /\ \A h \in failedGens : ~IsStopped(h, stoppedBefore) => h \in failedGens'
        /\ played' \in [Gens -> Int]
        /\ \A h \in Gens \ {w} : played'[h] = played[h]
        /\ \/ played'[w] = played[w] + 1
           \/ ~IsStopped(w, stoppedBefore) => w \in failedGens'
    <3>1. CASE WriteDone
      <4>1. played' = [played EXCEPT ![w] = @ + 1] /\ failedGens' = failedGens
        BY <3>1 DEF WriteDone
      <4> QED BY <2>1, <4>1 DEF Reached
    <3>2. CASE WriteFailed
      <4>1. failedGens' = RememberFailure(w) /\ played' = played BY <3>2 DEF WriteFailed
      <4> QED BY <2>4, <4>1, FailuresKept DEF Reached
    <3> QED BY <1>2, <3>1, <3>2
  <2>6. Reached' BY <2>1, <2>4, <2>5 DEF Reached, Getting
  <2>7. Balanced'
    <3> SUFFICES ASSUME NEW g \in Gens, ~IsStopped(g, stoppedBefore)
                 PROVE  /\ Held(g)' <= pending'[g]
                        /\ g \notin failedGens' => accepted[g] - played'[g] = pending'[g]
      BY <2>1 DEF Balanced
    <3>1. /\ Held(g) <= pending[g] /\ pending[g] \in Nat
          /\ g \notin failedGens => accepted[g] - played[g] = pending[g]
          /\ accepted[g] \in Int /\ played[g] \in Int
          /\ g \in failedGens => g \in failedGens'
      BY <2>1, <2>5 DEF Balanced, IInv, Counted, Reached
    <3>4. Held(g) \in Int
      <4>1. Cardinality(UpTo(queue, Len(queue), g)) \in Nat
        BY OneMore, Len(queue) \in Nat DEF Reached
      <4> QED BY <4>1 DEF Held
    <3>2. CASE g # w
      <4>1. Held(g)' = Held(g) BY <2>3, <3>2, <3>4
      <4>2. pending'[g] = pending[g] /\ played'[g] = played[g] BY <2>2, <2>5, <3>2
      <4> QED BY <3>1, <4>1, <4>2
    <3>3. CASE g = w
      <4>1. Held(g) = Held(g)' + 1 /\ Held(g)' \in Nat /\ Held(g) \in Int
        BY <2>3, <3>3, <3>4
      <4>2. pending[g] > 0 /\ pending'[g] = pending[g] - 1 BY <2>2, <3>1, <3>3, <4>1
      <4> QED BY <2>5, <3>1, <3>3, <4>1, <4>2
    <3> QED BY <3>2, <3>3
  <2>8. PurgeComplete' BY <2>1 DEF PurgeComplete
  <2>9. DrainMeansPlayed' BY <2>1, ReleaseKeepsResults
  <2> QED BY <2>1, <2>6, <2>7, <2>8, <2>9 DEF LagBounded
<1>3. CASE WriterCancelled
  <2>1. /\ phase' # "open" /\ writer' = NoWriter
        /\ UNCHANGED <<cur, queue, stoppedBefore, failedGens, accepted, played>>
        /\ UNCHANGED drain \/ Release(writer)
    BY <1>3 DEF WriterCancelled
  <2>2. DrainMeansPlayed' BY <2>1, ReleaseKeepsResults, WakeKeepsResults
  <2> QED BY <2>1, <2>2 DEF Reached, LagBounded, Balanced, PurgeComplete, NoWriter, Gens
<1> QED BY <1>1, <1>2, <1>3 DEF WriterStep

LEMMA StepPlays == PlayInv /\ [Next]_vars => PlayInv'
<1> SUFFICES ASSUME PlayInv, [Next]_vars PROVE PlayInv' OBVIOUS
<1>1. IInv' BY StepPreserves DEF PlayInv
<1>2. Reached' /\ LagBounded' /\ Balanced' /\ PurgeComplete' /\ DrainMeansPlayed'
  BY OthersPlay, SubmitPlays, StopPlays, DrainPlays, WriterPlays DEF Next, CloseStep
<1> QED BY <1>1, <1>2 DEF PlayInv

\* What is queued, counted, played and remembered as failed stays in step, for every
\* capacity, any number of generations and any set of callers.
THEOREM PlayInvariance == Spec => []PlayInv
<1>1. Init => PlayInv BY InitPlays
<1>2. PlayInv /\ [Next]_vars => PlayInv' BY StepPlays
<1> QED BY <1>1, <1>2, PTL DEF Spec

\* A stop leaves nothing of a stopped generation in the queue (playback.py,
\* stop_generation), and the queue never exceeds its capacity.
THEOREM StoppedIsPurged == Spec => []PurgeComplete
<1>1. PlayInv => PurgeComplete BY DEF PlayInv
<1> QED BY <1>1, PlayInvariance, PTL

\* drain() returns True only after the device took every chunk accepted so far
\* (playback.py, drain), although failures past the limit are forgotten.
THEOREM TrueMeansPlayed == Spec => []DrainMeansPlayed
<1>1. PlayInv => DrainMeansPlayed BY DEF PlayInv
<1> QED BY <1>1, PlayInvariance, PTL
-----------------------------------------------------------------------------
(* The pump and the gate.                                                  *)

\* The timeline: what the gate holds lies between the last fence and the next
\* window, and nothing is held while no window is expected.
Timeline ==
  /\ nextStart = None =>
       /\ policy = FreshPolicy /\ ring = EmptyRing /\ utterance = NoUtterance
       /\ fencedFrom \in {None, 0}
  /\ nextStart # None => fencedFrom # None /\ fencedFrom <= nextStart
  /\ ring.start # None => fencedFrom <= ring.start /\ ring.start <= nextStart

\* Speech being confirmed: it has not lasted through the threshold yet, the ring
\* still holds its onset, and only Lune speaking has kept it waiting.
Confirming ==
  ~policy.active =>
    /\ policy.silence = None
    /\ policy.onset # None =>
         /\ ring.start # None /\ ring.start <= policy.onset
         /\ policy.onset < nextStart /\ nextStart < policy.onset + BargeIn
         /\ sawActive \/ nextStart < policy.onset + IdleStart

\* A turn being captured: its utterance reaches up to the next window, and the
\* silence being measured starts where the last voiced window ended.
Capturing ==
  policy.active =>
    /\ utterance.start # None /\ utterance.end = nextStart
    /\ utterance.end - utterance.start - utterance.held = slack
    /\ utterance.start <= lastVoiced /\ lastVoiced <= nextStart
    /\ policy.silence = None => lastVoiced = nextStart
    /\ policy.silence # None => policy.silence = lastVoiced /\ nextStart < lastVoiced + EndSilence
    /\ outcome # "lost" => nextStart - utterance.start < MaxUtterance

\* An utterance without a turn is one whose capture was lost.
Orphaned ==
  utterance.start # None =>
    /\ fencedFrom <= utterance.start /\ utterance.start < utterance.end
    /\ utterance.end <= nextStart
    /\ ~policy.active => slack > 0

\* Only a turn that goes on waits for its barge-in, so no onset outlives the ring.
Awaiting == interrupting => policy.active \/ policy.onset = None

\* The gate on its own, with the two properties it is for.
GateInv == GateTypeOK /\ Timeline /\ Confirming /\ Capturing /\ Orphaned /\ Awaiting
           /\ OnlyThresholdDropLoses /\ CaptureHonest

\* The fences: callers wait in the order of their generations, and a barge-in that
\* has not reached the gate is one the pump is waiting for.
Passed == IF between THEN 1 ELSE 0
Fencing ==
  /\ between => teardowns # <<>>
  /\ \A i \in DOMAIN teardowns : teardowns[i].cur = gateGen + i - Passed
  /\ gen = gateGen + Len(teardowns) - Passed
  /\ \A i \in DOMAIN teardowns :
       i > Passed /\ teardowns[i].reason = "barge_in" =>
         /\ interrupting
         /\ \A j \in DOMAIN teardowns : j > Passed /\ teardowns[j].reason = "barge_in" => i = j
  /\ between /\ Head(teardowns).reason # "barge_in" => nextStart = None /\ outcome = "none"

\* The stamps: later spans have newer ones, except those stamped by a fence that a
\* rebuild had overtaken; what a barge-in carries over is always the generation before.
Stamps ==
  /\ ahead <= gen /\ resetGen <= gateGen
  /\ transportGen <= gen
  /\ transportGen <= gateGen \/ transportGen <= ahead
  /\ carried \in {None, gateGen - 1}
  /\ \A i \in DOMAIN inbox :
       /\ inbox[i].gen <= gen
       /\ inbox[i].gen <= gateGen \/ inbox[i].gen <= ahead
       /\ inbox[i].gen <= transportGen \/ transportGen < ahead
       /\ \A j \in DOMAIN inbox : i < j => inbox[i].gen <= inbox[j].gen \/ inbox[j].gen < ahead
  /\ gateGen > resetGen /\ carried # gateGen - 1 =>
       /\ transportGen >= gateGen \/ transportGen < ahead
       /\ \A i \in DOMAIN inbox : inbox[i].gen >= gateGen \/ inbox[i].gen < ahead

\* The epochs: a rebuild empties the queue, and one that was part of a cancel finds
\* the gate reset.
Epochs ==
  /\ \A i \in DOMAIN inbox : inbox[i].epoch = epoch
  /\ fenced => nextStart = None \/ gateEpoch = epoch
  /\ outcome = "lost" /\ policy.active => gateEpoch = epoch

\* A recovery that cancels is the only one under way until its fence has rebuilt the
\* transport.
Recovering ==
  \A i \in DOMAIN teardowns :
    teardowns[i].reason = "stream_error" =>
      /\ recovery = "cancel" /\ epoch < MaxEpochs
      /\ \A j \in DOMAIN teardowns : teardowns[j].reason = "stream_error" => i = j

\* The inductive invariant of the microphone path.
InputInv == GateInv /\ InputTypeOK /\ Fencing /\ Stamps /\ Epochs /\ Recovering
        /\ DropsExplained /\ NoFencedSplice
-----------------------------------------------------------------------------
(* One window of the gate.                                                 *)

\* What each part of the gate ranges over.
Policies   == [next : Position, onset : Position, silence : Position, active : BOOLEAN]
Rings      == [start : Position, end : Position]
Utterances == [start : Position, end : Position, held : Nat]

\* What the gate holds when the window [s, s + Window) is analysed, the timeline
\* restarted if it had to be: policy p, ring r, utterance u that lacks m samples, and
\* f and v for fencedFrom and lastVoiced.
Ready(s, p, r, u, f, v, m) ==
  /\ s \in Nat /\ p \in Policies /\ r \in Rings /\ u \in Utterances
  /\ f \in Nat /\ f <= s /\ v \in Position /\ m \in Nat
  /\ r.start # None => f <= r.start /\ r.start <= s
  /\ ~p.active =>
       /\ p.silence = None
       /\ p.onset # None => /\ r.start # None /\ r.start <= p.onset
                            /\ p.onset < s /\ s < p.onset + BargeIn
                            /\ sawActive \/ s < p.onset + IdleStart
  /\ p.active =>
       /\ u.start # None /\ u.end = s /\ u.end - u.start - u.held = m
       /\ u.start <= v /\ v <= s
       /\ p.silence = None => v = s
       /\ p.silence # None => p.silence = v /\ s < v + EndSilence
       /\ s - u.start < MaxUtterance
  /\ u.start # None =>
       f <= u.start /\ u.start < u.end /\ u.end <= s /\ (~p.active => m > 0)

\* A window that does not follow the last one restarts the timeline.
Base(s, fresh, kept) == IF Restarts(s) THEN fresh ELSE kept

\* The invariant of the gate, put in those terms, after the timeline was restarted.
LEMMA WindowReady ==
  ASSUME GateInv, NEW s \in Nat, outcome = "lost" => ~policy.active,
         fencedFrom' = IF fencedFrom = None \/ (Restarts(s) /\ s < fencedFrom) THEN s ELSE fencedFrom
  PROVE  Ready(s, Base(s, FreshPolicy, policy), Base(s, EmptyRing, ring),
               Base(s, NoUtterance, utterance), fencedFrom', Base(s, None, lastVoiced),
               IF utterance.start = None \/ Restarts(s) THEN 0 ELSE slack)
<1> USE WindowAssumption, PolicyAssumption, CapacityAssumption
    DEF GateInv, GateTypeOK, Ready, Base, Policies, Rings, Utterances, Position, None
<1>1. CASE Restarts(s)
  <2>1. fencedFrom \in Nat BY <1>1 DEF Restarts, Timeline
  <2> QED BY <1>1, <2>1 DEF FreshPolicy, EmptyRing, NoUtterance
<1>2. CASE ~Restarts(s) /\ nextStart = None
  BY <1>2 DEF Timeline, FreshPolicy, EmptyRing, NoUtterance
<1>3. CASE ~Restarts(s) /\ nextStart # None
  <2>1. nextStart = s BY <1>3 DEF Restarts
  <2>2. fencedFrom' = fencedFrom /\ fencedFrom \in Nat /\ fencedFrom <= s
    BY <1>3, <2>1 DEF Timeline
  <2> QED BY <1>3, <2>1, <2>2 DEF Timeline, Confirming, Capturing, Orphaned
<1> QED BY <1>1, <1>2, <1>3

\* What is true of the gate after a window that ends at e: policy p, ring r, utterance u,
\* a capture c, whether Lune was heard speaking before (a), and the outcome.
Honest(c, f, v, m) ==
  /\ m > 0 => c.end = c.start + MaxUtterance
  /\ f <= c.start /\ c.start < c.end
  /\ c.end - c.start <= MaxUtterance
  /\ c.start <= c.last /\ c.last <= c.end
  /\ ~c.bounded => \/ c.last = Larger(c.start, v)
                   \/ /\ c.end = c.start + MaxUtterance
                      /\ c.last \in (v - Window)..v

\* The types of what a window leaves.
Captures == [start : Position, end : Position, held : Nat, last : Position, bounded : BOOLEAN]

Typed(p, r, u, c, v, m, out) ==
  /\ p \in Policies /\ r \in Rings /\ u \in Utterances /\ c \in Captures
  /\ v \in Position /\ m \in Nat
  /\ out \in {"none", "started", "barge_in", "captured", "lost"}

\* The three parts of the invariant about policy, ring and utterance.
Waits(e, p, r, a) ==
  ~p.active =>
    /\ p.silence = None
    /\ p.onset # None => /\ r.start <= p.onset
                         /\ p.onset < e /\ e < p.onset + BargeIn
                         /\ a \/ e < p.onset + IdleStart

Turns(e, p, u, v, m, out) ==
  p.active =>
    /\ u.start # None /\ u.end = e /\ u.end - u.start - u.held = m
    /\ u.start <= v /\ v <= e
    /\ p.silence = None => v = e
    /\ p.silence # None => p.silence = v /\ e < v + EndSilence
    /\ out # "lost" => e - u.start < MaxUtterance

\* An utterance lies between the fence and the end of the window, turn or not.
Holds(e, p, u, f, m) ==
  u.start # None => /\ f <= u.start /\ u.start < u.end /\ u.end <= e
                    /\ ~p.active => m > 0

\* All of it.
Settles(e, p, r, u, c, f, v, a, m, out) ==
  /\ Typed(p, r, u, c, v, m, out)
  /\ r.start # None /\ f <= r.start /\ r.start <= e
  /\ Waits(e, p, r, a)
  /\ Turns(e, p, u, v, m, out)
  /\ Holds(e, p, u, f, m)
  /\ out = "lost" => m > 0
  /\ out = "captured" => Honest(c, f, v, m)

\* The ring keeps everything since an onset that is still being confirmed.
LEMMA RingKeeps ==
  ASSUME NEW s, NEW p, NEW r, NEW u, NEW f, NEW v, NEW m, Ready(s, p, r, u, f, v, m)
  PROVE  LET q == RingAppend(r, s, s + Window)
         IN  /\ q \in Rings /\ q.end = s + Window /\ q.start \in Nat
             /\ f <= q.start /\ q.start <= s
             /\ ~p.active /\ p.onset # None => q.start <= p.onset
BY WindowAssumption, PolicyAssumption, CapacityAssumption
   DEF Ready, RingAppend, Larger, Rings, Policies, Position, None

\* What a capture of an utterance looks like.
LEMMA CutShape ==
  ASSUME NEW u \in Utterances, u.start # None, u.start < u.end, NEW bounded \in BOOLEAN,
         bounded => u.end - u.start >= MaxUtterance
  PROVE  LET c == Captured(u, bounded)
         IN  /\ c \in Captures
             /\ c.start = u.start /\ c.start < c.end /\ c.end <= u.end
             /\ c.end - c.start <= MaxUtterance
             /\ c.start <= c.last /\ c.last <= c.end
             /\ c.bounded = bounded
             /\ bounded => c.last = c.end /\ c.end = c.start + MaxUtterance
             /\ c.end = Smaller(u.end, u.start + MaxUtterance)
             /\ ~bounded => c.last = Larger(c.start, c.end - EndSilence)
<1> USE PolicyAssumption, CapacityAssumption
        DEF Captured, Captures, Smaller, Larger, Utterances, Position, None
<1>1. u.start \in Nat /\ u.end \in Nat OBVIOUS
<1> QED BY <1>1

\* It lacks samples only if the utterance does, and hides that only by the cut.
LEMMA CutWhole ==
  ASSUME NEW u \in Utterances, u.start # None, u.start < u.end, NEW bounded \in BOOLEAN
  PROVE  LET c == Captured(u, bounded)
             m == u.end - u.start - u.held
         IN  /\ ~Whole(c) => m # 0
             /\ Whole(c) /\ m > 0 => c.end = c.start + MaxUtterance
<1> USE CapacityAssumption DEF Captured, Smaller, Utterances, Position, None, Whole
<1>1. u.start \in Nat /\ u.end \in Nat OBVIOUS
<1> QED BY <1>1

LEMMA ExtendKeeps ==
  ASSUME NEW u \in Utterances, u.start # None, u.start < u.end, NEW s \in Nat, NEW until \in Nat
  PROVE  LET x    == Extended(u, s, until)
             from == Larger(u.end, s)
         IN  /\ x \in Utterances /\ x.start = u.start
             /\ x.end = IF from < until THEN until ELSE u.end
             /\ x.held = u.held + (IF from < until THEN until - from ELSE 0)
<1>1. PICK from : from = Larger(u.end, s) OBVIOUS
<1>2. from \in Nat /\ u.end \in Nat /\ u.held \in Nat
  BY <1>1 DEF Larger, Utterances, Position, None
<1>3. CASE from < until
  <2>1. PICK h : h = u.held + (until - from) OBVIOUS
  <2>2. h \in Nat BY <1>2, <1>3, <2>1
  <2>3. PICK x : x = [u EXCEPT !.end = until] OBVIOUS
  <2>4. x \in Utterances /\ x.start = u.start /\ x.end = until /\ x.held = u.held
    BY <2>3 DEF Utterances, Position
  <2>5. PICK y : y = [x EXCEPT !.held = h] OBVIOUS
  <2>6. y \in Utterances /\ y.start = u.start /\ y.end = until /\ y.held = h
    BY <2>2, <2>4, <2>5 DEF Utterances
  <2>7. y = Extended(u, s, until)
    BY <1>1, <1>2, <1>3, <2>1, <2>3, <2>5 DEF Extended
  <2> QED BY <1>1, <1>3, <2>1, <2>6, <2>7
<1>4. CASE ~(from < until)
  <2>1. Extended(u, s, until) = u BY <1>1, <1>2, <1>4 DEF Extended
  <2> QED BY <1>1, <1>2, <1>4, <2>1
<1> QED BY <1>3, <1>4

\* A window of a turn that goes on, and one of speech or silence not confirmed.
LEMMA TurnGoesOn ==
  ASSUME NEW s, NEW p, NEW r, NEW u, NEW f, NEW v, NEW m, Ready(s, p, r, u, f, v, m), p.active,
         NEW voiced \in BOOLEAN, NEW fed, fed = Active(p, s, s + Window, voiced),
         fed.kind = "none", NEW w, w = IF voiced THEN s + Window ELSE v
  PROVE  /\ fed.policy \in Policies /\ fed.policy.active /\ fed.onset = None
         /\ fed.policy.silence = None => w = s + Window
         /\ fed.policy.silence # None =>
              fed.policy.silence = w /\ s + Window < w + EndSilence
         /\ w \in Position /\ u.start <= w /\ w <= s + Window
<1>1. /\ s \in Nat /\ p \in Policies /\ v \in Position /\ v <= s
      /\ u.start \in Nat /\ u.start <= v
      /\ p.silence = None => v = s
      /\ p.silence # None => p.silence = v /\ s < v + EndSilence
  BY DEF Ready, Utterances, Position, None
<1> USE WindowAssumption, PolicyAssumption DEF Policies, Position, None
<1>2. PICK e : e = s + Window OBVIOUS
<1>3. PICK quiet : quiet = IF voiced THEN None ELSE IF p.silence = None THEN s ELSE p.silence
  OBVIOUS
<1>4. PICK x : x = [p EXCEPT !.next = e] OBVIOUS
<1>5. quiet \in Position /\ e \in Position /\ e \in Nat /\ s < e BY <1>1, <1>2, <1>3
<1>6. x \in Policies /\ x.active = p.active BY <1>1, <1>4, <1>5
<1>10. PICK q : q = [x EXCEPT !.silence = quiet] OBVIOUS
<1>11. q \in Policies /\ q.active = p.active /\ q.silence = quiet BY <1>5, <1>6, <1>10
<1>7. ~(~voiced /\ e >= quiet + EndSilence)
  BY <1>2, <1>3 DEF Active
<1>8. fed.policy = q /\ fed.onset = None
  BY <1>2, <1>3, <1>4, <1>7, <1>10 DEF Active
<1>9. /\ quiet = None => w = e
      /\ quiet # None => quiet = w /\ e < w + EndSilence
      /\ w \in Position /\ u.start <= w /\ w <= e
  <2>1. CASE voiced BY <1>1, <1>2, <1>3, <1>5, <2>1
  <2>2. CASE ~voiced BY <1>1, <1>2, <1>3, <1>5, <1>7, <2>2
  <2> QED BY <2>1, <2>2
<1> QED BY <1>2, <1>8, <1>9, <1>11

\* A window that confirms nothing leaves an onset that is short of the threshold.
LEMMA StillWaiting ==
  ASSUME NEW p \in Policies, ~p.active, p.silence = None, NEW s \in Nat,
         p.onset # None => p.onset < s /\ s < p.onset + BargeIn,
         NEW voiced \in BOOLEAN, NEW ai \in BOOLEAN,
         Waiting(p, s, s + Window, voiced, ai).kind = "none"
  PROVE  LET e == s + Window
             fed == Waiting(p, s, e, voiced, ai)
             q == fed.policy
         IN  /\ q \in Policies /\ ~q.active /\ q.silence = None /\ q.onset = fed.onset
             /\ q.onset \in {None, s, p.onset}
             /\ q.onset # None => q.onset < e /\ e < q.onset + BargeIn
                                  /\ (ai \/ e < q.onset + IdleStart)
<1> USE WindowAssumption, PolicyAssumption DEF Policies, Position, None
<1>1. CASE ~voiced BY <1>1 DEF Waiting
<1>2. CASE voiced /\ p.onset = None BY <1>2 DEF Waiting
<1>3. CASE voiced /\ p.onset # None BY <1>3 DEF Waiting
<1> QED BY <1>1, <1>2, <1>3

\* A window that opens no turn and ends none.
LEMMA QuietSettles ==
  ASSUME NEW s, NEW p, NEW r, NEW u, NEW f, NEW v, NEW m, Ready(s, p, r, u, f, v, m),
         NEW voiced \in BOOLEAN, NEW ai \in BOOLEAN, NEW a,
         NEW e, e = s + Window,
         NEW fed, fed = PolicyFeed(p, s, e, voiced, ai), fed.kind = "none",
         a = IF fed.onset # None THEN ai \/ (sawActive /\ fed.onset < s) ELSE sawActive,
         NEW q, q = RingAppend(r, s, e),
         NEW x, x = IF u.start = None THEN u ELSE Extended(u, s, e),
         NEW b \in BOOLEAN, b <=> x.start # None /\ x.end - x.start >= MaxUtterance,
         NEW c, c = Captured(x, b),
         NEW l \in BOOLEAN, l <=> b /\ ~Whole(c),
         NEW w, w = IF voiced THEN e ELSE v,
         NEW p1, p1 = IF b /\ ~l THEN FreshPolicy ELSE fed.policy,
         NEW u1, u1 = IF b /\ ~l THEN NoUtterance ELSE x,
         NEW c1, c1 = IF b /\ ~l THEN c ELSE NoCapture,
         NEW o1, o1 = IF l THEN "lost" ELSE IF b THEN "captured" ELSE "none"
  PROVE  Settles(e, p1, q, u1, c1, f, w, a, m, o1)
<1> USE WindowAssumption, PolicyAssumption, CapacityAssumption
<1>1. e \in Nat /\ s < e /\ s \in Nat BY DEF Ready
<1>2. q \in Rings /\ q.start \in Nat /\ f <= q.start /\ q.start <= e
  <2>1. q \in Rings /\ q.start \in Nat /\ f <= q.start /\ q.start <= s BY RingKeeps
  <2> QED BY <1>1, <2>1 DEF Ready
<1>3. x \in Utterances /\ (x.start = None <=> u.start = None)
      /\ (u.start # None => x.start = u.start /\ x.start < x.end /\ f <= x.start /\ x.end = e
                            /\ (p.active => x.end - x.start - x.held = m)
                            /\ (~p.active => m > 0))
  <2>1. CASE u.start = None BY <2>1 DEF Ready
  <2>2. CASE u.start # None
    <3>1. u \in Utterances /\ u.start < u.end /\ u.end <= s BY <2>2 DEF Ready
    <3>2. u.end \in Nat /\ u.start \in Nat /\ u.held \in Nat
      BY <2>2, <3>1 DEF Utterances, Position, None
    <3>3. Larger(u.end, s) = s BY <1>1, <3>1, <3>2 DEF Larger
    <3>4. x \in Utterances /\ x.start = u.start /\ x.end = e /\ x.held = u.held + (e - s)
      BY <1>1, <2>2, <3>1, <3>3, ExtendKeeps
    <3> QED BY <1>1, <2>2, <3>1, <3>2, <3>4 DEF Ready
  <2> QED BY <2>1, <2>2
<1>4. /\ fed.policy \in Policies /\ fed.policy.active = p.active
      /\ ~p.active => /\ fed.policy.silence = None
                      /\ fed.policy.onset # None =>
                           /\ q.start <= fed.policy.onset /\ fed.policy.onset < e
                           /\ e < fed.policy.onset + BargeIn
                           /\ a \/ e < fed.policy.onset + IdleStart
      /\ p.active => /\ fed.policy.silence = None => w = e
                     /\ fed.policy.silence # None => fed.policy.silence = w /\ e < w + EndSilence
                     /\ u.start <= w /\ w <= e
  <2>0. p \in Policies /\ v \in Position BY DEF Ready
  <2>1. CASE p.active
    <3>1. fed = Active(p, s, e, voiced) BY <2>1 DEF PolicyFeed
    <3>2. /\ fed.policy \in Policies /\ fed.policy.active
          /\ fed.policy.silence = None => w = e
          /\ fed.policy.silence # None => fed.policy.silence = w /\ e < w + EndSilence
          /\ u.start <= w /\ w <= e
      BY <2>1, <3>1, TurnGoesOn
    <3> QED BY <2>1, <3>2
  <2>2. CASE ~p.active
    <3>1. fed = Waiting(p, s, e, voiced, ai) BY <2>2 DEF PolicyFeed
    <3>2. p.silence = None /\ (p.onset # None => p.onset < s /\ s < p.onset + BargeIn)
      BY <2>2 DEF Ready
    <3>3. /\ fed.policy \in Policies /\ ~fed.policy.active /\ fed.policy.silence = None
          /\ fed.policy.onset = fed.onset /\ fed.policy.onset \in {None, s, p.onset}
          /\ fed.policy.onset # None =>
               /\ fed.policy.onset < e /\ e < fed.policy.onset + BargeIn
               /\ ai \/ e < fed.policy.onset + IdleStart
      BY <1>1, <2>0, <2>2, <3>1, <3>2, StillWaiting
    <3>4. q.start <= s /\ (p.onset # None => q.start <= p.onset) BY <2>2, RingKeeps
    <3>5. fed.policy.onset # None => q.start <= fed.policy.onset BY <3>3, <3>4
    <3>6. fed.policy.onset # None => a \/ e < fed.policy.onset + IdleStart BY <3>3
    <3> QED BY <2>0, <2>2, <3>3, <3>5, <3>6 DEF Policies
  <2> QED BY <2>1, <2>2
<1>5. w \in Position /\ m \in Nat BY <1>1 DEF Ready, Position
<1>7. CASE ~b
  <2>1. ~l BY <1>7
  <2>2. NoCapture \in Captures BY DEF NoCapture, Captures, Position, None
  <2>3. Settles(e, fed.policy, q, x, NoCapture, f, w, a, m, "none")
    <3>1. Typed(fed.policy, q, x, NoCapture, w, m, "none")
      BY <1>2, <1>3, <1>4, <1>5, <2>2 DEF Typed
    <3>2. Waits(e, fed.policy, q, a) BY <1>4 DEF Waits
    <3>3. Turns(e, fed.policy, x, w, m, "none")
      <4> SUFFICES ASSUME p.active PROVE Turns(e, fed.policy, x, w, m, "none") BY <1>4 DEF Turns
      <4>1. u.start # None BY DEF Ready
      <4>2. x.start # None /\ x.start = u.start /\ x.end = e /\ x.end - x.start - x.held = m
        BY <1>3, <4>1
      <4>3. x.start \in Nat BY <1>3, <4>2 DEF Utterances, Position
      <4>4. e - x.start < MaxUtterance BY <1>1, <1>7, <4>2, <4>3
      <4> QED BY <1>4, <4>2, <4>4 DEF Turns
    <3>4. Holds(e, fed.policy, x, f, m) BY <1>1, <1>3, <1>4 DEF Holds
    <3>5. q.start # None BY <1>2 DEF None
    <3> QED BY <1>2, <3>1, <3>2, <3>3, <3>4, <3>5 DEF Settles
  <2>4. p1 = fed.policy /\ u1 = x /\ c1 = NoCapture /\ o1 = "none" BY <1>7, <2>1
  <2> QED BY <2>3, <2>4
<1>8. CASE b
  <2> DEFINE k == x.end - x.start - x.held
  <2>1. /\ c \in Captures
        /\ c.start = x.start /\ c.start < c.end /\ c.end <= x.end
        /\ c.end - c.start <= MaxUtterance
        /\ c.last = c.end /\ c.bounded /\ c.end = c.start + MaxUtterance
    BY <1>3, <1>8, CutShape
  <2>2. l => m > 0
    <3>1. CASE p.active
      <4>1. ~Whole(c) => x.end - x.start - x.held # 0 BY <1>3, <1>8, CutWhole
      <4> QED BY <1>3, <1>5, <1>8, <3>1, <4>1
    <3>2. CASE ~p.active BY <1>3, <1>8, <3>2
    <3> QED BY <3>1, <3>2
  <2>3. CASE l
    <3>1. NoCapture \in Captures BY DEF NoCapture, Captures, Position, None
    <3>2. Settles(e, fed.policy, q, x, NoCapture, f, w, a, m, "lost")
      <4>1. Typed(fed.policy, q, x, NoCapture, w, m, "lost")
        BY <1>2, <1>3, <1>4, <1>5, <3>1 DEF Typed
      <4>2. Waits(e, fed.policy, q, a) BY <1>4 DEF Waits
      <4>3. Turns(e, fed.policy, x, w, m, "lost")
        <5> SUFFICES ASSUME p.active PROVE Turns(e, fed.policy, x, w, m, "lost") BY <1>4 DEF Turns
        <5>1. u.start # None BY DEF Ready
        <5>2. x.start # None /\ x.start = u.start /\ x.end = e /\ x.end - x.start - x.held = m
          BY <1>3, <5>1
        <5> QED BY <1>4, <5>2 DEF Turns
      <4>4. Holds(e, fed.policy, x, f, m) BY <1>1, <1>3, <1>4 DEF Holds
      <4>5. q.start # None BY <1>2 DEF None
      <4> QED BY <1>2, <2>2, <2>3, <4>1, <4>2, <4>3, <4>4, <4>5 DEF Settles
    <3>3. p1 = fed.policy /\ u1 = x /\ c1 = NoCapture /\ o1 = "lost" BY <2>3
    <3> QED BY <3>2, <3>3
  <2>4. CASE ~l
    <3>1. Honest(c, f, w, m)
      <4>1. f <= c.start BY <1>3, <1>8, <2>1
      <4>2. c.start <= c.last /\ c.last <= c.end
        <5>1. x.start \in Nat /\ x.end \in Nat BY <1>3, <1>8 DEF Utterances, Position, None
        <5>2. c.start \in Nat /\ c.end \in Nat
          BY <2>1, <5>1, CapacityAssumption DEF Captures, Position, None
        <5> QED BY <2>1, <5>2
      <4> QED BY <2>1, <4>1, <4>2 DEF Honest
    <3>2. /\ FreshPolicy \in Policies /\ ~FreshPolicy.active
          /\ FreshPolicy.silence = None /\ FreshPolicy.onset = None
          /\ NoUtterance \in Utterances /\ NoUtterance.start = None
      BY DEF FreshPolicy, NoUtterance, Policies, Utterances, Position, None
    <3>3. Settles(e, FreshPolicy, q, NoUtterance, c, f, w, a, m, "captured")
      <4>1. Typed(FreshPolicy, q, NoUtterance, c, w, m, "captured")
        BY <1>2, <1>5, <2>1, <3>2 DEF Typed
      <4>2. q.start # None BY <1>2 DEF None
      <4>3. Waits(e, FreshPolicy, q, a) /\ Turns(e, FreshPolicy, NoUtterance, w, m, "captured")
            /\ Holds(e, FreshPolicy, NoUtterance, f, m)
        BY <3>2 DEF Waits, Turns, Holds
      <4> QED BY <1>2, <3>1, <4>1, <4>2, <4>3 DEF Settles
    <3>4. p1 = FreshPolicy /\ u1 = NoUtterance /\ c1 = c /\ o1 = "captured" BY <1>8, <2>4
    <3> QED BY <3>3, <3>4
  <2> QED BY <2>3, <2>4
<1> QED BY <1>7, <1>8

\* What is kept once an utterance was captured.
LEMMA CapturedSettles ==
  ASSUME NEW e, NEW q, NEW c, NEW f, NEW v, NEW a, NEW m, NEW p1,
         Typed(p1, q, NoUtterance, c, v, m, "captured"),
         ~p1.active, p1.silence = None, p1.onset = None,
         q.start # None, f <= q.start, q.start <= e, Honest(c, f, v, m)
  PROVE  Settles(e, p1, q, NoUtterance, c, f, v, a, m, "captured")
<1>1. NoUtterance.start = None BY DEF NoUtterance
<1>2. Waits(e, p1, q, a) /\ Turns(e, p1, NoUtterance, v, m, "captured")
      /\ Holds(e, p1, NoUtterance, f, m)
  BY <1>1 DEF Waits, Turns, Holds
<1> QED BY <1>2 DEF Settles

\* Where speech ended, from the silence that ended the turn.
LEMMA EndOfSpeech ==
  ASSUME NEW v \in Nat, NEW first \in Nat, NEW s \in Nat, first <= v, v <= s,
         s - first < MaxUtterance, v + EndSilence <= s + Window,
         NEW end, end = Smaller(v + EndSilence, first + MaxUtterance),
         NEW last, last = Larger(first, end - EndSilence)
  PROVE  \/ last = Larger(first, v)
         \/ end = first + MaxUtterance /\ last \in (v - Window)..v
<1>1. EndSilence \in Nat /\ MaxUtterance \in Nat /\ Window \in Nat
  BY PolicyAssumption, CapacityAssumption, WindowAssumption
<1>2. CASE v + EndSilence <= first + MaxUtterance BY <1>1, <1>2 DEF Smaller, Larger
<1>3. CASE first + MaxUtterance < v + EndSilence BY <1>1, <1>3 DEF Smaller, Larger
<1> QED BY <1>1, <1>2, <1>3

\* A window that ends the turn.
LEMMA EndSettles ==
  ASSUME NEW s, NEW p, NEW r, NEW u, NEW f, NEW v, NEW m, Ready(s, p, r, u, f, v, m),
         NEW voiced \in BOOLEAN, NEW a, p.active,
         NEW e, e = s + Window,
         NEW fed, fed = Active(p, s, e, voiced), fed.kind = "ended",
         NEW q, q = RingAppend(r, s, e),
         NEW x, x = Extended(u, s, fed.at),
         NEW b \in BOOLEAN, ~b, NEW c, c = Captured(x, b),
         NEW l \in BOOLEAN, l <=> ~Whole(c),
         NEW w, w = IF voiced THEN e ELSE v,
         NEW u1, u1 = IF ~l THEN NoUtterance ELSE x,
         NEW c1, c1 = IF ~l THEN c ELSE NoCapture,
         NEW o1, o1 = IF l THEN "lost" ELSE "captured"
  PROVE  Settles(e, fed.policy, q, u1, c1, f, w, a, m, o1)
<1> USE WindowAssumption, PolicyAssumption, CapacityAssumption
<1>1. e \in Nat /\ s < e /\ s \in Nat BY DEF Ready
<1>2. q \in Rings /\ q.start \in Nat /\ f <= q.start /\ q.start <= e /\ q.start # None
  <2>1. q \in Rings /\ q.start \in Nat /\ f <= q.start /\ q.start <= s BY RingKeeps
  <2> QED BY <1>1, <2>1 DEF Ready, None
<1>3. /\ v \in Nat /\ v <= s /\ u.start \in Nat /\ u.start <= v /\ f <= u.start
      /\ u.start < s /\ u.end = s /\ s - u.start - u.held = m
      /\ u.held \in Nat /\ s - u.start < MaxUtterance /\ m \in Nat /\ f \in Nat
      /\ u \in Utterances /\ u.start # None
  BY <1>1 DEF Ready, Utterances, Position, None
<1>4. PICK sil : sil = IF voiced THEN None ELSE IF p.silence = None THEN s ELSE p.silence
  OBVIOUS
<1>5. ~voiced /\ e >= sil + EndSilence /\ fed.at = sil + EndSilence
      /\ fed.policy = [FreshPolicy EXCEPT !.next = e]
  BY <1>1, <1>4 DEF Active
<1>6. sil = v /\ s < v + EndSilence BY <1>3, <1>4, <1>5 DEF Ready
<1>7. fed.at \in Nat /\ s < fed.at /\ fed.at <= e /\ fed.at = v + EndSilence /\ w = v
  BY <1>1, <1>3, <1>5, <1>6
<1>8. /\ fed.policy \in Policies /\ ~fed.policy.active
      /\ fed.policy.silence = None /\ fed.policy.onset = None
  BY <1>1, <1>5 DEF FreshPolicy, Policies, Position, None
<1>9. /\ x \in Utterances /\ x.start = u.start /\ x.end = fed.at /\ x.start # None
      /\ x.start < x.end /\ x.end - x.start - x.held = m
  <2>1. Larger(u.end, s) = s BY <1>1, <1>3 DEF Larger
  <2>2. u.start < u.end BY <1>3
  <2>3. x \in Utterances /\ x.start = u.start /\ x.end = fed.at /\ x.held = u.held + (fed.at - s)
    <3>1. s \in Nat /\ fed.at \in Nat /\ u \in Utterances /\ u.start # None
      BY <1>1, <1>3, <1>7
    <3>2. s < fed.at BY <1>7
    <3> QED BY <2>1, <2>2, <3>1, <3>2, ExtendKeeps
  <2> QED BY <1>1, <1>3, <1>7, <2>3
<1>10. /\ c \in Captures /\ c.start = x.start /\ c.start < c.end /\ c.end <= x.end
       /\ c.end - c.start <= MaxUtterance /\ c.start <= c.last /\ c.last <= c.end
       /\ c.bounded = b /\ c.end = Smaller(x.end, x.start + MaxUtterance)
       /\ c.last = Larger(c.start, c.end - EndSilence)
  BY <1>9, CutShape
<1>11. ~Whole(c) => m # 0 BY <1>9, CutWhole
<1>12. Whole(c) /\ m > 0 => c.end = c.start + MaxUtterance BY <1>9, <1>10, CutWhole
<1>13. CASE l
  <2>1. m > 0 BY <1>3, <1>11, <1>13
  <2>2. NoCapture \in Captures BY DEF NoCapture, Captures, Position, None
  <2>3. Typed(fed.policy, q, x, NoCapture, w, m, "lost")
    BY <1>2, <1>3, <1>7, <1>8, <1>9, <2>2 DEF Typed, Position
  <2>4. Waits(e, fed.policy, q, a) /\ Turns(e, fed.policy, x, w, m, "lost")
    BY <1>8 DEF Waits, Turns
  <2>5. Holds(e, fed.policy, x, f, m) BY <1>3, <1>7, <1>9, <2>1 DEF Holds
  <2>6. u1 = x /\ c1 = NoCapture /\ o1 = "lost" BY <1>13
  <2> QED BY <1>2, <2>1, <2>3, <2>4, <2>5, <2>6 DEF Settles
<1>14. CASE ~l
  <2>1. \/ c.last = Larger(c.start, v)
        \/ /\ c.end = c.start + MaxUtterance
           /\ c.last \in (v - Window)..v
    <3>1. c.start = u.start /\ c.end = Smaller(v + EndSilence, u.start + MaxUtterance)
          /\ c.last = Larger(u.start, c.end - EndSilence)
      BY <1>7, <1>9, <1>10
    <3>2. v + EndSilence <= s + Window BY <1>7
    <3>3. PICK first, end, last : first = u.start /\ end = c.end /\ last = c.last OBVIOUS
    <3>4. \/ last = Larger(first, v)
          \/ end = first + MaxUtterance /\ last \in (v - Window)..v
      BY <1>1, <1>3, <3>1, <3>2, <3>3, EndOfSpeech
    <3> QED BY <3>1, <3>3, <3>4
  <2>2. Honest(c, f, v, m) BY <1>3, <1>9, <1>10, <1>12, <1>14, <2>1 DEF Honest
  <2>3. u1 = NoUtterance /\ c1 = c /\ o1 = "captured" BY <1>14
  <2>4. v \in Position BY <1>3 DEF Position
  <2>5. m \in Nat /\ c \in Captures BY <1>3, <1>10
  <2>6. Settles(e, fed.policy, q, NoUtterance, c, f, v, a, m, "captured")
    <3>1. NoUtterance \in Utterances BY DEF NoUtterance, Utterances, Position, None
    <3>2. Typed(fed.policy, q, NoUtterance, c, v, m, "captured")
      BY <1>2, <1>8, <2>4, <2>5, <3>1 DEF Typed
    <3> QED BY <1>2, <1>8, <2>2, <3>2, CapturedSettles
  <2> QED BY <1>7, <2>3, <2>6
<1> QED BY <1>13, <1>14

\* Speech is confirmed: the ring still holds it, and the window that confirms it starts
\* after the threshold was reached only if the threshold fell meanwhile.
LEMMA Confirms ==
  ASSUME NEW s, NEW p, NEW r, NEW u, NEW f, NEW v, NEW m, Ready(s, p, r, u, f, v, m), ~p.active,
         NEW voiced \in BOOLEAN, NEW ai \in BOOLEAN,
         NEW e, e = s + Window,
         NEW fed, fed = Waiting(p, s, e, voiced, ai), fed.kind # "none",
         NEW q, q = RingAppend(r, s, e)
  PROVE  /\ voiced /\ fed.kind \in {"started", "barge_in"}
         /\ fed.onset \in Nat /\ fed.at \in Nat /\ fed.onset < fed.at /\ fed.at <= e
         /\ q.start <= fed.onset /\ fed.onset <= s
         /\ s <= fed.at \/ (sawActive /\ fed.onset < s /\ ~ai)
         /\ fed.policy \in Policies /\ fed.policy.active /\ fed.policy.silence = None
<1>1. s \in Nat /\ p \in Policies /\ p.silence = None
      /\ (p.onset # None => p.onset < s /\ s < p.onset + BargeIn
                            /\ (sawActive \/ s < p.onset + IdleStart))
  BY DEF Ready
<1>2. e \in Nat /\ s < e BY <1>1, WindowAssumption
<1>3. q.start <= s /\ (p.onset # None => q.start <= p.onset) BY RingKeeps
<1>4. PICK onset : onset = IF ~voiced THEN None ELSE IF p.onset = None THEN s ELSE p.onset
  OBVIOUS
<1>5. PICK at : at = onset + (IF ai THEN BargeIn ELSE IdleStart) OBVIOUS
<1>6. voiced /\ e >= at /\ fed.onset = onset /\ fed.at = at
      /\ fed.kind = IF ai THEN "barge_in" ELSE "started"
  BY <1>4, <1>5 DEF Waiting
<1>7. /\ fed.policy = [next |-> e, onset |-> onset, silence |-> None, active |-> TRUE]
  BY <1>4, <1>5, <1>6 DEF Waiting
<1>8. onset \in Nat /\ onset <= s /\ q.start <= onset
  BY <1>1, <1>3, <1>4, <1>6 DEF Policies, Position, None
<1>9. at \in Nat /\ onset < at BY <1>5, <1>8, PolicyAssumption
<1>10. s <= at \/ (sawActive /\ onset < s /\ ~ai)
  <2>1. CASE onset = s BY <1>1, <1>9, <2>1
  <2>2. CASE onset # s
    <3>1. p.onset # None /\ onset = p.onset BY <1>4, <1>6, <2>2
    <3> QED BY <1>1, <1>5, <1>8, <1>9, <3>1, PolicyAssumption
  <2> QED BY <2>1, <2>2
<1>11. fed.policy \in Policies /\ fed.policy.active /\ fed.policy.silence = None
  <2>1. PICK pol : pol = fed.policy OBVIOUS
  <2>2. pol = [next |-> e, onset |-> onset, silence |-> None, active |-> TRUE] BY <1>7, <2>1
  <2>3. pol \in Policies /\ pol.active /\ pol.silence = None
    BY <1>2, <1>8, <2>2 DEF Policies, Position, None
  <2> QED BY <2>1, <2>3
<1> QED BY <1>2, <1>6, <1>8, <1>9, <1>10, <1>11

\* Speech from onset is confirmed at at, in the window [s, e) of ring q; the utterance x
\* opened then, extended to the end of the window, lacks the samples between at and s.
Confirmed(q, onset, at, s, e, f) ==
  /\ q \in Rings /\ {onset, at, s, e, f} \subseteq Nat
  /\ f <= q.start /\ q.start <= onset /\ onset < at /\ at <= e /\ s < e

\* An utterance that reaches up to e.
Spans(x, at, s, e, f) ==
  /\ x \in Utterances /\ x.start \in Nat /\ x.start # None
  /\ f <= x.start /\ x.start < x.end /\ x.end = e
  /\ x.end - x.start - x.held = IF at < s THEN s - at ELSE 0

\* The utterance a confirmed onset opens, extended to the end of the window.
LEMMA OpensWith ==
  ASSUME NEW q, NEW onset, NEW at, NEW s, NEW e, NEW f, Confirmed(q, onset, at, s, e, f)
  PROVE  /\ Opened(q, onset, at).start # None
         /\ Spans(Extended(Opened(q, onset, at), s, e), at, s, e, f)
<1> USE CapacityAssumption
<1>0. PICK o, x : o = Opened(q, onset, at) /\ x = Extended(o, s, e) OBVIOUS
<1>12. /\ q \in Rings /\ onset \in Nat /\ at \in Nat /\ s \in Nat /\ e \in Nat /\ f \in Nat
       /\ f <= q.start /\ q.start <= onset /\ onset < at /\ at <= e /\ s < e
  BY DEF Confirmed
<1>1. PICK first : first = Larger(Larger(0, onset - PreRoll), q.start) OBVIOUS
<1>2. q.start \in Nat BY <1>12 DEF Rings, Position, None
<1>3. first \in Nat /\ first <= onset /\ f <= first BY <1>1, <1>2, <1>12 DEF Larger
<1>4. o = [start |-> first, end |-> at, held |-> at - first]
  BY <1>0, <1>1 DEF Opened, PreRollCapture
<1>5. o \in Utterances /\ o.start = first /\ o.end = at /\ o.held = at - first
      /\ o.start # None /\ o.start < o.end
  BY <1>3, <1>4, <1>12 DEF Utterances, Position, None
<1>6. PICK from : from = Larger(at, s) OBVIOUS
<1>7. /\ x \in Utterances /\ x.start = first
      /\ x.end = IF from < e THEN e ELSE at
      /\ x.held = (at - first) + (IF from < e THEN e - from ELSE 0)
  <2>1. /\ Extended(o, s, e) \in Utterances /\ Extended(o, s, e).start = o.start
        /\ Extended(o, s, e).end = IF Larger(o.end, s) < e THEN e ELSE o.end
        /\ Extended(o, s, e).held
             = o.held + (IF Larger(o.end, s) < e THEN e - Larger(o.end, s) ELSE 0)
    BY <1>5, <1>12, ExtendKeeps
  <2> QED BY <1>0, <1>5, <1>6, <2>1
<1>10. x.end = e /\ x.end - x.start - x.held = IF at < s THEN s - at ELSE 0
  <2>1. CASE at < s
    <3>1. from = s BY <1>6, <1>12, <2>1 DEF Larger
    <3>2. x.end = e /\ x.held = (at - first) + (e - s) BY <1>7, <1>12, <3>1
    <3> QED BY <1>3, <1>7, <1>12, <2>1, <3>2
  <2>2. CASE s <= at
    <3>1. from = at BY <1>6, <1>12, <2>2 DEF Larger
    <3>2. x.end = e /\ x.held = e - first BY <1>3, <1>7, <1>12, <3>1
    <3> QED BY <1>3, <1>7, <1>12, <2>2, <3>2
  <2> QED BY <1>12, <2>1, <2>2
<1>11. x.start \in Nat /\ x.start # None /\ f <= x.start /\ x.start < x.end
  BY <1>3, <1>7, <1>10, <1>12 DEF None
<1> QED BY <1>0, <1>5, <1>7, <1>10, <1>11 DEF Spans

\* The window [s, e) confirms speech and opens the utterance x, which lacks n samples;
\* b: it reaches the bound at once, with capture c, which is lost if l.
Opening(s, p, r, voiced, ai, e, fed, q, x, b, c, l, n) ==
  /\ {voiced, ai, b, l} \subseteq BOOLEAN /\ ~p.active /\ e = s + Window
  /\ fed = Waiting(p, s, e, voiced, ai) /\ fed.kind # "none" /\ q = RingAppend(r, s, e)
  /\ x = Extended(Opened(q, fed.onset, fed.at), s, e)
  /\ b <=> x.end - x.start >= MaxUtterance
  /\ c = Captured(x, b)
  /\ l <=> b /\ ~Whole(c)
  /\ n = IF sawActive /\ fed.onset < s /\ ~ai /\ fed.at < s THEN s - fed.at ELSE 0

\* What such a window leaves: the turn goes on, or the bound cut it.
Leaves(fed, x, b, c, l, p1, u1, c1, o1) ==
  /\ p1 = IF b /\ ~l THEN FreshPolicy ELSE fed.policy
  /\ u1 = IF b /\ ~l THEN NoUtterance ELSE x
  /\ c1 = IF b /\ ~l THEN c ELSE NoCapture
  /\ o1 = IF l THEN "lost" ELSE IF b THEN "captured" ELSE fed.kind

\* A window that opens a turn, and may reach the utterance bound at once.
LEMMA OpenSettles ==
  ASSUME NEW s, NEW p, NEW r, NEW u, NEW f, NEW v, NEW m, Ready(s, p, r, u, f, v, m),
         NEW voiced, NEW ai, NEW a, NEW e, NEW fed, NEW q, NEW x, NEW b, NEW c, NEW l, NEW n,
         Opening(s, p, r, voiced, ai, e, fed, q, x, b, c, l, n),
         NEW p1, NEW u1, NEW c1, NEW o1, Leaves(fed, x, b, c, l, p1, u1, c1, o1)
  PROVE  Buffered(q, fed.onset, fed.at) /\ Settles(e, p1, q, u1, c1, f, e, a, n, o1)
<1>17. /\ voiced \in BOOLEAN /\ ai \in BOOLEAN /\ b \in BOOLEAN /\ l \in BOOLEAN
       /\ e = s + Window
       /\ fed = Waiting(p, s, e, voiced, ai) /\ fed.kind # "none" /\ q = RingAppend(r, s, e)
       /\ b <=> x.end - x.start >= MaxUtterance
       /\ c = Captured(x, b)
       /\ l <=> b /\ ~Whole(c)
       /\ n = IF sawActive /\ fed.onset < s /\ ~ai /\ fed.at < s THEN s - fed.at ELSE 0
  BY DEF Opening
<1>18. PICK o : o = Opened(q, fed.onset, fed.at) OBVIOUS
<1>19. x = Extended(o, s, e) BY <1>18 DEF Opening
<1> USE WindowAssumption, PolicyAssumption, CapacityAssumption
<1>0. ~p.active BY DEF Opening
<1>1. e \in Nat /\ s < e /\ s \in Nat /\ f \in Nat BY <1>17 DEF Ready
<1>2. q \in Rings /\ q.start \in Nat /\ f <= q.start /\ q.start <= e /\ q.start # None /\ q.end = e
  <2>1. q \in Rings /\ q.start \in Nat /\ f <= q.start /\ q.start <= s /\ q.end = e BY <1>17, RingKeeps
  <2> QED BY <1>1, <2>1 DEF None
<1>3. PICK onset, at : onset = fed.onset /\ at = fed.at OBVIOUS
<1>13. /\ onset \in Nat /\ at \in Nat /\ onset < at /\ at <= e /\ q.start <= onset
  BY <1>0, <1>3, <1>17, Confirms
<1>14. s <= at \/ (sawActive /\ onset < s /\ ~ai) BY <1>0, <1>3, <1>17, Confirms
<1>15. /\ fed.kind \in {"started", "barge_in"}
       /\ fed.policy \in Policies /\ fed.policy.active /\ fed.policy.silence = None
  BY <1>0, <1>17, Confirms
<1>4. Buffered(q, onset, at) BY <1>1, <1>2, <1>13 DEF Buffered
<1>5. /\ o.start # None /\ x \in Utterances /\ x.start \in Nat /\ x.start # None
      /\ f <= x.start /\ x.start < x.end /\ x.end = e
      /\ x.end - x.start - x.held = IF at < s THEN s - at ELSE 0
  <2>1. o = Opened(q, onset, at) BY <1>3, <1>18
  <2>2. x = Extended(Opened(q, onset, at), s, e) BY <1>19, <2>1
  <2>3. Confirmed(q, onset, at, s, e, f) BY <1>1, <1>2, <1>13 DEF Confirmed
  <2>4. o.start # None /\ Spans(x, at, s, e, f) BY <2>1, <2>2, <2>3, OpensWith
  <2> QED BY <2>4 DEF Spans
<1>6. n \in Nat /\ x.end - x.start - x.held = n
  <2>1. n = IF sawActive /\ onset < s /\ ~ai /\ at < s THEN s - at ELSE 0 BY <1>3, <1>17
  <2> QED BY <1>1, <1>5, <1>13, <1>14, <2>1
<1>7. e \in Position /\ NoCapture \in Captures
  BY <1>1 DEF NoCapture, Captures, Position, None
<1>8. CASE ~b
  <2>1. p1 = fed.policy /\ u1 = x /\ c1 = NoCapture /\ o1 = fed.kind BY <1>8, <1>17 DEF Leaves
  <2>2. Typed(fed.policy, q, x, NoCapture, e, n, fed.kind)
    BY <1>2, <1>5, <1>6, <1>7, <1>15 DEF Typed
  <2>3. Waits(e, fed.policy, q, a) BY <1>15 DEF Waits
  <2>4. Turns(e, fed.policy, x, e, n, fed.kind)
    <3>1. e - x.start < MaxUtterance /\ x.start <= e BY <1>1, <1>5, <1>8, <1>17
    <3> QED BY <1>1, <1>5, <1>6, <1>15, <3>1 DEF Turns
  <2>5. Holds(e, fed.policy, x, f, n) BY <1>1, <1>5, <1>15 DEF Holds
  <2>6. fed.kind # "lost" /\ fed.kind # "captured" BY <1>15
  <2> QED BY <1>2, <1>3, <1>4, <1>5, <2>1, <2>2, <2>3, <2>4, <2>5, <2>6 DEF Settles
<1>9. CASE b
  <2>1. /\ c \in Captures
        /\ c.start = x.start /\ c.start < c.end /\ c.end <= x.end
        /\ c.end - c.start <= MaxUtterance
        /\ c.last = c.end /\ c.bounded /\ c.end = c.start + MaxUtterance
    BY <1>5, <1>9, <1>17, CutShape
  <2>2. l => n > 0
    <3>1. ~Whole(c) => x.end - x.start - x.held # 0 BY <1>5, <1>17, CutWhole
    <3> QED BY <1>6, <1>17, <3>1
  <2>3. CASE l
    <3>1. p1 = fed.policy /\ u1 = x /\ c1 = NoCapture /\ o1 = "lost" BY <2>3 DEF Leaves
    <3>2. Typed(fed.policy, q, x, NoCapture, e, n, "lost")
      BY <1>2, <1>5, <1>6, <1>7, <1>15 DEF Typed
    <3>3. Waits(e, fed.policy, q, a) BY <1>15 DEF Waits
    <3>4. Turns(e, fed.policy, x, e, n, "lost")
      <4>1. x.start <= e BY <1>1, <1>5
      <4> QED BY <1>1, <1>5, <1>6, <1>15, <4>1 DEF Turns
    <3>5. Holds(e, fed.policy, x, f, n) BY <1>1, <1>5, <1>15 DEF Holds
    <3> QED BY <1>2, <1>3, <1>4, <1>5, <2>2, <2>3, <3>1, <3>2, <3>3, <3>4, <3>5 DEF Settles
  <2>4. CASE ~l
    <3>1. Honest(c, f, e, n)
      <4>1. c.start <= c.last BY <1>1, <1>5, <2>1
      <4>2. c.end \in Nat BY <1>5, <2>1
      <4> QED BY <1>5, <2>1, <4>1, <4>2 DEF Honest
    <3>2. p1 = FreshPolicy /\ u1 = NoUtterance /\ c1 = c /\ o1 = "captured" BY <1>9, <2>4 DEF Leaves
    <3>3. /\ FreshPolicy \in Policies /\ ~FreshPolicy.active
          /\ FreshPolicy.silence = None /\ FreshPolicy.onset = None /\ NoUtterance \in Utterances
      BY DEF FreshPolicy, NoUtterance, Policies, Utterances, Position, None
    <3>4. Typed(FreshPolicy, q, NoUtterance, c, e, n, "captured")
      BY <1>2, <1>6, <1>7, <2>1, <3>3 DEF Typed
    <3>5. Settles(e, FreshPolicy, q, NoUtterance, c, f, e, a, n, "captured")
      BY <1>2, <3>1, <3>3, <3>4, CapturedSettles
    <3> QED BY <1>3, <1>4, <1>5, <3>2, <3>5
  <2> QED BY <2>3, <2>4
<1> QED BY <1>8, <1>9, <1>17

\* A window the gate takes leaves policy, ring, utterance and capture settled.
LEMMA FeedSettles ==
  ASSUME GateInv, NEW s \in Nat, NEW old, NEW voiced \in BOOLEAN, NEW ai \in BOOLEAN,
         Feed(s, old, voiced, ai), outcome = "lost" => ~policy.active,
         NEW e, e = s + Window
  PROVE  /\ Settles(e, policy', ring', utterance', capture', fencedFrom', lastVoiced',
                    sawActive', slack', outcome')
         /\ fencedFrom' \in Nat /\ fencedFrom' <= s
<1>1. PICK w \in {Analysed(s, voiced, ai)} :
        /\ ring' = w.ring
        /\ policy' = IF w.bounded /\ ~w.lost THEN FreshPolicy ELSE w.fed.policy
        /\ utterance' = IF w.captures /\ ~w.lost THEN NoUtterance ELSE w.utterance
        /\ capture' = IF w.captures /\ ~w.lost THEN w.made ELSE NoCapture
        /\ outcome' = IF w.lost THEN "lost" ELSE IF w.captures THEN "captured" ELSE w.fed.kind
        /\ fencedFrom' = IF fencedFrom = None \/ (Restarts(s) /\ s < fencedFrom) THEN s
                         ELSE fencedFrom
        /\ lastVoiced' = IF voiced THEN s + Window ELSE IF Restarts(s) THEN None ELSE lastVoiced
        /\ sawActive' = CASE w.opens -> sawActive /\ w.fed.onset < s /\ ~ai
                          [] w.fed.onset # None /\ ~w.opens ->
                               ai \/ (sawActive /\ w.fed.onset < s)
                          [] OTHER -> sawActive
        /\ slack' = IF w.opens
                    THEN IF sawActive /\ w.fed.onset < s /\ ~ai THEN Larger(0, s - w.fed.at) ELSE 0
                    ELSE IF utterance.start = None \/ Restarts(s) THEN 0 ELSE slack
  BY DEF Feed
<1>2. e = s + Window OBVIOUS
<1>3. PICK p, r, u, v, m : /\ p = Base(s, FreshPolicy, policy) /\ r = Base(s, EmptyRing, ring)
                           /\ u = Base(s, NoUtterance, utterance) /\ v = Base(s, None, lastVoiced)
                           /\ m = IF utterance.start = None \/ Restarts(s) THEN 0 ELSE slack
  OBVIOUS
<1>4. PICK f : f = fencedFrom' OBVIOUS
<1>5. Ready(s, p, r, u, f, v, m) BY <1>1, <1>3, <1>4, WindowReady
<1>6. PICK q, fed, u1 : /\ q = RingAppend(r, s, e) /\ fed = PolicyFeed(p, s, e, voiced, ai)
                        /\ u1 = IF fed.kind \in {"started", "barge_in"}
                                THEN Opened(q, fed.onset, fed.at) ELSE u
  OBVIOUS
<1>7. PICK x : x = IF u1.start = None THEN u1
                   ELSE Extended(u1, s, IF fed.kind = "ended" THEN fed.at ELSE e)
  OBVIOUS
<1>8. PICK b \in BOOLEAN :
        b <=> fed.kind # "ended" /\ x.start # None /\ x.end - x.start >= MaxUtterance
  OBVIOUS
<1>9. PICK c : c = Captured(x, b) OBVIOUS
<1>10. /\ w.ring = q /\ w.fed = fed /\ w.utterance = x /\ w.made = c
       /\ w.opens <=> fed.kind \in {"started", "barge_in"}
       /\ w.bounded <=> b
       /\ w.captures <=> b \/ fed.kind = "ended"
       /\ w.lost <=> \/ fed.kind \in {"started", "barge_in"} /\ ~Buffered(q, fed.onset, fed.at)
                     \/ (b \/ fed.kind = "ended") /\ ~Whole(c)
  <2>0. w = Analysed(s, voiced, ai) BY <1>1
  <2>1. /\ w.ring = RingAppend(IF Restarts(s) THEN EmptyRing ELSE ring, s, s + Window)
        /\ w.fed = PolicyFeed(IF Restarts(s) THEN FreshPolicy ELSE policy, s, s + Window, voiced, ai)
    BY <1>1 DEF Analysed
  <2>2. w.ring = q /\ w.fed = fed BY <1>2, <1>3, <1>6, <2>1 DEF Base
  <2>3. w.opens <=> w.fed.kind \in {"started", "barge_in"} BY <2>0, Zenon DEF Analysed
  <2>4. PICK y : y = IF w.fed.kind \in {"started", "barge_in"}
                     THEN Opened(w.ring, w.fed.onset, w.fed.at)
                     ELSE IF Restarts(s) THEN NoUtterance ELSE utterance
    OBVIOUS
  <2>5. w.utterance = IF y.start = None THEN y
                      ELSE Extended(y, s, IF w.fed.kind = "ended" THEN w.fed.at ELSE s + Window)
    BY <1>1, <2>4 DEF Analysed
  <2>6. y = u1 BY <1>3, <1>6, <2>2, <2>4 DEF Base
  <2>7. w.utterance = x BY <1>2, <1>7, <2>2, <2>5, <2>6
  <2>8. w.bounded <=> /\ w.fed.kind # "ended" /\ w.utterance.start # None
                      /\ w.utterance.end - w.utterance.start >= MaxUtterance
    BY <2>0, Zenon DEF Analysed
  <2>9. w.captures <=> w.bounded \/ w.fed.kind = "ended" BY <2>0, Zenon DEF Analysed
  <2>10. w.made = Captured(w.utterance, w.bounded) BY <1>1 DEF Analysed
  <2>11. w.lost <=> \/ w.opens /\ ~Buffered(w.ring, w.fed.onset, w.fed.at)
                    \/ w.captures /\ ~Whole(w.made)
    BY <2>0, Zenon DEF Analysed
  <2>12. w.bounded \in BOOLEAN BY <2>0, Zenon DEF Analysed
  <2>13. w.bounded = b BY <1>8, <2>2, <2>7, <2>8, <2>12
  <2>14. w.made = c BY <1>9, <2>7, <2>10, <2>13
  <2> QED BY <2>2, <2>3, <2>7, <2>9, <2>11, <2>13, <2>14
<1>11. f \in Nat /\ f <= s BY <1>5 DEF Ready
<1>12. lastVoiced' = IF voiced THEN e ELSE v BY <1>1, <1>2, <1>3 DEF Base
<1>17. PICK l \in BOOLEAN : l <=> b /\ ~Whole(c) OBVIOUS
<1>18. PICK g : g = lastVoiced' OBVIOUS
<1>13. CASE fed.kind = "none"
  <2>1. u1 = u /\ x = IF u.start = None THEN u ELSE Extended(u, s, e) BY <1>6, <1>7, <1>13
  <2>2. b <=> x.start # None /\ x.end - x.start >= MaxUtterance BY <1>8, <1>13
  <2>3. /\ w.opens = FALSE /\ (w.lost <=> l) /\ (w.captures <=> b) /\ (w.bounded <=> b)
    BY <1>10, <1>13, <1>17
  <2>4. /\ policy' = IF b /\ ~l THEN FreshPolicy ELSE fed.policy
        /\ utterance' = IF b /\ ~l THEN NoUtterance ELSE x
        /\ capture' = IF b /\ ~l THEN c ELSE NoCapture
        /\ outcome' = IF l THEN "lost" ELSE IF b THEN "captured" ELSE "none"
        /\ slack' = m /\ ring' = q
    BY <1>1, <1>3, <1>10, <1>13, <2>3
  <2>5. sawActive' = IF fed.onset # None THEN ai \/ (sawActive /\ fed.onset < s) ELSE sawActive
    BY <1>1, <1>10, <2>3
  <2>6. Settles(e, policy', q, utterance', capture', f, g, sawActive', m, outcome')
    BY <1>2, <1>5, <1>6, <1>9, <1>12, <1>13, <1>17, <1>18, <2>1, <2>2, <2>4, <2>5, QuietSettles
  <2> QED BY <1>4, <1>11, <1>18, <2>4, <2>6
<1>14. CASE fed.kind = "ended"
  <2>1. p.active /\ fed = Active(p, s, e, voiced)
    BY <1>6, <1>14 DEF PolicyFeed, Waiting
  <2>2. u.start # None BY <1>5, <2>1 DEF Ready
  <2>3. u1 = u /\ x = Extended(u, s, fed.at) BY <1>6, <1>7, <1>14, <2>2
  <2>4. ~b BY <1>8, <1>14
  <2>5. PICK k \in BOOLEAN : k <=> ~Whole(c) OBVIOUS
  <2>6. ~w.opens /\ (w.lost <=> k) /\ w.captures /\ ~w.bounded
    BY <1>10, <1>14, <2>4, <2>5
  <2>7. /\ policy' = fed.policy
        /\ utterance' = IF ~k THEN NoUtterance ELSE x
        /\ capture' = IF ~k THEN c ELSE NoCapture
        /\ outcome' = IF k THEN "lost" ELSE "captured"
        /\ slack' = m /\ ring' = q
    BY <1>1, <1>3, <1>10, <2>6
  <2>9. lastVoiced' = g /\ g = IF voiced THEN e ELSE v BY <1>12, <1>18
  <2>10. PICK u2, c2, o2, p2, a2 : u2 = utterance' /\ c2 = capture' /\ o2 = outcome'
             /\ p2 = policy' /\ a2 = sawActive'
    OBVIOUS
  <2>11. Settles(e, fed.policy, q, u2, c2, f, g, a2, m, o2)
    BY <1>2, <1>5, <1>6, <1>9, <1>14, <2>1, <2>3, <2>4, <2>5, <2>7, <2>9, <2>10, EndSettles
  <2>8. Settles(e, policy', q, utterance', capture', f, g, sawActive', m, outcome')
    BY <2>7, <2>10, <2>11
  <2> QED BY <1>4, <1>11, <1>18, <2>7, <2>8
<1>15. CASE fed.kind \in {"started", "barge_in"}
  <2>1. ~p.active /\ fed = Waiting(p, s, e, voiced, ai)
    BY <1>6, <1>15 DEF PolicyFeed, Active
  <2>2. u1 = Opened(q, fed.onset, fed.at) BY <1>6, <1>15
  <2>3. voiced /\ fed.kind # "none" BY <1>2, <1>5, <1>6, <1>15, <2>1, Confirms
  <2>4. PICK o : o = Opened(q, fed.onset, fed.at) OBVIOUS
  <2>13. PICK onset, at : onset = fed.onset /\ at = fed.at OBVIOUS
  <2>14. s \in Nat /\ e \in Nat /\ s < e BY <1>2, WindowAssumption
  <2>15. Confirmed(q, onset, at, s, e, f)
    <3>1. /\ onset \in Nat /\ at \in Nat /\ onset < at /\ at <= e /\ q.start <= onset
      BY <1>2, <1>5, <1>6, <1>15, <2>1, <2>13, Confirms
    <3>2. q \in Rings /\ f <= q.start BY <1>2, <1>5, <1>6, RingKeeps
    <3> QED BY <1>11, <2>14, <3>1, <3>2 DEF Confirmed
  <2>5. o.start # None /\ Extended(o, s, e).start # None
    BY <2>4, <2>13, <2>15, OpensWith DEF Spans
  <2>6. x = Extended(o, s, e) BY <1>7, <1>15, <2>2, <2>4, <2>5
  <2>7. b <=> x.end - x.start >= MaxUtterance BY <1>8, <1>15, <2>5, <2>6
  <2>8. PICK n : n = IF sawActive /\ fed.onset < s /\ ~ai /\ fed.at < s THEN s - fed.at ELSE 0
    OBVIOUS
  <2>16. n = IF sawActive /\ fed.onset < s /\ ~ai THEN Larger(0, s - fed.at) ELSE 0
    <3>1. at \in Nat BY <2>15 DEF Confirmed
    <3>2. Larger(0, s - at) = IF at < s THEN s - at ELSE 0 BY <2>14, <3>1 DEF Larger
    <3> QED BY <2>8, <2>13, <3>2
  <2>9. PICK p2, u2, c2, o2, a2 : /\ p2 = IF b /\ ~l THEN FreshPolicy ELSE fed.policy
                                  /\ u2 = IF b /\ ~l THEN NoUtterance ELSE x
                                  /\ c2 = IF b /\ ~l THEN c ELSE NoCapture
                                  /\ o2 = IF l THEN "lost" ELSE IF b THEN "captured" ELSE fed.kind
                                  /\ a2 = sawActive'
    OBVIOUS
  <2>17. Opening(s, p, r, voiced, ai, e, fed, q, x, b, c, l, n)
    BY <1>2, <1>6, <1>9, <1>15, <1>17, <2>1, <2>4, <2>6, <2>7, <2>8 DEF Opening
  <2>18. Leaves(fed, x, b, c, l, p2, u2, c2, o2) BY <2>9 DEF Leaves
  <2>10. Buffered(q, fed.onset, fed.at) /\ Settles(e, p2, q, u2, c2, f, e, a2, n, o2)
    BY <1>5, <2>17, <2>18, OpenSettles
  <2>11. w.opens /\ (w.lost <=> l) /\ (w.captures <=> b) /\ (w.bounded <=> b)
    BY <1>10, <1>15, <1>17, <2>10
  <2>12. /\ policy' = p2 /\ utterance' = u2 /\ capture' = c2 /\ outcome' = o2
         /\ slack' = n /\ ring' = q /\ lastVoiced' = e /\ g = e
    BY <1>1, <1>10, <1>12, <1>18, <2>3, <2>9, <2>11, <2>16
  <2> QED BY <1>4, <1>11, <2>9, <2>10, <2>12
<1>16. fed.kind \in {"none", "ended", "started", "barge_in"}
  BY <1>6 DEF PolicyFeed, Active, Waiting
<1> QED BY <1>4, <1>11, <1>13, <1>14, <1>15, <1>16

\* A window fed to the gate keeps its invariant.
LEMMA FeedKeepsGate ==
  ASSUME GateInv, NEW s \in Nat, NEW old \in BOOLEAN, NEW voiced \in BOOLEAN, NEW ai \in BOOLEAN,
         Feed(s, old, voiced, ai), outcome = "lost" => ~policy.active
  PROVE  GateInv'
<1>1. PICK e : e = s + Window OBVIOUS
<1>2. /\ Settles(e, policy', ring', utterance', capture', fencedFrom', lastVoiced', sawActive',
                 slack', outcome')
      /\ fencedFrom' \in Nat /\ fencedFrom' <= s
  BY <1>1, FeedSettles
<1>3. e \in Nat /\ s < e /\ nextStart' = e /\ gateGen' = gateGen
      /\ carried' = (IF old THEN carried ELSE None) /\ interrupting' \in BOOLEAN
  <2>1. PICK w \in {Analysed(s, voiced, ai)} :
          interrupting' = (w.fed.kind = "barge_in" /\ ~w.lost)
    BY DEF Feed
  <2> QED BY <1>1, <2>1, WindowAssumption DEF Feed
<1>4. /\ Typed(policy', ring', utterance', capture', lastVoiced', slack', outcome')
      /\ ring'.start # None /\ fencedFrom' <= ring'.start /\ ring'.start <= e
      /\ Waits(e, policy', ring', sawActive') /\ Turns(e, policy', utterance', lastVoiced', slack', outcome')
      /\ Holds(e, policy', utterance', fencedFrom', slack')
      /\ outcome' = "lost" => slack' > 0
      /\ outcome' = "captured" => Honest(capture', fencedFrom', lastVoiced', slack')
  BY <1>2 DEF Settles
<1>5. sawActive' \in BOOLEAN
  <2>1. sawActive \in BOOLEAN BY DEF GateInv, GateTypeOK
  <2>2. PICK w \in {Analysed(s, voiced, ai)} :
          sawActive' = CASE w.opens -> sawActive /\ w.fed.onset < s /\ ~ai
                          [] w.fed.onset # None /\ ~w.opens ->
                               ai \/ (sawActive /\ w.fed.onset < s)
                          [] OTHER -> sawActive
    BY DEF Feed
  <2> QED BY <2>1, <2>2
<1>6. GateTypeOK'
  <2>1. gateGen' \in 0..MaxGen /\ carried' \in -1..MaxGen
    BY <1>3, WindowAssumption DEF GateInv, GateTypeOK, None
  <2>2. nextStart' \in Position /\ fencedFrom' \in Position BY <1>2, <1>3 DEF Position
  <2>3. /\ policy' \in Policies /\ ring' \in Rings /\ utterance' \in Utterances
        /\ capture' \in Captures /\ lastVoiced' \in Position /\ slack' \in Nat
        /\ outcome' \in {"none", "started", "barge_in", "captured", "lost"}
    BY <1>4 DEF Typed
  <2> QED BY <1>3, <1>5, <2>1, <2>2, <2>3 DEF GateTypeOK, Policies, Rings, Utterances, Captures
<1>7. Timeline' BY <1>2, <1>3, <1>4 DEF Timeline, None
<1>8. Confirming' BY <1>3, <1>4 DEF Confirming, Waits
<1>9. Capturing' BY <1>3, <1>4 DEF Capturing, Turns
<1>10. Orphaned' BY <1>3, <1>4 DEF Orphaned, Holds
<1>11. OnlyThresholdDropLoses' BY <1>4 DEF OnlyThresholdDropLoses
<1>12. CaptureHonest'
  <2>1. fencedFrom' # None BY <1>2 DEF None
  <2> QED BY <1>4, <2>1 DEF CaptureHonest, Honest
<1>13. Awaiting'
  <2>1. PICK w \in {Analysed(s, voiced, ai)} :
          /\ interrupting' = (w.fed.kind = "barge_in" /\ ~w.lost)
          /\ policy' = IF w.bounded /\ ~w.lost THEN FreshPolicy ELSE w.fed.policy
    BY DEF Feed
  <2>2. PICK p : p = IF Restarts(s) THEN FreshPolicy ELSE policy OBVIOUS
  <2>6. w.fed = PolicyFeed(IF Restarts(s) THEN FreshPolicy ELSE policy, s, s + Window, voiced, ai)
    <3>1. w = Analysed(s, voiced, ai) BY <2>1
    <3> QED BY <3>1 DEF Analysed
  <2>3. w.fed = PolicyFeed(p, s, s + Window, voiced, ai) BY <2>2, <2>6
  <2>4. w.fed.kind = "barge_in" => w.fed.policy.active
    <3>1. CASE p.active BY <2>3, <3>1 DEF PolicyFeed, Active
    <3>2. CASE ~p.active BY <2>3, <3>2 DEF PolicyFeed, Waiting
    <3> QED BY <3>1, <3>2
  <2>5. FreshPolicy.onset = None BY DEF FreshPolicy
  <2> QED BY <2>1, <2>4, <2>5 DEF Awaiting
<1> QED BY <1>6, <1>7, <1>8, <1>9, <1>10, <1>11, <1>12, <1>13 DEF GateInv

\* The two fences keep what the gate promises.
LEMMA ResetKeepsGate == GateInv /\ Reset => GateInv'
<1> SUFFICES ASSUME GateInv, Reset PROVE GateInv'
  OBVIOUS
<1>1. GateTypeOK'
  <2>1. /\ FreshPolicy \in Policies /\ EmptyRing \in Rings /\ NoUtterance \in Utterances
        /\ NoCapture \in Captures /\ None \in Position
    BY DEF FreshPolicy, EmptyRing, NoUtterance, NoCapture, Policies, Rings, Utterances, Captures,
           Position, None
  <2>2. gateGen' \in 0..MaxGen /\ carried' \in -1..MaxGen
    BY WindowAssumption DEF GateInv, GateTypeOK, Reset, None
  <2> QED BY <2>1, <2>2 DEF GateInv, GateTypeOK, Reset, Policies, Rings, Utterances, Captures
<1>2. /\ Timeline' /\ Confirming' /\ Capturing' /\ Orphaned' /\ Awaiting'
      /\ OnlyThresholdDropLoses' /\ CaptureHonest'
  BY DEF Reset, Timeline, Confirming, Capturing, Orphaned, Awaiting, OnlyThresholdDropLoses, CaptureHonest,
         FreshPolicy, EmptyRing, NoUtterance, NoCapture
<1> QED BY <1>1, <1>2 DEF GateInv

\* A generation that is carried over changes nothing else.
LEMMA CarryKeepsGate == GateInv /\ CarryOver => GateInv'
<1> SUFFICES ASSUME GateInv, CarryOver PROVE GateInv'
  OBVIOUS
<1>1. GateTypeOK'
  <2>1. EmptyRing \in Rings BY DEF EmptyRing, Rings, Position, None
  <2>2. gateGen' \in 0..MaxGen /\ carried' \in -1..MaxGen
    BY WindowAssumption DEF GateInv, GateTypeOK, CarryOver
  <2> QED BY <2>1, <2>2 DEF GateInv, GateTypeOK, CarryOver, Rings
<1>2. /\ Timeline' /\ Confirming' /\ Capturing' /\ Orphaned' /\ Awaiting'
      /\ OnlyThresholdDropLoses' /\ CaptureHonest'
  BY DEF GateInv, CarryOver, Timeline, Confirming, Capturing, Orphaned, Awaiting,
         OnlyThresholdDropLoses, CaptureHonest, EmptyRing
<1> QED BY <1>1, <1>2 DEF GateInv

\* The invariant is about the variables of the gate alone.
LEMMA QuietKeepsGate == GateInv /\ UNCHANGED gateVars => GateInv'
BY DEF GateInv, gateVars, GateTypeOK, Timeline, Confirming, Capturing, Orphaned, Awaiting,
       OnlyThresholdDropLoses, CaptureHonest
-----------------------------------------------------------------------------
(* The fences, the stamps and the epochs.                                  *)

\* What waits in the two queues.
Callers == [cur : 0..MaxGen, reason : {"barge_in", "text_barge_in", "stream_error"}]
Heard   == [start : Nat, gen : 0..MaxGen, epoch : 0..MaxEpochs]

\* The queues, one element longer or shorter.
LEMMA QueueGrows ==
  ASSUME NEW S, NEW q \in Seq(S), NEW x \in S, NEW w, w = Append(q, x)
  PROVE  /\ w \in Seq(S) /\ Len(w) = Len(q) + 1 /\ DOMAIN w = 1..(Len(q) + 1)
         /\ DOMAIN q = 1..Len(q) /\ Len(q) \in Nat
         /\ \A i \in 1..Len(q) : w[i] = q[i]
         /\ w[Len(q) + 1] = x
OBVIOUS

\* A queue without its head.
LEMMA QueueShrinks ==
  ASSUME NEW S, NEW q \in Seq(S), q # <<>>, NEW w, w = Tail(q)
  PROVE  /\ w \in Seq(S) /\ Len(w) = Len(q) - 1 /\ DOMAIN w = 1..(Len(q) - 1)
         /\ DOMAIN q = 1..Len(q) /\ Len(q) \in Nat /\ Len(q) >= 1
         /\ \A i \in 1..(Len(q) - 1) : w[i] = q[i + 1]
         /\ Head(q) = q[1] /\ q[1] \in S
OBVIOUS

\* The head of the queue, and what the pump may assume of it.
LEMMA NextSpan ==
  ASSUME InputInv, inbox # <<>>
  PROVE  /\ Head(inbox) = inbox[1] /\ 1 \in DOMAIN inbox
         /\ Head(inbox).start \in Nat /\ Head(inbox).gen \in 0..MaxGen
         /\ Head(inbox).epoch = epoch
<1>1. inbox \in Seq(Heard) BY DEF InputInv, InputTypeOK, Heard
<1>2. Head(inbox) = inbox[1] /\ 1 \in DOMAIN inbox /\ inbox[1] \in Heard BY <1>1
<1>3. inbox[1].epoch = epoch BY <1>2 DEF InputInv, Epochs
<1> QED BY <1>2, <1>3 DEF Heard

\* Every step keeps the gate; only the pump and the fence touch it.
LEMMA GateStep == InputInv /\ InputNext => GateInv'
<1> SUFFICES ASSUME InputInv, InputNext PROVE GateInv'
  OBVIOUS
<1>1. CASE Pump
  <2>1. inbox # <<>> BY <1>1 DEF Pump, ReadNowait
  <2>2. /\ Head(inbox).start \in Nat /\ Head(inbox).epoch = epoch BY <2>1, NextSpan
  <2>3. outcome = "lost" => ~policy.active BY <1>1, <2>2 DEF Pump, InputInv, Epochs
  <2>4. CASE \E voiced \in BOOLEAN :
               Feed(Head(inbox).start, Head(inbox).gen # gateGen, voiced, AiActive)
    <3>1. PICK voiced \in BOOLEAN :
            Feed(Head(inbox).start, Head(inbox).gen # gateGen, voiced, AiActive)
      BY <2>4
    <3>2. PICK s, old, ai : s = Head(inbox).start /\ old = (Head(inbox).gen # gateGen) /\ ai = AiActive
      OBVIOUS
    <3>3. s \in Nat /\ old \in BOOLEAN /\ ai \in BOOLEAN BY <2>2, <3>2 DEF AiActive
    <3>4. Feed(s, old, voiced, ai) BY <3>1, <3>2
    <3> QED BY <2>3, <3>3, <3>4, FeedKeepsGate DEF InputInv
  <2>5. CASE UNCHANGED gateVars BY <2>5, QuietKeepsGate DEF InputInv
  <2> QED BY <1>1, <2>4, <2>5 DEF Pump
<1>2. CASE FenceGate BY <1>2, ResetKeepsGate, CarryKeepsGate DEF FenceGate, InputInv
<1>3. CASE \/ AudioCallback \/ Discontinuity \/ TurnStarts \/ TurnEnds \/ TextBargeIn
           \/ FenceTransport \/ RecoverStreams \/ ReopenStream \/ MicrophoneOn
  <2>1. UNCHANGED gateVars
    BY <1>3 DEF AudioCallback, Discontinuity, TurnStarts, TurnEnds, TextBargeIn, FenceTransport,
                RecoverStreams, ReopenStream, MicrophoneOn
  <2> QED BY <2>1, QuietKeepsGate DEF InputInv
<1> QED BY <1>1, <1>2, <1>3 DEF InputNext

\* What the actions do to the two queues.
LEMMA Typing ==
  ASSUME InputInv
  PROVE  /\ teardowns \in Seq(Callers) /\ inbox \in Seq(Heard) /\ Len(inbox) <= MaxCallbacks
         /\ gen \in 0..MaxGen /\ gateGen \in 0..MaxGen /\ transportGen \in 0..MaxGen
         /\ resetGen \in 0..MaxGen /\ ahead \in 0..MaxGen
         /\ epoch \in 0..MaxEpochs /\ gateEpoch \in -1..MaxEpochs
         /\ cursor \in 0..MaxSample /\ MaxGen \in Nat /\ MaxEpochs \in Nat /\ MaxSample \in Nat
         /\ between \in BOOLEAN /\ interrupting \in BOOLEAN
BY WindowAssumption, QueueAssumption DEF InputInv, InputTypeOK, GateInv, GateTypeOK, Callers, Heard

\* A caller that advances the generation joins the queue of fences.
LEMMA Advanced ==
  ASSUME InputInv, NEW reason \in {"barge_in", "text_barge_in", "stream_error"}, AdvanceWith(reason),
         gen < MaxGen
  PROVE  /\ gen' = gen + 1 /\ gen' \in 0..MaxGen /\ teardowns' \in Seq(Callers)
         /\ teardowns' # <<>>
         /\ DOMAIN teardowns = 1..Len(teardowns) /\ DOMAIN teardowns' = 1..(Len(teardowns) + 1)
         /\ Len(teardowns') = Len(teardowns) + 1 /\ Len(teardowns) \in Nat
         /\ \A i \in 1..Len(teardowns) : teardowns'[i] = teardowns[i]
         /\ teardowns'[Len(teardowns) + 1].cur = gen + 1
         /\ teardowns'[Len(teardowns) + 1].reason = reason
<1>1. PICK call : call = [cur |-> gen + 1, reason |-> reason] OBVIOUS
<1>2. call \in Callers BY <1>1, Typing DEF Callers
<1>3. teardowns' = Append(teardowns, call) /\ gen' = gen + 1 BY <1>1 DEF AdvanceWith
<1>4. teardowns \in Seq(Callers) BY Typing
<1>5. /\ teardowns' \in Seq(Callers) /\ Len(teardowns') = Len(teardowns) + 1
      /\ DOMAIN teardowns' = 1..(Len(teardowns) + 1)
      /\ DOMAIN teardowns = 1..Len(teardowns) /\ Len(teardowns) \in Nat
      /\ \A i \in 1..Len(teardowns) : teardowns'[i] = teardowns[i]
      /\ teardowns'[Len(teardowns) + 1] = call
  BY <1>2, <1>3, <1>4, QueueGrows
<1>6. teardowns' # <<>> BY <1>5
<1> QED BY <1>1, <1>3, <1>5, <1>6, Typing

\* The callers' fences, in order.
LEMMA AdvanceKeepsOrder ==
  ASSUME InputInv, ~between, between' = between, gateGen' = gateGen, gen < MaxGen,
         NEW reason \in {"barge_in", "text_barge_in", "stream_error"}, AdvanceWith(reason),
         reason = "barge_in" => ~interrupting /\ interrupting',
         reason # "barge_in" => interrupting' = interrupting
  PROVE  Fencing'
<1>1. /\ gen' = gen + 1 /\ teardowns' # <<>>
      /\ DOMAIN teardowns = 1..Len(teardowns) /\ DOMAIN teardowns' = 1..(Len(teardowns) + 1)
      /\ Len(teardowns') = Len(teardowns) + 1 /\ Len(teardowns) \in Nat
      /\ \A i \in 1..Len(teardowns) : teardowns'[i] = teardowns[i]
      /\ teardowns'[Len(teardowns) + 1].cur = gen + 1
      /\ teardowns'[Len(teardowns) + 1].reason = reason
  BY Advanced
<1>0. gen \in Nat /\ gateGen \in Nat /\ gateGen' = gateGen BY Typing
<1>2. PICK n : n = Len(teardowns) OBVIOUS
<1>3. /\ \A i \in 1..n : teardowns[i].cur = gateGen + i
      /\ gen = gateGen + n
      /\ \A i \in 1..n : teardowns[i].reason = "barge_in" =>
           /\ interrupting
           /\ \A j \in 1..n : teardowns[j].reason = "barge_in" => i = j
  <2>1. Passed = 0 BY DEF Passed
  <2>2. /\ \A i \in DOMAIN teardowns : teardowns[i].cur = gateGen + i
        /\ gen = gateGen + Len(teardowns)
        /\ \A i \in DOMAIN teardowns : teardowns[i].reason = "barge_in" =>
             /\ interrupting
             /\ \A j \in DOMAIN teardowns : teardowns[j].reason = "barge_in" => i = j
    <3>1. \A i \in 1..n : i > 0 /\ gateGen + i - 0 = gateGen + i BY <1>0, <1>1, <1>2
    <3>2. gateGen + n - 0 = gateGen + n BY <1>0, <1>1, <1>2
    <3> QED BY <1>1, <1>2, <2>1, <3>1, <3>2 DEF InputInv, Fencing
  <2> QED BY <1>1, <1>2, <2>2
<1>4. Passed' = 0 BY DEF Passed
<1>5. \A i \in DOMAIN teardowns' : teardowns'[i].cur = gateGen' + i - Passed'
  <2> SUFFICES ASSUME NEW i \in 1..(n + 1) PROVE teardowns'[i].cur = gateGen + i
    BY <1>0, <1>1, <1>2, <1>4
  <2>1. CASE i = n + 1 BY <1>0, <1>1, <1>2, <1>3, <2>1
  <2>2. CASE i # n + 1
    <3>1. i \in 1..n BY <1>1, <1>2, <2>2
    <3> QED BY <1>1, <1>2, <1>3, <3>1
  <2> QED BY <2>1, <2>2
<1>6. gen' = gateGen' + Len(teardowns') - Passed' BY <1>0, <1>1, <1>2, <1>3, <1>4
<1>7. \A i \in DOMAIN teardowns' :
        i > Passed' /\ teardowns'[i].reason = "barge_in" =>
          /\ interrupting'
          /\ \A j \in DOMAIN teardowns' : j > Passed' /\ teardowns'[j].reason = "barge_in" => i = j
  <2> SUFFICES ASSUME NEW i \in 1..(n + 1), teardowns'[i].reason = "barge_in"
               PROVE  /\ interrupting'
                      /\ \A j \in 1..(n + 1) : teardowns'[j].reason = "barge_in" => i = j
    BY <1>1, <1>2
  <2>1. CASE reason = "barge_in"
    <3>1. \A j \in 1..n : teardowns'[j].reason # "barge_in" BY <1>1, <1>2, <1>3, <2>1
    <3>2. \A j \in 1..(n + 1) : j \in 1..n \/ j = n + 1 BY <1>1, <1>2
    <3> QED BY <2>1, <3>1, <3>2
  <2>2. CASE reason # "barge_in"
    <3>1. \A j \in 1..(n + 1) : teardowns'[j].reason = "barge_in" =>
            j \in 1..n /\ teardowns[j].reason = "barge_in"
      <4> SUFFICES ASSUME NEW j \in 1..(n + 1), teardowns'[j].reason = "barge_in"
                   PROVE  j \in 1..n /\ teardowns[j].reason = "barge_in"
        OBVIOUS
      <4>1. j # n + 1 BY <1>1, <1>2, <2>2
      <4>2. j \in 1..n BY <1>1, <1>2, <4>1
      <4> QED BY <1>1, <1>2, <4>2
    <3> QED BY <1>3, <2>2, <3>1
  <2> QED BY <2>1, <2>2
<1> QED BY <1>1, <1>5, <1>6, <1>7 DEF Fencing

\* Every step keeps the callers in the order of their generations.
LEMMA OrderStep == InputInv /\ InputNext => Fencing'
<1> SUFFICES ASSUME InputInv, InputNext PROVE Fencing'
  OBVIOUS
<1>0. /\ teardowns \in Seq(Callers) /\ gen \in Nat /\ gateGen \in Nat
      /\ between \in BOOLEAN /\ interrupting \in BOOLEAN /\ Fencing
  BY Typing DEF InputInv
<1>1. PICK n : n = Len(teardowns) OBVIOUS
<1>2. n \in Nat /\ DOMAIN teardowns = 1..n BY <1>0, <1>1
<1>3. CASE Pump
  <2>1. ~between /\ between' = between BY <1>3 DEF Pump, LoopRuns
  <2>2. CASE UNCHANGED <<gateVars, gen, teardowns>>
    BY <1>0, <2>1, <2>2 DEF Fencing, Passed, gateVars
  <2>3. CASE \E voiced \in BOOLEAN :
               Feed(Head(inbox).start, Head(inbox).gen # gateGen, voiced, AiActive)
    <3>1. ~interrupting /\ gateGen' = gateGen /\ interrupting' \in BOOLEAN BY <2>3 DEF Feed
    <3>2. CASE interrupting'
      <4>1. gen < MaxGen /\ AdvanceWith("barge_in")
        <5>1. Head(inbox).gen \in {gateGen, carried} \/ UNCHANGED gateVars BY <1>3 DEF Pump
        <5>2. ~UNCHANGED gateVars BY <3>1, <3>2 DEF gateVars
        <5> QED BY <1>3, <3>2, <5>1, <5>2 DEF Pump
      <4> QED BY <2>1, <3>1, <3>2, <4>1, AdvanceKeepsOrder
    <3>3. CASE ~interrupting'
      <4>1. UNCHANGED <<gen, teardowns>> BY <1>3, <3>3 DEF Pump
      <4> QED BY <1>0, <2>1, <3>1, <3>3, <4>1 DEF Fencing, Passed
    <3> QED BY <3>2, <3>3
  <2> QED BY <1>3, <2>2, <2>3 DEF Pump
<1>4. CASE TextBargeIn
  BY <1>4, AdvanceKeepsOrder DEF TextBargeIn, LoopRuns, gateVars
<1>5. CASE FenceGate
  <2>1. ~between /\ between' = TRUE /\ teardowns # <<>> /\ teardowns' = teardowns /\ gen' = gen
    BY <1>5 DEF FenceGate, LoopRuns
  <2>2. Head(teardowns) = teardowns[1] /\ n >= 1 BY <1>0, <1>1, <2>1
  <2>3. gateGen' = gateGen + 1 BY <1>5 DEF FenceGate, CarryOver, Reset
  <2>4. Passed = 0 /\ Passed' = 1 BY <2>1 DEF Passed
  <2>5. \A i \in 1..n : teardowns[i].cur = gateGen + i - 0 BY <1>0, <1>2, <2>4 DEF Fencing
  <2>6. \A i \in 1..n : teardowns'[i].cur = gateGen' + i - 1 BY <1>0, <2>1, <2>3, <2>5
  <2>7. gen' = gateGen' + n - 1
    <3>1. gen = gateGen + n - 0 BY <1>0, <1>1, <2>4 DEF Fencing
    <3> QED BY <1>0, <1>2, <2>1, <2>3, <3>1
  <2>8. \A i \in 1..n : teardowns[i].reason = "barge_in" =>
          interrupting /\ \A j \in 1..n : teardowns[j].reason = "barge_in" => i = j
    BY <1>0, <1>2, <2>4 DEF Fencing
  <2>9. ASSUME NEW i \in 1..n, i > 1, teardowns[i].reason = "barge_in" PROVE interrupting'
    <3>1. teardowns[1].reason # "barge_in" BY <1>2, <2>2, <2>8, <2>9
    <3> QED BY <1>5, <2>2, <2>8, <2>9, <3>1 DEF FenceGate, Reset
  <2>10. Head(teardowns).reason # "barge_in" => nextStart' = None /\ outcome' = "none"
    BY <1>5 DEF FenceGate, Reset
  <2> QED BY <1>1, <1>2, <2>1, <2>4, <2>6, <2>7, <2>8, <2>9, <2>10 DEF Fencing
<1>6. CASE FenceTransport
  <2>1. between /\ between' = FALSE /\ teardowns' = Tail(teardowns) /\ gen' = gen
        /\ gateGen' = gateGen /\ interrupting' = interrupting
    BY <1>6 DEF FenceTransport, gateVars
  <2>2. teardowns # <<>> BY <1>0, <2>1 DEF Fencing
  <2>3. /\ DOMAIN teardowns' = 1..(n - 1) /\ Len(teardowns') = n - 1 /\ n >= 1
        /\ \A i \in 1..(n - 1) : teardowns'[i] = teardowns[i + 1]
    BY <1>0, <1>1, <2>1, <2>2, QueueShrinks
  <2>4. Passed = 1 /\ Passed' = 0 BY <2>1 DEF Passed
  <2>5. /\ \A i \in 1..n : teardowns[i].cur = gateGen + i - 1
        /\ \A i \in 1..n : i > 1 /\ teardowns[i].reason = "barge_in" =>
             /\ interrupting
             /\ \A j \in 1..n : j > 1 /\ teardowns[j].reason = "barge_in" => i = j
        /\ gen = gateGen + n - 1
    BY <1>0, <1>1, <1>2, <2>4 DEF Fencing
  <2>6. \A i \in 1..(n - 1) : i + 1 \in 1..n /\ i + 1 > 1 BY <1>2
  <2>7. \A i \in 1..(n - 1) : teardowns'[i].cur = gateGen' + i - 0
    BY <1>0, <2>1, <2>3, <2>5, <2>6
  <2>8. gen' = gateGen' + (n - 1) - 0 BY <1>0, <1>2, <2>1, <2>5
  <2>9. \A i \in 1..(n - 1) : i > 0 /\ teardowns'[i].reason = "barge_in" =>
          /\ interrupting'
          /\ \A j \in 1..(n - 1) : j > 0 /\ teardowns'[j].reason = "barge_in" => i = j
    <3> SUFFICES ASSUME NEW i \in 1..(n - 1), teardowns'[i].reason = "barge_in"
                 PROVE  /\ interrupting'
                        /\ \A j \in 1..(n - 1) : teardowns'[j].reason = "barge_in" => i = j
      OBVIOUS
    <3>1. teardowns[i + 1].reason = "barge_in" /\ i + 1 \in 1..n /\ i + 1 > 1 BY <2>3, <2>6
    <3>2. interrupting' BY <2>1, <2>5, <3>1
    <3>3. ASSUME NEW j \in 1..(n - 1), teardowns'[j].reason = "barge_in" PROVE i = j
      <4>1. teardowns[j + 1].reason = "barge_in" /\ j + 1 \in 1..n /\ j + 1 > 1 BY <2>3, <2>6, <3>3
      <4>2. i + 1 = j + 1 BY <2>5, <3>1, <4>1
      <4> QED BY <1>2, <4>2
    <3> QED BY <3>2, <3>3
  <2> QED BY <2>1, <2>3, <2>4, <2>7, <2>8, <2>9 DEF Fencing
<1>7. CASE RecoverStreams
  <2>1. ~between /\ UNCHANGED <<gateVars, between>> BY <1>7 DEF RecoverStreams, LoopRuns
  <2>2. CASE UNCHANGED <<gen, teardowns>> BY <1>0, <2>1, <2>2 DEF Fencing, Passed, gateVars
  <2>3. CASE gen < MaxGen /\ AdvanceWith("stream_error")
    BY <2>1, <2>3, AdvanceKeepsOrder DEF gateVars
  <2> QED BY <1>7, <2>2, <2>3 DEF RecoverStreams
<1>8. CASE \/ AudioCallback \/ Discontinuity \/ TurnStarts \/ TurnEnds \/ ReopenStream \/ MicrophoneOn
  <2>1. UNCHANGED <<gateVars, gen, teardowns, between>>
    BY <1>8 DEF AudioCallback, Discontinuity, TurnStarts, TurnEnds, ReopenStream, MicrophoneOn,
                fenceVars
  <2> QED BY <1>0, <2>1 DEF Fencing, Passed, gateVars
<1> QED BY <1>3, <1>4, <1>5, <1>6, <1>7, <1>8 DEF InputNext

\* What the pump does to the span queue.
LEMMA PumpTakes ==
  ASSUME InputInv, Pump
  PROVE  /\ inbox # <<>> /\ inbox' = Tail(inbox) /\ inbox' \in Seq(Heard)
         /\ DOMAIN inbox = 1..Len(inbox) /\ DOMAIN inbox' = 1..(Len(inbox) - 1)
         /\ Len(inbox') = Len(inbox) - 1 /\ Len(inbox) \in Nat /\ Len(inbox) >= 1
         /\ \A i \in 1..(Len(inbox) - 1) : i + 1 \in DOMAIN inbox /\ inbox'[i] = inbox[i + 1]
         /\ Head(inbox) = inbox[1] /\ 1 \in DOMAIN inbox /\ inbox[1] \in Heard
<1>1. inbox # <<>> /\ inbox' = Tail(inbox) BY DEF Pump, ReadNowait
<1>2. inbox \in Seq(Heard) BY Typing
<1>3. /\ inbox' \in Seq(Heard) /\ Len(inbox') = Len(inbox) - 1 /\ DOMAIN inbox' = 1..(Len(inbox) - 1)
      /\ DOMAIN inbox = 1..Len(inbox) /\ Len(inbox) \in Nat /\ Len(inbox) >= 1
      /\ \A i \in 1..(Len(inbox) - 1) : inbox'[i] = inbox[i + 1]
      /\ Head(inbox) = inbox[1] /\ inbox[1] \in Heard
  BY <1>1, <1>2, QueueShrinks
<1>4. 1 \in DOMAIN inbox /\ \A i \in 1..(Len(inbox) - 1) : i + 1 \in DOMAIN inbox BY <1>3
<1> QED BY <1>1, <1>3, <1>4

\* The generation counters after the pump.
LEMMA PumpAdvances ==
  ASSUME InputInv, Pump
  PROVE  \/ UNCHANGED <<gen, teardowns>>
         \/ gen < MaxGen /\ AdvanceWith("barge_in")
BY DEF Pump

\* What a callback adds.
LEMMA CallbackAdds ==
  ASSUME InputInv, AudioCallback, inbox' # inbox
  PROVE  /\ inbox' \in Seq(Heard) /\ Len(inbox') <= MaxCallbacks
         /\ DOMAIN inbox = 1..Len(inbox) /\ DOMAIN inbox' = 1..(Len(inbox) + 1)
         /\ Len(inbox') = Len(inbox) + 1 /\ Len(inbox) \in Nat
         /\ \A i \in 1..Len(inbox) : inbox'[i] = inbox[i]
         /\ inbox'[Len(inbox) + 1].gen = transportGen
         /\ inbox'[Len(inbox) + 1].epoch = epoch
<1>1. PICK x : x = [start |-> cursor, gen |-> transportGen, epoch |-> epoch] OBVIOUS
<1>2. inbox' = Append(inbox, x) /\ Len(inbox) # MaxCallbacks BY <1>1 DEF AudioCallback
<1>3. x \in Heard BY <1>1, Typing DEF Heard
<1>4. inbox \in Seq(Heard) /\ Len(inbox) <= MaxCallbacks BY Typing
<1>5. /\ inbox' \in Seq(Heard) /\ Len(inbox') = Len(inbox) + 1 /\ DOMAIN inbox' = 1..(Len(inbox) + 1)
      /\ DOMAIN inbox = 1..Len(inbox) /\ Len(inbox) \in Nat
      /\ \A i \in 1..Len(inbox) : inbox'[i] = inbox[i]
      /\ inbox'[Len(inbox) + 1] = x
  BY <1>2, <1>3, <1>4, QueueGrows
<1>6. Len(inbox') <= MaxCallbacks
  <2>1. PICK n : n = Len(inbox) OBVIOUS
  <2>2. n \in Nat /\ n <= MaxCallbacks /\ n # MaxCallbacks /\ MaxCallbacks \in Nat
    BY <1>2, <1>4, <1>5, <2>1, QueueAssumption
  <2>3. Len(inbox') = n + 1 BY <1>5, <2>1
  <2> QED BY <2>2, <2>3
<1> QED BY <1>1, <1>5, <1>6

\* Later spans have later stamps, but for those a rebuild stamped ahead.
LEMMA StampStep == InputInv /\ InputNext => Stamps'
<1> SUFFICES ASSUME InputInv, InputNext PROVE Stamps'
  OBVIOUS
<1>0. /\ gen \in Nat /\ gateGen \in Nat /\ transportGen \in Nat /\ resetGen \in Nat /\ ahead \in Nat
      /\ \A i \in DOMAIN inbox : inbox[i].gen \in Nat
      /\ between \in BOOLEAN /\ carried \in -1..MaxGen
  <2>1. inbox \in Seq(Heard) BY Typing
  <2>2. \A i \in DOMAIN inbox : inbox[i] \in Heard BY <2>1
  <2>3. carried \in -1..MaxGen BY DEF InputInv, GateInv, GateTypeOK
  <2> QED BY <2>2, <2>3, Typing DEF Heard
<1>1. /\ ahead <= gen /\ resetGen <= gateGen
      /\ transportGen <= gen
      /\ transportGen <= gateGen \/ transportGen <= ahead
      /\ carried \in {None, gateGen - 1}
      /\ \A i \in DOMAIN inbox :
           /\ inbox[i].gen <= gen
           /\ inbox[i].gen <= gateGen \/ inbox[i].gen <= ahead
           /\ inbox[i].gen <= transportGen \/ transportGen < ahead
           /\ \A j \in DOMAIN inbox : i < j => inbox[i].gen <= inbox[j].gen \/ inbox[j].gen < ahead
      /\ gateGen > resetGen /\ carried # gateGen - 1 =>
           /\ transportGen >= gateGen \/ transportGen < ahead
           /\ \A i \in DOMAIN inbox : inbox[i].gen >= gateGen \/ inbox[i].gen < ahead
  BY DEF InputInv, Stamps
<1>2. CASE Pump
  <2>1. /\ DOMAIN inbox = 1..Len(inbox) /\ DOMAIN inbox' = 1..(Len(inbox) - 1)
        /\ Len(inbox) \in Nat
        /\ \A i \in 1..(Len(inbox) - 1) : i + 1 \in DOMAIN inbox /\ inbox'[i] = inbox[i + 1]
        /\ Head(inbox) = inbox[1] /\ 1 \in DOMAIN inbox
    BY <1>2, PumpTakes
  <2>2. UNCHANGED <<transportGen, resetGen, ahead>> BY <1>2 DEF Pump
  <2>3. gen' \in Nat /\ gen <= gen' BY <1>0, <1>2, PumpAdvances DEF AdvanceWith
  <2>4. gateGen' = gateGen BY <1>2 DEF Pump, Feed, gateVars
  <2>5. carried' = carried \/ (carried' = None /\ Head(inbox).gen = gateGen)
    <3>1. CASE UNCHANGED gateVars BY <3>1 DEF gateVars
    <3>2. CASE \E voiced \in BOOLEAN :
                 Feed(Head(inbox).start, Head(inbox).gen # gateGen, voiced, AiActive)
      BY <3>2 DEF Feed
    <3> QED BY <1>2, <3>1, <3>2 DEF Pump
  <2>6. \A i \in DOMAIN inbox' : i + 1 \in DOMAIN inbox /\ 1 < i + 1 /\ inbox'[i] = inbox[i + 1]
    BY <2>1
  <2>7. \A i \in DOMAIN inbox' :
          /\ inbox'[i].gen <= gen'
          /\ inbox'[i].gen <= gateGen \/ inbox'[i].gen <= ahead
          /\ inbox'[i].gen <= transportGen \/ transportGen < ahead
    BY <1>0, <1>1, <2>3, <2>6
  <2>8. \A i, j \in DOMAIN inbox' : i < j => inbox'[i].gen <= inbox'[j].gen \/ inbox'[j].gen < ahead
    <3> SUFFICES ASSUME NEW i \in DOMAIN inbox', NEW j \in DOMAIN inbox', i < j
                 PROVE  inbox'[i].gen <= inbox'[j].gen \/ inbox'[j].gen < ahead
      OBVIOUS
    <3>1. i + 1 < j + 1 BY <2>1
    <3> QED BY <1>1, <2>6, <3>1
  <2>9. gateGen > resetGen /\ carried' # gateGen - 1 =>
          /\ transportGen >= gateGen \/ transportGen < ahead
          /\ \A i \in DOMAIN inbox' : inbox'[i].gen >= gateGen \/ inbox'[i].gen < ahead
    <3>1. CASE carried' = carried BY <1>1, <2>6, <3>1
    <3>2. CASE carried' = None /\ Head(inbox).gen = gateGen
      <4>1. inbox[1].gen = gateGen /\ 1 \in DOMAIN inbox BY <2>1, <3>2
      <4>2. transportGen >= gateGen \/ transportGen < ahead BY <1>0, <1>1, <4>1
      <4>3. \A i \in DOMAIN inbox' : inbox'[i].gen >= gateGen \/ inbox'[i].gen < ahead
        BY <1>0, <1>1, <2>6, <4>1
      <4> QED BY <4>2, <4>3
    <3> QED BY <2>5, <3>1, <3>2
  <2>10. transportGen <= gen' /\ ahead <= gen' BY <1>0, <1>1, <2>3
  <2>11. carried' \in {None, gateGen - 1} BY <1>1, <2>5
  <2> QED BY <1>1, <2>2, <2>4, <2>7, <2>8, <2>9, <2>10, <2>11 DEF Stamps
<1>3. CASE AudioCallback
  <2>1. UNCHANGED <<gateVars, gen, transportGen, resetGen, ahead>>
    BY <1>3 DEF AudioCallback, fenceVars, ghostVars
  <2>2. CASE inbox' = inbox BY <1>1, <2>1, <2>2 DEF Stamps, gateVars
  <2>3. CASE inbox' # inbox
    <3>1. /\ DOMAIN inbox = 1..Len(inbox) /\ DOMAIN inbox' = 1..(Len(inbox) + 1)
          /\ Len(inbox) \in Nat
          /\ \A i \in 1..Len(inbox) : inbox'[i] = inbox[i]
          /\ inbox'[Len(inbox) + 1].gen = transportGen
      BY <1>3, <2>3, CallbackAdds
    <3>2. \A i \in DOMAIN inbox' :
            (i \in DOMAIN inbox /\ inbox'[i] = inbox[i]) \/ inbox'[i].gen = transportGen
      <4> SUFFICES ASSUME NEW i \in 1..(Len(inbox) + 1)
                   PROVE  (i \in 1..Len(inbox) /\ inbox'[i] = inbox[i]) \/ inbox'[i].gen = transportGen
        BY <3>1
      <4>1. i \in 1..Len(inbox) \/ i = Len(inbox) + 1 BY <3>1
      <4> QED BY <3>1, <4>1
    <3>3. \A i \in DOMAIN inbox' :
            /\ inbox'[i].gen <= gen
            /\ inbox'[i].gen <= gateGen \/ inbox'[i].gen <= ahead
            /\ inbox'[i].gen <= transportGen \/ transportGen < ahead
      BY <1>0, <1>1, <3>2
    <3>4. \A i, j \in DOMAIN inbox' : i < j => inbox'[i].gen <= inbox'[j].gen \/ inbox'[j].gen < ahead
      <4> SUFFICES ASSUME NEW i \in 1..(Len(inbox) + 1), NEW j \in 1..(Len(inbox) + 1), i < j
                   PROVE  inbox'[i].gen <= inbox'[j].gen \/ inbox'[j].gen < ahead
        BY <3>1
      <4>1. i \in 1..Len(inbox) BY <3>1
      <4>2. CASE j \in 1..Len(inbox) BY <1>1, <3>1, <4>1, <4>2
      <4>3. CASE j = Len(inbox) + 1 BY <1>1, <3>1, <4>1, <4>3
      <4> QED BY <3>1, <4>2, <4>3
    <3>5. gateGen > resetGen /\ carried # gateGen - 1 =>
            \A i \in DOMAIN inbox' : inbox'[i].gen >= gateGen \/ inbox'[i].gen < ahead
      BY <1>1, <3>2
    <3> QED BY <1>1, <2>1, <3>3, <3>4, <3>5 DEF Stamps, gateVars
  <2> QED BY <2>2, <2>3
<1>4. CASE FenceGate
  <2>1. UNCHANGED <<gen, transportGen, inbox, ahead>> BY <1>4 DEF FenceGate, transportVars
  <2>2. gateGen' = gateGen + 1 /\ resetGen' <= gateGen' /\ carried' \in {None, gateGen}
        /\ (resetGen' = gateGen' \/ carried' = gateGen)
    BY <1>0, <1>1, <1>4 DEF FenceGate, CarryOver, Reset
  <2>3. carried' \in {None, gateGen' - 1} /\ ~(gateGen' > resetGen' /\ carried' # gateGen' - 1)
    BY <1>0, <2>2
  <2>4. /\ transportGen <= gateGen' \/ transportGen <= ahead
        /\ \A i \in DOMAIN inbox : inbox[i].gen <= gateGen' \/ inbox[i].gen <= ahead
    BY <1>0, <1>1, <2>2
  <2> QED BY <1>1, <2>1, <2>2, <2>3, <2>4 DEF Stamps
<1>5. CASE FenceTransport
  <2>1. UNCHANGED <<gateVars, gen, resetGen, ahead>> /\ between BY <1>5 DEF FenceTransport, ghostVars
  <2>2. transportGen' = gateGen /\ gateGen <= gen
    <3>1. teardowns # <<>> BY <2>1 DEF InputInv, Fencing
    <3>2. teardowns \in Seq(Callers) BY Typing
    <3>3. Head(teardowns) = teardowns[1] /\ 1 \in DOMAIN teardowns /\ Len(teardowns) \in Nat
          /\ Len(teardowns) >= 1
      BY <3>1, <3>2
    <3>4. Passed = 1 BY <2>1 DEF Passed
    <3>5. teardowns[1].cur = gateGen + 1 - 1 /\ gen = gateGen + Len(teardowns) - 1
      BY <3>3, <3>4 DEF InputInv, Fencing
    <3>6. transportGen' = Head(teardowns).cur BY <1>5 DEF FenceTransport, Rebuild, SetGeneration
    <3> QED BY <1>0, <3>3, <3>5, <3>6
  <2>3. inbox' = inbox \/ inbox' = <<>> BY <1>5 DEF FenceTransport, Rebuild
  <2>4. CASE inbox' = <<>>
    <3>1. DOMAIN inbox' = {} BY <2>4
    <3> QED BY <1>0, <1>1, <2>1, <2>2, <3>1 DEF Stamps, gateVars
  <2>5. CASE inbox' = inbox
    <3>1. \A i \in DOMAIN inbox : inbox[i].gen <= gateGen \/ gateGen < ahead BY <1>0, <1>1
    <3> QED BY <1>0, <1>1, <2>1, <2>2, <2>5, <3>1 DEF Stamps, gateVars
  <2> QED BY <2>3, <2>4, <2>5
<1>6. CASE RecoverStreams
  <2>1. UNCHANGED <<gateVars, resetGen>> /\ ~between BY <1>6 DEF RecoverStreams, LoopRuns
  <2>2. CASE AdvanceWith("stream_error") /\ UNCHANGED <<transportVars, ahead>>
    <3>1. gen' = gen + 1 /\ UNCHANGED <<inbox, transportGen, ahead>>
      BY <2>2 DEF AdvanceWith, transportVars
    <3>2. ahead <= gen' /\ transportGen <= gen' /\ \A i \in DOMAIN inbox : inbox[i].gen <= gen'
      BY <1>0, <1>1, <3>1
    <3> QED BY <1>1, <2>1, <3>1, <3>2 DEF Stamps, gateVars
  <2>3. CASE Rebuild(gen) /\ ahead' = (IF teardowns = <<>> THEN ahead ELSE gen) /\ gen' = gen
    <3>1. DOMAIN inbox' = {} /\ transportGen' = gen
      <4>1. inbox' = <<>> BY <2>3 DEF Rebuild
      <4> QED BY <2>3, <4>1 DEF Rebuild
    <3>2. teardowns = <<>> => gen = gateGen
      <4>1. Passed = 0 BY <2>1 DEF Passed
      <4> QED BY <1>0, <4>1 DEF InputInv, Fencing
    <3>3. ahead' <= gen /\ (gen <= gateGen \/ gen <= ahead') BY <1>0, <1>1, <2>3, <3>2
    <3>4. gen >= gateGen
      <4>1. Passed = 0 /\ Len(teardowns) \in Nat BY <2>1, Typing DEF Passed
      <4>2. gen = gateGen + Len(teardowns) - 0 BY <4>1 DEF InputInv, Fencing
      <4> QED BY <1>0, <4>1, <4>2
    <3> QED BY <1>0, <1>1, <2>1, <2>3, <3>1, <3>3, <3>4 DEF Stamps, gateVars
  <2> QED BY <1>6, <2>2, <2>3 DEF RecoverStreams
<1>7. CASE TextBargeIn
  <2>1. gen' = gen + 1 /\ UNCHANGED <<gateVars, inbox, transportGen, ahead, resetGen>>
    BY <1>7 DEF TextBargeIn, AdvanceWith, transportVars, ghostVars
  <2>2. ahead <= gen' /\ transportGen <= gen' /\ \A i \in DOMAIN inbox : inbox[i].gen <= gen'
    BY <1>0, <1>1, <2>1
  <2> QED BY <1>1, <2>1, <2>2 DEF Stamps, gateVars
<1>8. CASE \/ Discontinuity \/ TurnStarts \/ TurnEnds \/ ReopenStream \/ MicrophoneOn
  <2>1. UNCHANGED <<gateVars, gen, inbox, transportGen, ahead, resetGen>>
    BY <1>8 DEF Discontinuity, TurnStarts, TurnEnds, ReopenStream, MicrophoneOn, fenceVars,
                transportVars, ghostVars
  <2> QED BY <1>1, <2>1 DEF Stamps, gateVars
<1> QED BY <1>2, <1>3, <1>4, <1>5, <1>6, <1>7, <1>8 DEF InputNext

\* Every step leaves at most one recovery waiting for its fence.
LEMMA RecoveryStep == InputInv /\ InputNext => Recovering'
<1> SUFFICES ASSUME InputInv, InputNext PROVE Recovering'
  OBVIOUS
<1>0. /\ teardowns \in Seq(Callers) /\ epoch \in 0..MaxEpochs /\ Recovering
  BY Typing DEF InputInv
<1>1. CASE UNCHANGED <<teardowns, recovery, epoch>> BY <1>0, <1>1 DEF Recovering
<1>2. ASSUME NEW reason \in {"barge_in", "text_barge_in", "stream_error"}, AdvanceWith(reason),
             gen < MaxGen, epoch' = epoch,
             recovery' = IF reason = "stream_error" THEN "cancel" ELSE recovery,
             reason = "stream_error" => recovery = "idle" /\ epoch < MaxEpochs
      PROVE  Recovering'
  <2>1. /\ DOMAIN teardowns = 1..Len(teardowns) /\ DOMAIN teardowns' = 1..(Len(teardowns) + 1)
        /\ Len(teardowns) \in Nat
        /\ \A i \in 1..Len(teardowns) : teardowns'[i] = teardowns[i]
        /\ teardowns'[Len(teardowns) + 1].reason = reason
    BY <1>2, Advanced
  <2>2. PICK n : n = Len(teardowns) OBVIOUS
  <2>3. CASE reason = "stream_error"
    <3>1. \A i \in 1..n : teardowns'[i].reason # "stream_error"
      BY <1>0, <1>2, <2>1, <2>2, <2>3 DEF Recovering
    <3>2. \A i \in 1..(n + 1) : i \in 1..n \/ i = n + 1 BY <2>1, <2>2
    <3>3. recovery' = "cancel" /\ epoch' < MaxEpochs BY <1>2, <2>3
    <3> QED BY <2>1, <2>2, <3>1, <3>2, <3>3 DEF Recovering
  <2>4. CASE reason # "stream_error"
    <3>1. \A i \in 1..(n + 1) : teardowns'[i].reason = "stream_error" =>
            i \in 1..n /\ teardowns[i].reason = "stream_error"
      <4> SUFFICES ASSUME NEW i \in 1..(n + 1), teardowns'[i].reason = "stream_error"
                   PROVE  i \in 1..n /\ teardowns[i].reason = "stream_error"
        OBVIOUS
      <4>1. i # n + 1 BY <2>1, <2>2, <2>4
      <4>2. i \in 1..n BY <2>1, <2>2, <4>1
      <4> QED BY <2>1, <2>2, <4>2
    <3>2. recovery' = recovery BY <1>2, <2>4
    <3> QED BY <1>0, <1>2, <2>1, <2>2, <3>1, <3>2 DEF Recovering
  <2> QED BY <2>3, <2>4
<1>3. CASE Pump
  <2>1. UNCHANGED <<recovery, epoch>> BY <1>3 DEF Pump
  <2> QED BY <1>1, <1>2, <1>3, <2>1, PumpAdvances
<1>4. CASE TextBargeIn
  BY <1>2, <1>4 DEF TextBargeIn, transportVars
<1>5. CASE RecoverStreams
  <2>1. recovery = "idle" /\ epoch < MaxEpochs BY <1>5 DEF RecoverStreams
  <2>2. CASE gen < MaxGen /\ AdvanceWith("stream_error") /\ recovery' = "cancel"
             /\ UNCHANGED transportVars
    BY <1>2, <2>1, <2>2 DEF transportVars
  <2>3. CASE teardowns' = teardowns
    <3>1. \A i \in DOMAIN teardowns : teardowns[i].reason # "stream_error"
      BY <1>0, <2>1 DEF Recovering
    <3> QED BY <2>3, <3>1 DEF Recovering
  <2> QED BY <1>5, <2>2, <2>3 DEF RecoverStreams
<1>6. CASE FenceTransport
  <2>1. teardowns' = Tail(teardowns) BY <1>6 DEF FenceTransport
  <2>2. teardowns # <<>> BY <1>6 DEF FenceTransport, InputInv, Fencing
  <2>3. PICK n : n = Len(teardowns) OBVIOUS
  <2>4. /\ DOMAIN teardowns = 1..n /\ DOMAIN teardowns' = 1..(n - 1) /\ n \in Nat /\ n >= 1
        /\ \A i \in 1..(n - 1) : teardowns'[i] = teardowns[i + 1]
        /\ Head(teardowns) = teardowns[1]
    BY <1>0, <2>1, <2>2, <2>3, QueueShrinks
  <2>5. \A i \in 1..(n - 1) : i + 1 \in 1..n /\ i + 1 # 1 BY <2>4
  <2>6. CASE Head(teardowns).reason = "stream_error"
    <3>1. 1 \in 1..n BY <2>4
    <3>2. \A i \in 1..(n - 1) : teardowns'[i].reason # "stream_error"
      BY <1>0, <2>4, <2>5, <2>6, <3>1 DEF Recovering
    <3> QED BY <2>4, <3>2 DEF Recovering
  <2>7. CASE Head(teardowns).reason # "stream_error"
    <3>1. recovery' = recovery /\ epoch' = epoch BY <1>6, <2>7 DEF FenceTransport
    <3>2. ASSUME NEW i \in 1..(n - 1), teardowns'[i].reason = "stream_error"
          PROVE  /\ recovery = "cancel" /\ epoch < MaxEpochs
                 /\ \A j \in 1..(n - 1) : teardowns'[j].reason = "stream_error" => i = j
      <4>1. i + 1 \in 1..n /\ teardowns[i + 1].reason = "stream_error" BY <2>4, <2>5, <3>2
      <4>2. \A j \in 1..n : teardowns[j].reason = "stream_error" => i + 1 = j
        BY <1>0, <2>4, <4>1 DEF Recovering
      <4>3. ASSUME NEW j \in 1..(n - 1), teardowns'[j].reason = "stream_error" PROVE i = j
        <5>1. i + 1 = j + 1 BY <2>4, <2>5, <4>2, <4>3
        <5> QED BY <2>4, <5>1
      <4> QED BY <1>0, <2>4, <4>1, <4>3 DEF Recovering
    <3> QED BY <2>4, <3>1, <3>2 DEF Recovering
  <2> QED BY <2>6, <2>7
<1>7. CASE ReopenStream \/ MicrophoneOn
  <2>1. recovery # "cancel" /\ teardowns' = teardowns
    BY <1>7 DEF ReopenStream, MicrophoneOn, fenceVars
  <2>2. \A i \in DOMAIN teardowns : teardowns[i].reason # "stream_error"
    BY <1>0, <2>1 DEF Recovering
  <2> QED BY <2>1, <2>2 DEF Recovering
<1>8. CASE AudioCallback \/ Discontinuity \/ TurnStarts \/ TurnEnds \/ FenceGate
  <2>1. UNCHANGED <<teardowns, recovery, epoch>>
    BY <1>8 DEF AudioCallback, Discontinuity, TurnStarts, TurnEnds, FenceGate, fenceVars, transportVars
  <2> QED BY <1>1, <2>1
<1> QED BY <1>3, <1>4, <1>5, <1>6, <1>7, <1>8 DEF InputNext

\* A rebuild that was part of a cancel finds the gate reset.
LEMMA EpochStep == InputInv /\ InputNext => Epochs'
<1> SUFFICES ASSUME InputInv, InputNext PROVE Epochs'
  OBVIOUS
<1>0. /\ \A i \in DOMAIN inbox : inbox[i].epoch = epoch
      /\ fenced => nextStart = None \/ gateEpoch = epoch
      /\ outcome = "lost" /\ policy.active => gateEpoch = epoch
  BY DEF InputInv, Epochs
<1>1. CASE Pump
  <2>1. UNCHANGED <<epoch, fenced>> BY <1>1 DEF Pump
  <2>2. \A i \in DOMAIN inbox' : inbox'[i].epoch = epoch BY <1>0, <1>1, PumpTakes
  <2>3. Head(inbox).epoch = epoch BY <1>0, <1>1, PumpTakes
  <2>4. gateEpoch' = epoch \/ UNCHANGED <<gateVars, gateEpoch>> BY <1>1, <2>3 DEF Pump
  <2> QED BY <1>0, <2>1, <2>2, <2>4 DEF Epochs, gateVars
<1>2. CASE AudioCallback
  <2>1. UNCHANGED <<gateVars, epoch, fenced, gateEpoch>> BY <1>2 DEF AudioCallback, ghostVars
  <2>2. \A i \in DOMAIN inbox' : inbox'[i].epoch = epoch
    <3>1. CASE inbox' = inbox BY <1>0, <3>1
    <3>2. CASE inbox' # inbox
      <4>1. /\ DOMAIN inbox = 1..Len(inbox) /\ DOMAIN inbox' = 1..(Len(inbox) + 1)
            /\ Len(inbox) \in Nat
            /\ \A i \in 1..Len(inbox) : inbox'[i] = inbox[i]
            /\ inbox'[Len(inbox) + 1].epoch = epoch
        BY <1>2, <3>2, CallbackAdds
      <4>2. \A i \in 1..(Len(inbox) + 1) : i \in 1..Len(inbox) \/ i = Len(inbox) + 1 BY <4>1
      <4> QED BY <1>0, <4>1, <4>2
    <3> QED BY <3>1, <3>2
  <2> QED BY <1>0, <2>1, <2>2 DEF Epochs, gateVars
<1>3. CASE FenceGate
  <2>1. UNCHANGED <<inbox, epoch, fenced>> BY <1>3 DEF FenceGate, transportVars
  <2>2. \/ UNCHANGED <<nextStart, outcome, policy, gateEpoch>>
        \/ nextStart' = None /\ outcome' = "none"
    BY <1>3 DEF FenceGate, CarryOver, Reset
  <2> QED BY <1>0, <2>1, <2>2 DEF Epochs
<1>4. CASE FenceTransport
  <2>1. UNCHANGED <<gateVars, gateEpoch>> BY <1>4 DEF FenceTransport, ghostVars
  <2>2. CASE Head(teardowns).reason = "stream_error"
    <3>1. nextStart = None /\ outcome = "none"
      BY <1>4, <2>2 DEF FenceTransport, InputInv, Fencing
    <3>2. DOMAIN inbox' = {}
      <4>1. inbox' = <<>> BY <1>4, <2>2 DEF FenceTransport, Rebuild
      <4> QED BY <4>1
    <3> QED BY <2>1, <3>1, <3>2 DEF Epochs, gateVars
  <2>3. CASE Head(teardowns).reason # "stream_error"
    <3>1. UNCHANGED <<inbox, epoch, fenced>> BY <1>4, <2>3 DEF FenceTransport
    <3> QED BY <1>0, <2>1, <3>1 DEF Epochs, gateVars
  <2> QED BY <2>2, <2>3
<1>5. CASE RecoverStreams
  <2>1. UNCHANGED <<gateVars, gateEpoch>> BY <1>5 DEF RecoverStreams
  <2>2. CASE policy.active
    <3>1. UNCHANGED transportVars BY <1>5, <2>2 DEF RecoverStreams
    <3> QED BY <1>0, <2>1, <3>1 DEF Epochs, gateVars, transportVars
  <2>3. CASE ~policy.active
    <3>1. Rebuild(gen) /\ fenced' = FALSE BY <1>5, <2>3 DEF RecoverStreams
    <3>2. DOMAIN inbox' = {}
      <4>1. inbox' = <<>> BY <3>1 DEF Rebuild
      <4> QED BY <4>1
    <3> QED BY <2>1, <2>3, <3>1, <3>2 DEF Epochs, gateVars
  <2> QED BY <2>2, <2>3
<1>6. CASE \/ Discontinuity \/ TurnStarts \/ TurnEnds \/ TextBargeIn \/ ReopenStream \/ MicrophoneOn
  <2>1. UNCHANGED <<gateVars, inbox, epoch, fenced, gateEpoch>>
    BY <1>6 DEF Discontinuity, TurnStarts, TurnEnds, TextBargeIn, ReopenStream, MicrophoneOn,
                transportVars, ghostVars
  <2> QED BY <1>0, <2>1 DEF Epochs, gateVars
<1> QED BY <1>1, <1>2, <1>3, <1>4, <1>5, <1>6 DEF InputNext

\* The pump's refusals, and what it splices.
LEMMA RefusalsExplained ==
  ASSUME InputInv, Pump, drop' # drop
  PROVE  drop' # "unexplained"
<1>1. /\ ~between /\ ~interrupting /\ Head(inbox).gen \notin {gateGen, carried}
      /\ drop' = RefusalOf(Head(inbox))
  BY DEF Pump, LoopRuns
<1>2. /\ gen \in Nat /\ gateGen \in Nat /\ transportGen \in Nat /\ resetGen \in Nat /\ ahead \in Nat
      /\ teardowns \in Seq(Callers)
  BY Typing
<1>3. PICK g : g = Head(inbox).gen OBVIOUS
<1>4. g \in Nat /\ Head(inbox) = inbox[1] /\ 1 \in DOMAIN inbox BY <1>3, PumpTakes DEF Heard
<1>5. CASE g > gateGen
  <2>1. g <= gen BY <1>3, <1>4 DEF InputInv, Stamps
  <2>2. PICK n : n = Len(teardowns) OBVIOUS
  <2>3. n \in Nat /\ DOMAIN teardowns = 1..n BY <1>2, <2>2
  <2>4. Passed = 0 BY <1>1 DEF Passed
  <2>5. /\ gen = gateGen + n - 0
        /\ \A i \in 1..n : teardowns[i].cur = gateGen + i - 0
        /\ \A i \in 1..n : i > 0 /\ teardowns[i].reason = "barge_in" => interrupting
    BY <2>2, <2>3, <2>4 DEF InputInv, Fencing
  <2>6. n \in 1..n /\ n > 0 BY <1>2, <1>4, <1>5, <2>1, <2>3, <2>5
  <2>7. teardowns[n].cur >= g /\ teardowns[n].reason # "barge_in"
    BY <1>1, <1>2, <1>4, <2>1, <2>3, <2>5, <2>6
  <2>8. \E i \in DOMAIN teardowns :
          teardowns[i].cur >= g /\ teardowns[i].reason # "barge_in"
    BY <2>3, <2>6, <2>7
  <2>9. ~(g < resetGen) /\ ~(g + 1 < gateGen) /\ ~(g + 1 = gateGen)
    <3>1. resetGen <= gateGen BY DEF InputInv, Stamps
    <3> QED BY <1>2, <1>4, <1>5, <3>1
  <2>10. RefusalOf(Head(inbox)) \in {"early"} BY <1>3, <1>5, <2>8, <2>9 DEF RefusalOf
  <2> QED BY <1>1, <2>10
<1>6. CASE ~(g > gateGen)
  <2>1. g < gateGen BY <1>1, <1>2, <1>3, <1>4, <1>6
  <2>2. \/ g < resetGen
        \/ g >= resetGen /\ g + 1 < gateGen
        \/ resetGen <= g /\ g + 1 = gateGen /\ g < ahead
    <3> SUFFICES ASSUME resetGen <= g, g + 1 = gateGen PROVE g < ahead
      BY <1>2, <1>4, <2>1
    <3>1. gateGen > resetGen /\ carried # gateGen - 1 BY <1>1, <1>2, <1>3, <1>4
    <3>2. g >= gateGen \/ g < ahead BY <1>3, <1>4, <3>1 DEF InputInv, Stamps
    <3> QED BY <1>2, <1>4, <2>1, <3>2
  <2>3. RefusalOf(Head(inbox)) \in {"reset", "overtaken", "regressed"}
    BY <1>3, <1>6, <2>2 DEF RefusalOf
  <2> QED BY <1>1, <2>3
<1> QED BY <1>5, <1>6

\* Only the pump refuses or joins spans, and each refusal has its reason.
LEMMA PumpStep == InputInv /\ InputNext => DropsExplained' /\ NoFencedSplice'
<1> SUFFICES ASSUME InputInv, InputNext PROVE DropsExplained' /\ NoFencedSplice'
  OBVIOUS
<1>0. drop # "unexplained" /\ ~spliced BY DEF InputInv, DropsExplained, NoFencedSplice
<1>1. CASE Pump
  <2>1. drop' # "unexplained" BY <1>0, <1>1, RefusalsExplained
  <2>2. ~spliced'
    <3>1. Head(inbox).start \in Nat /\ Head(inbox).epoch = epoch BY <1>1, NextSpan DEF Pump, ReadNowait
    <3>2. ~(fenced /\ nextStart = Head(inbox).start /\ gateEpoch # Head(inbox).epoch)
      BY <3>1 DEF InputInv, Epochs, None
    <3>3. spliced' = spliced \/ spliced' = (spliced \/ (fenced /\ nextStart = Head(inbox).start
                                                        /\ gateEpoch # Head(inbox).epoch))
      BY <1>1 DEF Pump
    <3> QED BY <1>0, <3>2, <3>3
  <2> QED BY <2>1, <2>2 DEF DropsExplained, NoFencedSplice
<1>2. CASE ~Pump
  <2>1. UNCHANGED <<drop, spliced>>
    BY <1>2 DEF InputNext, AudioCallback, Discontinuity, TurnStarts, TurnEnds, TextBargeIn, FenceGate,
                FenceTransport, RecoverStreams, ReopenStream, MicrophoneOn, ghostVars
  <2> QED BY <1>0, <2>1 DEF DropsExplained, NoFencedSplice
<1> QED BY <1>1, <1>2

\* Every step keeps the variables of the pump in their types.
LEMMA TypeStep == InputInv /\ InputNext => InputTypeOK'
<1> SUFFICES ASSUME InputInv, InputNext PROVE InputTypeOK'
  OBVIOUS
<1>0. /\ teardowns \in Seq(Callers) /\ inbox \in Seq(Heard) /\ Len(inbox) <= MaxCallbacks
      /\ gen \in 0..MaxGen /\ gateGen \in 0..MaxGen /\ transportGen \in 0..MaxGen
      /\ resetGen \in 0..MaxGen /\ ahead \in 0..MaxGen
      /\ epoch \in 0..MaxEpochs /\ gateEpoch \in -1..MaxEpochs
      /\ cursor \in 0..MaxSample /\ MaxGen \in Nat /\ MaxEpochs \in Nat /\ MaxSample \in Nat
  BY Typing
<1>1. /\ busy \in -1..MaxGen /\ micOn \in BOOLEAN /\ streamOpen \in BOOLEAN
      /\ overflowed \in BOOLEAN /\ fenced \in BOOLEAN /\ spliced \in BOOLEAN /\ between \in BOOLEAN
      /\ recovery \in {"idle", "cancel", "reopen", "microphone"}
      /\ drop \in {"none", "early", "reset", "overtaken", "regressed", "unexplained"}
  BY DEF InputInv, InputTypeOK
<1> DEFINE Ours == /\ between' \in BOOLEAN /\ busy' \in -1..MaxGen
                   /\ micOn' \in BOOLEAN /\ streamOpen' \in BOOLEAN /\ overflowed' \in BOOLEAN
                   /\ fenced' \in BOOLEAN /\ spliced' \in BOOLEAN
                   /\ cursor' \in 0..MaxSample /\ transportGen' \in 0..MaxGen
                   /\ resetGen' \in 0..MaxGen /\ ahead' \in 0..MaxGen
                   /\ epoch' \in 0..MaxEpochs /\ gateEpoch' \in -1..MaxEpochs
                   /\ recovery' \in {"idle", "cancel", "reopen", "microphone"}
                   /\ drop' \in {"none", "early", "reset", "overtaken", "regressed", "unexplained"}
           Queues == /\ gen' \in 0..MaxGen /\ teardowns' \in Seq(Callers)
                     /\ inbox' \in Seq(Heard) /\ Len(inbox') <= MaxCallbacks
<1>2. Ours /\ Queues => InputTypeOK' BY DEF InputTypeOK, Callers, Heard
<1>3. CASE Pump
  <2>1. gen' \in 0..MaxGen /\ teardowns' \in Seq(Callers)
    BY <1>0, <1>3, PumpAdvances, Advanced
  <2>2. inbox' \in Seq(Heard) /\ Len(inbox') <= MaxCallbacks
    <3>1. PICK n : n = Len(inbox) OBVIOUS
    <3>2. inbox' \in Seq(Heard) /\ Len(inbox') = n - 1 /\ n \in Nat BY <1>3, <3>1, PumpTakes
    <3> QED BY <1>0, <3>1, <3>2, QueueAssumption
  <2>3. gateEpoch' \in -1..MaxEpochs
    <3>1. Head(inbox).epoch = epoch BY <1>3, NextSpan DEF Pump, ReadNowait
    <3>2. gateEpoch' = epoch \/ gateEpoch' = gateEpoch BY <1>3, <3>1 DEF Pump
    <3> QED BY <1>0, <3>2
  <2>4. busy' \in -1..MaxGen BY <1>0, <1>1, <1>3 DEF Pump
  <2>5. spliced' \in BOOLEAN BY <1>1, <1>3 DEF Pump
  <2>6. drop' \in {"none", "early", "reset", "overtaken", "regressed", "unexplained"}
    BY <1>1, <1>3 DEF Pump, RefusalOf
  <2>7. UNCHANGED <<between, micOn, streamOpen, cursor, transportGen, overflowed, recovery, epoch,
                    fenced, resetGen, ahead>>
    BY <1>3 DEF Pump
  <2> QED BY <1>0, <1>1, <1>2, <2>1, <2>2, <2>3, <2>4, <2>5, <2>6, <2>7
<1>4. CASE AudioCallback
  <2>1. inbox' \in Seq(Heard) /\ Len(inbox') <= MaxCallbacks
    BY <1>0, <1>4, CallbackAdds
  <2>2. cursor' \in 0..MaxSample BY <1>0, <1>4, WindowAssumption DEF AudioCallback
  <2>3. overflowed' \in BOOLEAN /\ streamOpen' \in BOOLEAN BY <1>1, <1>4 DEF AudioCallback
  <2>4. UNCHANGED <<gen, teardowns, between, busy, micOn, transportGen, recovery, epoch, fenced,
                    gateEpoch, spliced, resetGen, ahead, drop>>
    BY <1>4 DEF AudioCallback, fenceVars, ghostVars
  <2> QED BY <1>0, <1>1, <1>2, <2>1, <2>2, <2>3, <2>4
<1>5. CASE TextBargeIn
  <2>1. gen' \in 0..MaxGen /\ teardowns' \in Seq(Callers)
    BY <1>5, Advanced DEF TextBargeIn
  <2>2. UNCHANGED <<between, busy, micOn, streamOpen, cursor, transportGen, inbox, overflowed,
                    recovery, epoch, fenced, gateEpoch, spliced, resetGen, ahead, drop>>
    BY <1>5 DEF TextBargeIn, transportVars, ghostVars
  <2> QED BY <1>0, <1>1, <1>2, <2>1, <2>2
<1>6. CASE FenceGate
  <2>1. UNCHANGED <<gen, teardowns, busy, micOn, streamOpen, cursor, transportGen, inbox, overflowed,
                    recovery, epoch, fenced, spliced, ahead, drop>> /\ between' = TRUE
    BY <1>6 DEF FenceGate, transportVars
  <2>2. gateGen < MaxGen BY <1>6 DEF FenceGate, CarryOver, Reset
  <2>3. resetGen' \in 0..MaxGen /\ gateEpoch' \in -1..MaxEpochs
    BY <1>0, <1>6, <2>2 DEF FenceGate, None
  <2> QED BY <1>0, <1>1, <1>2, <2>1, <2>3
<1>7. CASE FenceTransport
  <2>1. teardowns # <<>> BY <1>7 DEF FenceTransport, InputInv, Fencing
  <2>2. Head(teardowns) \in Callers /\ teardowns' \in Seq(Callers) /\ 1 \in DOMAIN teardowns
        /\ Head(teardowns) = teardowns[1]
    BY <1>0, <1>7, <2>1 DEF FenceTransport
  <2>3. Head(teardowns).cur \in 0..MaxGen BY <2>2 DEF Callers
  <2>4. UNCHANGED <<gen, busy, streamOpen, gateEpoch, spliced, resetGen, ahead, drop>>
        /\ between' = FALSE
    BY <1>7 DEF FenceTransport, ghostVars
  <2>5. CASE Head(teardowns).reason = "stream_error"
    <3>1. epoch < MaxEpochs BY <2>2, <2>5 DEF InputInv, Recovering
    <3>2. Rebuild(Head(teardowns).cur) /\ fenced' = TRUE /\ recovery' = "reopen"
      BY <1>7, <2>5 DEF FenceTransport
    <3>3. inbox' \in Seq(Heard) /\ Len(inbox') <= MaxCallbacks
      <4>1. inbox' = <<>> BY <3>2 DEF Rebuild
      <4> QED BY <4>1, QueueAssumption
    <3>4. /\ micOn' \in BOOLEAN /\ cursor' \in 0..MaxSample /\ transportGen' \in 0..MaxGen
          /\ overflowed' \in BOOLEAN /\ epoch' \in 0..MaxEpochs
      <4>1. /\ micOn' = FALSE /\ cursor' = 0 /\ transportGen' = Head(teardowns).cur
            /\ overflowed' = FALSE /\ epoch' = epoch + 1
        BY <3>2 DEF Rebuild
      <4>2. epoch + 1 \in 0..MaxEpochs /\ 0 \in 0..MaxSample BY <1>0, <3>1
      <4> QED BY <2>3, <4>1, <4>2
    <3> QED BY <1>0, <1>1, <1>2, <2>2, <2>4, <3>2, <3>3, <3>4
  <2>6. CASE Head(teardowns).reason # "stream_error"
    <3>1. UNCHANGED <<micOn, cursor, inbox, overflowed, epoch, fenced, recovery>>
          /\ transportGen' = Head(teardowns).cur
      BY <1>7, <2>6 DEF FenceTransport, SetGeneration
    <3> QED BY <1>0, <1>1, <1>2, <2>2, <2>3, <2>4, <3>1
  <2> QED BY <2>5, <2>6
<1>8. CASE RecoverStreams
  <2>1. UNCHANGED <<between, busy, streamOpen, gateEpoch, spliced, resetGen, drop>>
        /\ recovery' \in {"cancel", "reopen"} /\ epoch < MaxEpochs
    BY <1>8 DEF RecoverStreams
  <2>2. CASE policy.active
    <3>1. gen < MaxGen /\ AdvanceWith("stream_error") /\ UNCHANGED <<transportVars, ahead>>
      BY <1>8, <2>2 DEF RecoverStreams
    <3>2. gen' \in 0..MaxGen /\ teardowns' \in Seq(Callers) BY <3>1, Advanced
    <3> QED BY <1>0, <1>1, <1>2, <2>1, <3>1, <3>2 DEF transportVars
  <2>3. CASE ~policy.active
    <3>1. Rebuild(gen) /\ fenced' = FALSE /\ UNCHANGED <<gen, teardowns>>
          /\ ahead' \in 0..MaxGen
      BY <1>0, <1>8, <2>3 DEF RecoverStreams
    <3>2. inbox' \in Seq(Heard) /\ Len(inbox') <= MaxCallbacks
      <4>1. inbox' = <<>> BY <3>1 DEF Rebuild
      <4> QED BY <4>1, QueueAssumption
    <3>3. /\ micOn' \in BOOLEAN /\ cursor' \in 0..MaxSample /\ transportGen' \in 0..MaxGen
          /\ overflowed' \in BOOLEAN /\ epoch' \in 0..MaxEpochs
      <4>1. /\ micOn' = FALSE /\ cursor' = 0 /\ transportGen' = gen
            /\ overflowed' = FALSE /\ epoch' = epoch + 1
        BY <3>1 DEF Rebuild
      <4>2. epoch + 1 \in 0..MaxEpochs /\ 0 \in 0..MaxSample BY <1>0, <2>1
      <4> QED BY <1>0, <4>1, <4>2
    <3> QED BY <1>0, <1>1, <1>2, <2>1, <3>1, <3>2, <3>3
  <2> QED BY <2>2, <2>3
<1>9. CASE Discontinuity \/ TurnStarts \/ TurnEnds
  <2>1. UNCHANGED <<gen, teardowns, between, micOn, cursor, transportGen, inbox, recovery, epoch,
                    fenced, gateEpoch, spliced, resetGen, ahead, drop>>
    BY <1>9 DEF Discontinuity, TurnStarts, TurnEnds, fenceVars, transportVars, ghostVars
  <2>2. busy' \in {busy, gen, None} /\ streamOpen' \in BOOLEAN /\ overflowed' \in BOOLEAN
    BY <1>1, <1>9 DEF Discontinuity, TurnStarts, TurnEnds, transportVars
  <2>3. busy' \in -1..MaxGen BY <1>0, <1>1, <2>2 DEF None
  <2> QED BY <1>0, <1>1, <1>2, <2>1, <2>2, <2>3
<1>10. CASE ReopenStream \/ MicrophoneOn
  <2>1. UNCHANGED <<gen, teardowns, between, busy, cursor, transportGen, inbox, overflowed, epoch,
                    fenced, gateEpoch, spliced, resetGen, ahead, drop>>
    BY <1>10 DEF ReopenStream, MicrophoneOn, fenceVars, transportVars, ghostVars
  <2>2. micOn' \in BOOLEAN /\ streamOpen' \in BOOLEAN /\ recovery' \in {"microphone", "idle"}
    BY <1>1, <1>10 DEF ReopenStream, MicrophoneOn, SetMicrophone, transportVars
  <2> QED BY <1>0, <1>1, <1>2, <2>1, <2>2
<1> QED BY <1>3, <1>4, <1>5, <1>6, <1>7, <1>8, <1>9, <1>10 DEF InputNext
-----------------------------------------------------------------------------
LEMMA Initially == InputInit => InputInv
<1> SUFFICES ASSUME InputInit PROVE InputInv
  OBVIOUS
<1> USE WindowAssumption, QueueAssumption
<1>1. GateTypeOK
  <2>1. /\ FreshPolicy \in Policies /\ EmptyRing \in Rings /\ NoUtterance \in Utterances
        /\ NoCapture \in Captures /\ None \in Position
    BY DEF FreshPolicy, EmptyRing, NoUtterance, NoCapture, Policies, Rings, Utterances, Captures,
           Position, None
  <2>2. 0 \in 0..MaxGen /\ None \in -1..MaxGen /\ 0 \in Position BY DEF None, Position
  <2> QED BY <2>1, <2>2 DEF InputInit, GateInit, GateTypeOK, Policies, Rings, Utterances, Captures
<1>2. /\ Timeline /\ Confirming /\ Capturing /\ Orphaned /\ Awaiting
      /\ OnlyThresholdDropLoses /\ CaptureHonest
  BY DEF InputInit, GateInit, Timeline, Confirming, Capturing, Orphaned, Awaiting,
         OnlyThresholdDropLoses, CaptureHonest, FreshPolicy, EmptyRing, NoUtterance
<1>3. InputTypeOK
  <2>1. teardowns = <<>> /\ inbox = <<>> BY DEF InputInit
  <2>2. Len(inbox) <= MaxCallbacks BY <2>1
  <2>3. /\ teardowns \in Seq([cur : 0..MaxGen,
                               reason : {"barge_in", "text_barge_in", "stream_error"}])
        /\ inbox \in Seq([start : Nat, gen : 0..MaxGen, epoch : 0..MaxEpochs])
    BY <2>1
  <2>4. 0 \in 0..MaxGen /\ 0 \in 0..MaxSample /\ 0 \in 0..MaxEpochs /\ None \in -1..MaxGen
        /\ None \in -1..MaxEpochs
    BY DEF None
  <2> QED BY <2>2, <2>3, <2>4 DEF InputInit, InputTypeOK
<1>4. DOMAIN teardowns = {} /\ DOMAIN inbox = {} /\ Len(teardowns) = 0 BY DEF InputInit
<1>5. Fencing BY <1>4 DEF InputInit, GateInit, Fencing, Passed
<1>6. Stamps BY <1>4 DEF InputInit, GateInit, Stamps
<1>7. Epochs /\ Recovering BY <1>4 DEF InputInit, GateInit, Epochs, Recovering
<1>8. DropsExplained /\ NoFencedSplice BY DEF InputInit, DropsExplained, NoFencedSplice
<1> QED BY <1>1, <1>2, <1>3, <1>5, <1>6, <1>7, <1>8 DEF InputInv, GateInv

\* Nothing changes when nothing happens.
LEMMA Stutters == InputInv /\ UNCHANGED <<gateVars, inputVars>> => InputInv'
<1> SUFFICES ASSUME InputInv, UNCHANGED <<gateVars, inputVars>> PROVE InputInv'
  OBVIOUS
<1>1. GateInv' BY QuietKeepsGate DEF InputInv
<1>2. InputTypeOK' BY DEF InputInv, InputTypeOK, inputVars
<1>3. Fencing' /\ Stamps' /\ Epochs' /\ Recovering' /\ DropsExplained' /\ NoFencedSplice'
  BY DEF InputInv, Fencing, Passed, Stamps, Epochs, Recovering, DropsExplained, NoFencedSplice,
         gateVars, inputVars
<1> QED BY <1>1, <1>2, <1>3 DEF InputInv

\* The inductive invariant of the microphone path.
THEOREM InputInvariance == InputSpec => []InputInv
<1>1. InputInit => InputInv BY Initially
<1>2. InputInv /\ [InputNext]_<<gateVars, inputVars>> => InputInv'
  BY GateStep, TypeStep, OrderStep, StampStep, EpochStep, RecoveryStep, PumpStep, Stutters DEF InputInv
<1> QED BY <1>1, <1>2, PTL DEF InputSpec

\* An utterance is lost only when Lune fell silent while its first words were being
\* confirmed: with the ring the constructors insist on, no window finds its onset trimmed
\* (turn_gate.py:194-235, preroll.py capture).
THEOREM LossesHaveOneCause == InputSpec => []OnlyThresholdDropLoses
<1>1. InputInv => OnlyThresholdDropLoses BY DEF InputInv, GateInv
<1> QED BY <1>1, InputInvariance, PTL

\* A capture holds samples since the last fence only, no more than the bound, and
\* last_voiced_sample is where speech ended (turn_gate.py _build_capture).
THEOREM CapturesAreHonest == InputSpec => []CaptureHonest
<1>1. InputInv => CaptureHonest BY DEF InputInv, GateInv
<1> QED BY <1>1, InputInvariance, PTL

\* The gate refuses a span only behind a fence that discards it, or because a second
\* barge-in or a rebuild came between: one interruption by voice loses nothing
\* (turn_gate.py feed, transport.py audio_callback).
THEOREM RefusalsHaveReasons == InputSpec => []DropsExplained
<1>1. InputInv => DropsExplained BY DEF InputInv
<1> QED BY <1>1, InputInvariance, PTL

\* A recovery that cancels never joins the new timeline to the old one
\* (engine.py _recover_streams, turn_gate.py reset_generation).
THEOREM CancelsDoNotSplice == InputSpec => []NoFencedSplice
<1>1. InputInv => NoFencedSplice BY DEF InputInv
<1> QED BY <1>1, InputInvariance, PTL
=============================================================================
