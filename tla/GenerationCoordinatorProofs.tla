--------------------- MODULE GenerationCoordinatorProofs ---------------------
(***************************************************************************)
(* Machine-checked proofs about GenerationCoordinator, for every bound on  *)
(* the counter, every history limit and every set of cancel reasons.       *)
(***************************************************************************)
EXTENDS GenerationCoordinator, TLAPS

\* Callers are served in the order they advanced the counter.
LockOrder ==
  /\ \A i \in 1..Len(lock) : lock[i].cur > 0 /\ lock[i].cur <= gen
  /\ \A i, j \in 1..Len(lock) : i < j => lock[i].cur < lock[j].cur
  /\ lock = <<>> => stage = "wait"

\* What the holder's stage says of the fences it has and has not passed.
StopProgress ==
  /\ stage = "wait" => \A i \in 1..Len(lock) : stoppedBefore < lock[i].cur
  /\ stage # "wait" => stoppedBefore = Holder.cur

SttProgress ==
  /\ stage \in {"wait", "playback", "tts"} => \A i \in 1..Len(lock) : sttGen < lock[i].cur
  /\ stage \in {"provider", "transport"} => sttGen = Holder.cur

GateProgress ==
  /\ stage # "transport" => \A i \in 1..Len(lock) : gateGen < lock[i].cur
  /\ stage = "transport" => gateGen = Holder.cur /\ Previous(Holder) \notin staged

\* The newest cancellation is last in the lock until it is done or aborted.
NewestLast == lock # <<>> /\ gen \notin aborted => lock[Len(lock)].cur = gen

\* Finished cancellations are older than every one still in the lock.
HistoryBehind ==
  \A i \in 1..Len(history) :
    /\ history[i].cur <= gen
    /\ \A j \in 1..Len(lock) : history[i].cur < lock[j].cur

Progress ==
  /\ LockOrder
  /\ StopProgress
  /\ SttProgress
  /\ GateProgress

\* The inductive invariant: the properties, and the progress they rest on.
IInv ==
  /\ TypeOK
  /\ Progress
  /\ NewestLast
  /\ HistoryBehind
  /\ NeverBackwards
  /\ FenceOrder
  /\ StampAccepted
  /\ Settled
  /\ ProposalsFenced
  /\ HistoryOrdered
-----------------------------------------------------------------------------
\* Elements of a sequence are in the set it is a sequence over.
LEMMA ElementOf ==
  ASSUME NEW S, NEW s \in Seq(S), NEW i \in 1..Len(s)
  PROVE  s[i] \in S
OBVIOUS

\* What removing one caller from the lock does to it.
LEMMA WithoutFacts ==
  ASSUME NEW s \in Seq(Caller), NEW k \in 1..Len(s)
  PROVE  /\ Without(s, k) \in Seq(Caller)
         /\ Len(Without(s, k)) = Len(s) - 1
         /\ \A i \in 1..(Len(s) - 1) :
              Without(s, k)[i] = IF i < k THEN s[i] ELSE s[i + 1]
<1>1. \A i \in 1..(Len(s) - 1) : (IF i < k THEN s[i] ELSE s[i + 1]) \in Caller
  OBVIOUS
<1>2. Len(s) - 1 \in Nat
  OBVIOUS
<1> QED BY <1>1, <1>2 DEF Without

\* r ends with e, and before it has the newest elements of h.
IsSuffix(E, h, e, r) ==
  /\ r \in Seq(E)
  /\ Len(r) <= HistoryLimit
  /\ Len(r) \in 1..(Len(h) + 1)
  /\ \A i \in 1..Len(r) :
       r[i] = IF i = Len(r) THEN e ELSE h[i + Len(h) + 1 - Len(r)]

\* What remembering one more event does to the history.
LEMMA RememberFacts ==
  ASSUME NEW E, NEW h \in Seq(E), NEW e \in E,
         HistoryLimit \in Nat \ {0}, Len(h) <= HistoryLimit
  PROVE  IsSuffix(E, h, e, Remember(h, e))
<1> DEFINE all == Append(h, e)
<1>1. all \in Seq(E) /\ Len(all) = Len(h) + 1 /\ all # <<>>
  OBVIOUS
<1>2. CASE Len(all) > HistoryLimit
  <2>1. Remember(h, e) = Tail(all)
    BY <1>2 DEF Remember
  <2>2. /\ Tail(all) \in Seq(E)
        /\ Len(Tail(all)) = Len(h)
        /\ \A i \in 1..Len(h) : Tail(all)[i] = all[i + 1]
    BY <1>1
  <2>3. \A i \in 1..Len(h) : all[i + 1] = IF i = Len(h) THEN e ELSE h[i + 1]
    OBVIOUS
  <2>4. Len(h) \in Nat /\ Len(h) > 0
    BY <1>1, <1>2
  <2>5. \A i \in 1..Len(h) : i + Len(h) + 1 - Len(h) = i + 1
    BY <2>4
  <2> DEFINE r == Remember(h, e)
  <2>6. r \in Seq(E) /\ Len(r) = Len(h)
    BY <2>1, <2>2
  <2>7. \A i \in 1..Len(h) : r[i] = IF i = Len(h) THEN e ELSE h[i + 1]
    BY <2>1, <2>2, <2>3
  <2> HIDE DEF all, r
  <2>8. /\ r \in Seq(E) /\ Len(r) <= HistoryLimit /\ Len(r) \in 1..(Len(h) + 1)
        /\ \A i \in 1..Len(r) :
             r[i] = IF i = Len(r) THEN e ELSE h[i + Len(h) + 1 - Len(r)]
    BY <2>4, <2>5, <2>6, <2>7
  <2> QED BY <2>8 DEF r, IsSuffix
<1>3. CASE ~(Len(all) > HistoryLimit)
  <2>1. Remember(h, e) = all
    BY <1>3 DEF Remember
  <2> QED BY <1>1, <1>3, <2>1 DEF IsSuffix
<1> QED BY <1>2, <1>3

\* A coordinator that was just built satisfies the invariant.
LEMMA InitEstablishes ==
  ASSUME Init
  PROVE  IInv
<1>0. Len(lock) = 0 /\ Len(history) = 0 /\ lock = <<>> /\ history = <<>>
  BY DEF Init
<1>1. TypeOK
  <2>1. lock \in Seq(Caller)
    BY <1>0
  <2>2. history \in Seq([cur : Nat, failed : SUBSET (AsyncStages \cup SyncStages)])
    BY <1>0
  <2> QED BY <2>1, <2>2 DEF Init, TypeOK, None
<1>2. Progress /\ NewestLast /\ HistoryBehind
  BY <1>0 DEF Init, Progress, LockOrder, StopProgress, SttProgress, GateProgress,
              NewestLast, HistoryBehind
<1>3. NeverBackwards /\ HistoryOrdered
  BY <1>0, BoundsAssumption DEF Init, NeverBackwards, HistoryOrdered
<1>4. FenceOrder /\ Settled /\ ProposalsFenced
  BY DEF Init, FenceOrder, Settled, ProposalsFenced
<1>5. StampAccepted
  BY DEF Init, StampAccepted
<1> QED BY <1>1, <1>2, <1>3, <1>4, <1>5 DEF IInv

\* Advancing the counter queues a caller newer than all others.
LEMMA CancelPreserves ==
  ASSUME IInv, NEW reason \in Reasons, Cancel(reason)
  PROVE  IInv'
<1> DEFINE c == [cur |-> gen + 1, reason |-> reason]
<1> USE DEF IInv, Progress
<1>0. c \in Caller
  BY ReasonsAssumption DEF Caller, TypeOK
<1>1. /\ lock' = Append(lock, c)
      /\ Len(lock') = Len(lock) + 1
      /\ lock'[Len(lock')] = c
      /\ \A i \in 1..Len(lock) : lock'[i] = lock[i]
      /\ lock # <<>> => Len(lock) > 0 /\ Holder' = Holder
      /\ lock = <<>> => Len(lock) = 0 /\ Holder' = c
      /\ lock' # <<>> /\ Len(lock) \in Nat
  BY <1>0 DEF Cancel, TypeOK, Holder
<1>2. gen' = gen + 1 /\ gen \in Nat
  BY DEF Cancel, TypeOK
<1>3. TypeOK'
  BY <1>0, <1>1 DEF Cancel, TypeOK, StopPlayback, AsyncStages
<1>4. LockOrder'
  <2>1. \A i \in 1..Len(lock) : lock[i].cur > 0 /\ lock[i].cur <= gen /\ lock[i].cur \in Nat
    <3>1. \A i \in 1..Len(lock) : lock[i] \in Caller
      BY DEF TypeOK
    <3>2. \A i \in 1..Len(lock) : lock[i].cur \in Nat
      BY <3>1 DEF Caller
    <3> QED BY <3>2 DEF LockOrder
  <2>2. \A i \in 1..Len(lock') : lock'[i].cur > 0 /\ lock'[i].cur <= gen'
    BY <1>1, <1>2, <2>1
  <2>3. ASSUME NEW i \in 1..Len(lock'), NEW j \in 1..Len(lock'), i < j
        PROVE  lock'[i].cur < lock'[j].cur
    <3>1. i \in 1..Len(lock) /\ lock'[i] = lock[i]
      BY <1>1, <2>3
    <3>2. CASE j \in 1..Len(lock)
      BY <1>1, <2>3, <3>1, <3>2 DEF LockOrder
    <3>3. CASE j = Len(lock')
      <4>1. lock'[j].cur = gen + 1
        BY <1>1, <3>3
      <4> QED BY <1>2, <2>1, <3>1, <4>1
    <3> QED BY <1>1, <3>2, <3>3
  <2> QED BY <1>1, <2>2, <2>3 DEF LockOrder
<1>5. StopProgress' /\ FenceOrder'
  BY <1>1, <1>2 DEF Cancel, StopProgress, FenceOrder, StopPlayback, LockOrder, TypeOK
<1>6. SttProgress'
  BY <1>1, <1>2 DEF Cancel, SttProgress, FenceOrder, LockOrder, TypeOK
<1>7. GateProgress' /\ StampAccepted'
  BY <1>1, <1>2 DEF Cancel, GateProgress, StampAccepted, FenceOrder, LockOrder, LoopRuns, TypeOK
<1>8. NewestLast' /\ Settled'
  BY <1>1, <1>2 DEF NewestLast, Settled
<1>9. ProposalsFenced'
  <2>1. Waiting \subseteq Waiting' /\ gen + 1 \in Waiting'
    BY <1>1 DEF Waiting
  <2> QED BY <1>2, <2>1 DEF Cancel, ProposalsFenced
<1>10. history' = history /\ failed' = failed
  BY DEF Cancel
<1>11. NeverBackwards' /\ HistoryOrdered'
  BY <1>10 DEF NeverBackwards, HistoryOrdered
<1>12. HistoryBehind'
  <2> SUFFICES ASSUME NEW i \in 1..Len(history)
               PROVE  /\ history[i].cur <= gen + 1
                      /\ \A j \in 1..Len(lock') : history[i].cur < lock'[j].cur
    BY <1>2, <1>10 DEF HistoryBehind
  <2>1. history[i].cur \in Nat
    <3> DEFINE E == [cur : Nat, failed : SUBSET (AsyncStages \cup SyncStages)]
    <3>1. history \in Seq(E)
      BY DEF TypeOK
    <3>2. history[i] \in E
      <4> HIDE DEF E
      <4> QED BY <3>1, ElementOf
    <3> QED BY <3>2
  <2>2. history[i].cur <= gen
    BY DEF HistoryBehind
  <2>3. ASSUME NEW j \in 1..Len(lock')
        PROVE  history[i].cur < lock'[j].cur
    <3>1. CASE j \in 1..Len(lock)
      BY <1>1, <3>1 DEF HistoryBehind
    <3>2. CASE j = Len(lock')
      <4>1. lock'[j].cur = gen + 1
        BY <1>1, <3>2
      <4> QED BY <1>2, <2>1, <2>2, <4>1
    <3> QED BY <1>1, <3>1, <3>2
  <2> QED BY <1>2, <2>1, <2>2, <2>3
<1> QED BY <1>3, <1>4, <1>5, <1>6, <1>7, <1>8, <1>9, <1>11, <1>12

\* A non-empty sequence has a first element.
LEMMA FirstOf ==
  ASSUME NEW S, NEW s \in Seq(S), s # <<>>
  PROVE  Len(s) \in Nat /\ Len(s) > 0 /\ s[1] \in S
OBVIOUS

\* A woken waiter raises the playback mark to its own generation.
LEMMA AcquirePreserves ==
  ASSUME IInv, AcquireLock
  PROVE  IInv'
<1> USE DEF IInv, Progress
<1>0. /\ Len(lock) \in Nat /\ Len(lock) > 0 /\ Holder \in Caller /\ Holder.cur \in Nat
      /\ Holder' = Holder /\ lock' = lock
  <2>1. lock \in Seq(Caller) /\ lock # <<>>
    BY DEF AcquireLock, TypeOK
  <2>2. Len(lock) \in Nat /\ Len(lock) > 0 /\ Holder \in Caller
    BY <2>1, FirstOf DEF Holder
  <2> QED BY <2>2 DEF AcquireLock, Holder, Caller
<1>1. stoppedBefore' = Holder.cur /\ stoppedBefore < Holder.cur
  BY <1>0 DEF AcquireLock, StopPlayback, StopProgress, Holder, TypeOK
<1>2. TypeOK'
  BY <1>0, <1>1 DEF AcquireLock, TypeOK, AsyncStages
<1>3. Progress'
  BY <1>0, <1>1 DEF AcquireLock, LockOrder, StopProgress, SttProgress, GateProgress, TypeOK
<1>4. FenceOrder' /\ StampAccepted'
  BY <1>0, <1>1 DEF AcquireLock, FenceOrder, StampAccepted, LockOrder, Holder, TypeOK
<1>5. Settled' /\ NewestLast' /\ ProposalsFenced' /\ NeverBackwards'
  BY <1>0 DEF AcquireLock, Settled, NewestLast, ProposalsFenced, Waiting, NeverBackwards
<1>6. HistoryBehind' /\ HistoryOrdered'
  BY <1>0 DEF AcquireLock, HistoryBehind, HistoryOrdered
<1> QED BY <1>2, <1>3, <1>4, <1>5, <1>6

\* Awaited stages: whoever holds the lock is the first of a non-empty queue.
LEMMA HolderFacts ==
  ASSUME TypeOK, LockOrder, stage # "wait"
  PROVE  /\ Len(lock) \in Nat /\ Len(lock) > 0
         /\ Holder \in Caller /\ Holder.cur \in Nat /\ Holder.reason \in Reasons
<1>1. lock \in Seq(Caller) /\ lock # <<>>
  BY DEF TypeOK, LockOrder
<1>2. Len(lock) \in Nat /\ Len(lock) > 0 /\ Holder \in Caller
  BY <1>1, FirstOf DEF Holder
<1> QED BY <1>2 DEF Caller

\* The device flush moves no fence; its failure is an awaited stage's.
LEMMA PlaybackStoppedPreserves ==
  ASSUME IInv, NEW ok \in BOOLEAN, PlaybackStopped(ok)
  PROVE  IInv'
<1> USE DEF IInv, Progress
<1>0. lock' = lock /\ Holder' = Holder /\ UNCHANGED fences
  BY DEF PlaybackStopped, Holder
<1>1. TypeOK' /\ NeverBackwards'
  BY DEF PlaybackStopped, TypeOK, NeverBackwards, Recorded, AsyncStages, SyncStages, fences
<1>2. Progress'
  BY <1>0 DEF PlaybackStopped, LockOrder, StopProgress, SttProgress, GateProgress, fences
<1>3. FenceOrder' /\ StampAccepted' /\ Settled' /\ NewestLast' /\ ProposalsFenced'
  BY <1>0 DEF PlaybackStopped, FenceOrder, StampAccepted, Settled, NewestLast,
              ProposalsFenced, Waiting, fences
<1>4. HistoryBehind' /\ HistoryOrdered'
  BY <1>0 DEF PlaybackStopped, HistoryBehind, HistoryOrdered
<1> QED BY <1>1, <1>2, <1>3, <1>4

\* STT never refuses: the holder is newer than every generation STT has seen.
LEMMA TtsCancelledPreserves ==
  ASSUME IInv, NEW ok \in BOOLEAN, TtsCancelled(ok)
  PROVE  IInv'
<1> USE DEF IInv, Progress
<1>0. /\ Len(lock) \in Nat /\ Len(lock) > 0 /\ Holder.cur \in Nat
      /\ lock' = lock /\ Holder' = Holder /\ stage = "tts" /\ stage' = "provider"
  BY HolderFacts DEF TtsCancelled, Holder
<1>1. sttGen < Holder.cur
  BY <1>0 DEF SttProgress, Holder
<1>2. sttGen' = Holder.cur /\ failed' = Recorded("tts", ok)
  BY <1>0, <1>1 DEF TtsCancelled, TypeOK
<1>3. TypeOK' /\ NeverBackwards'
  BY <1>0, <1>2 DEF TtsCancelled, TypeOK, NeverBackwards, Recorded, AsyncStages, SyncStages
<1>4. Progress'
  BY <1>0, <1>2 DEF TtsCancelled, LockOrder, StopProgress, SttProgress, GateProgress, Holder
<1>5. FenceOrder'
  BY <1>0, <1>1, <1>2 DEF TtsCancelled, FenceOrder, StopProgress, TypeOK
<1>6. StampAccepted' /\ Settled' /\ NewestLast' /\ ProposalsFenced'
  BY <1>0 DEF TtsCancelled, StampAccepted, Settled, NewestLast, ProposalsFenced, Waiting
<1>7. HistoryBehind' /\ HistoryOrdered'
  BY <1>0 DEF TtsCancelled, HistoryBehind, HistoryOrdered
<1> QED BY <1>3, <1>4, <1>5, <1>6, <1>7

\* Nor does the gate; a barge-in carries exactly the generation the transport
\* still stamps.
LEMMA ProviderDrainedPreserves ==
  ASSUME IInv, NEW ok \in BOOLEAN, ProviderDrained(ok)
  PROVE  IInv'
<1> USE DEF IInv, Progress
<1>0. /\ Len(lock) \in Nat /\ Len(lock) > 0 /\ Holder.cur \in Nat /\ Holder.cur > 0
      /\ lock' = lock /\ Holder' = Holder /\ stage = "provider" /\ stage' = "transport"
  BY HolderFacts DEF ProviderDrained, Holder, LockOrder
<1>1. gateGen < Holder.cur
  BY <1>0 DEF GateProgress, Holder
<1>2. /\ gateGen' = Holder.cur
      /\ carried' = IF Holder.reason = "barge_in" THEN gateGen ELSE None
      /\ failed' = Recorded("provider", ok)
  BY <1>0, <1>1 DEF ProviderDrained, CarriedAfter, TypeOK
<1>3. TypeOK' /\ NeverBackwards'
  BY <1>0, <1>2 DEF ProviderDrained, TypeOK, NeverBackwards, Recorded, AsyncStages, SyncStages
<1>4. Progress'
  BY <1>0, <1>2 DEF ProviderDrained, LockOrder, StopProgress, SttProgress, GateProgress,
                    Previous, Holder, TypeOK
<1>5. FenceOrder'
  BY <1>0, <1>1, <1>2 DEF ProviderDrained, FenceOrder, SttProgress, TypeOK
<1>6. StampAccepted'
  BY <1>0, <1>1, <1>2 DEF ProviderDrained, StampAccepted, TypeOK
<1>7. Settled' /\ NewestLast' /\ ProposalsFenced'
  BY <1>0 DEF ProviderDrained, Settled, NewestLast, ProposalsFenced, Waiting
<1>8. HistoryBehind' /\ HistoryOrdered'
  <2>1. history' = history /\ gen' = gen
    BY DEF ProviderDrained
  <2> QED BY <1>0, <2>1 DEF HistoryBehind, HistoryOrdered
<1> QED BY <1>3, <1>4, <1>5, <1>6, <1>7, <1>8

\* The head leaves the lock: what was true of all callers is true of the rest.
LEMMA TailFacts ==
  ASSUME NEW S, NEW s \in Seq(S), s # <<>>
  PROVE  /\ Tail(s) \in Seq(S) /\ Len(Tail(s)) = Len(s) - 1
         /\ \A i \in 1..(Len(s) - 1) : Tail(s)[i] = s[i + 1]
OBVIOUS

\* The teardown is over: the transport follows the gate, the event is recorded
\* after all older ones, and the next caller, if any, is newer.
LEMMA FenceTransportPreserves ==
  ASSUME IInv, FenceTransport
  PROVE  IInv'
<1> USE DEF IInv, Progress
<1> DEFINE E == [cur : Nat, failed : SUBSET (AsyncStages \cup SyncStages)]
           e == [cur |-> Holder.cur, failed |-> failed]
<1>0. /\ Len(lock) \in Nat /\ Len(lock) > 0 /\ lock \in Seq(Caller) /\ lock # <<>>
      /\ Holder.cur \in Nat /\ Holder = lock[1]
      /\ stage = "transport" /\ stage' = "wait"
  <2>1. stage = "transport" /\ stage' = "wait"
    BY DEF FenceTransport
  <2>2. lock # <<>> /\ lock \in Seq(Caller)
    BY <2>1 DEF LockOrder, TypeOK
  <2> QED BY <2>1, <2>2, HolderFacts DEF Holder
<1>1. /\ lock' \in Seq(Caller) /\ Len(lock') = Len(lock) - 1
      /\ \A i \in 1..Len(lock') : lock'[i] = lock[i + 1] /\ i + 1 \in 1..Len(lock)
  BY <1>0, TailFacts DEF FenceTransport
<1>2. \A i \in 1..Len(lock') : lock'[i].cur > Holder.cur /\ lock'[i].cur <= gen
  <2> TAKE i \in 1..Len(lock')
  <2>1. lock'[i] = lock[i + 1] /\ i + 1 \in 1..Len(lock) /\ 1 \in 1..Len(lock) /\ 1 < i + 1
    BY <1>0, <1>1
  <2> QED BY <1>0, <2>1 DEF LockOrder
<1>3. /\ sttGen = Holder.cur /\ gateGen = Holder.cur /\ stoppedBefore = Holder.cur
      /\ transportGen' = Holder.cur /\ Previous(Holder) \notin staged
  BY <1>0 DEF SttProgress, GateProgress, StopProgress, FenceTransport
<1>4. /\ UNCHANGED <<gen, stoppedBefore, sttGen, staged, gateGen, carried,
                      closing, aborted, rebuilt>>
      /\ failed' = {} /\ history' = Remember(history, e)
  BY DEF FenceTransport
<1>5. /\ history \in Seq(E) /\ e \in E /\ Len(history) \in Nat
      /\ Len(history) <= HistoryLimit
  BY <1>0 DEF TypeOK, HistoryOrdered
<1>6. /\ history' \in Seq(E) /\ Len(history') <= HistoryLimit
      /\ Len(history') \in 1..(Len(history) + 1)
      /\ \A i \in 1..Len(history') :
           history'[i] = IF i = Len(history') THEN e
                         ELSE history[i + Len(history) + 1 - Len(history')]
  <2>1. HistoryLimit \in Nat \ {0}
    BY BoundsAssumption
  <2> HIDE DEF E, e, IInv, Progress
  <2>2. IsSuffix(E, history, e, Remember(history, e))
    BY <1>5, <2>1, RememberFacts, Zenon
  <2>3. IsSuffix(E, history, e, history')
    BY <1>4, <2>2
  <2> QED BY <2>3 DEF IsSuffix
<1>7. TypeOK'
  BY <1>1, <1>3, <1>4, <1>6, <1>0 DEF TypeOK
<1>8. Progress'
  <2>1. \A i, j \in 1..Len(lock') : i < j => lock'[i].cur < lock'[j].cur
    <3> TAKE i, j \in 1..Len(lock')
    <3>1. lock'[i] = lock[i + 1] /\ lock'[j] = lock[j + 1]
          /\ i + 1 \in 1..Len(lock) /\ j + 1 \in 1..Len(lock)
      BY <1>1
    <3>2. i < j => i + 1 < j + 1
      OBVIOUS
    <3> QED BY <3>1, <3>2 DEF LockOrder
  <2>2. \A i \in 1..Len(lock') : lock'[i].cur > 0
    BY <1>1 DEF LockOrder
  <2>3. LockOrder'
    BY <1>0, <1>2, <1>4, <2>1, <2>2 DEF LockOrder
  <2>4. StopProgress' /\ SttProgress' /\ GateProgress'
    BY <1>0, <1>2, <1>3, <1>4 DEF StopProgress, SttProgress, GateProgress
  <2> QED BY <2>3, <2>4
<1>9. FenceOrder' /\ StampAccepted'
  BY <1>0, <1>3, <1>4 DEF FenceOrder, StampAccepted, TypeOK
<1>10. lock' # <<>> => lock'[Len(lock')] = lock[Len(lock)]
  <2> SUFFICES ASSUME lock' # <<>>
               PROVE  lock'[Len(lock')] = lock[Len(lock)]
    OBVIOUS
  <2>1. Len(lock') \in 1..Len(lock') /\ Len(lock') + 1 = Len(lock)
    BY <1>0, <1>1
  <2> QED BY <1>1, <2>1
<1>11. NewestLast'
  BY <1>0, <1>4, <1>10 DEF NewestLast
<1>12. Settled'
  <2> SUFFICES ASSUME lock' = <<>>, gen \notin aborted
               PROVE  Holder.cur = gen
    BY <1>3, <1>4 DEF Settled
  <2>1. Len(lock) = 1
    BY <1>0, <1>1
  <2> QED BY <1>0, <2>1 DEF NewestLast
<1>13. ProposalsFenced'
  <2>1. ASSUME NEW n \in Waiting, n # Holder.cur
        PROVE  n \in Waiting'
    <3>1. PICK i \in 1..Len(lock) : n = lock[i].cur
      BY DEF Waiting
    <3>2. i # 1
      BY <1>0, <2>1, <3>1
    <3>3. i - 1 \in 1..Len(lock') /\ lock'[i - 1] = lock[(i - 1) + 1] /\ (i - 1) + 1 = i
      BY <1>0, <1>1, <3>2
    <3> QED BY <3>1, <3>3 DEF Waiting
  <2>2. ASSUME NEW g \in staged, g + 1 = Holder.cur
        PROVE  FALSE
    <3>0. g \in Nat
      BY <2>2 DEF TypeOK
    <3> HIDE DEF IInv, Progress
    <3>1. g = Holder.cur - 1
      BY <1>0, <2>2, <3>0
    <3> QED BY <1>3, <3>1 DEF Previous
  <2> QED BY <1>4, <2>1, <2>2 DEF ProposalsFenced
<1>14. NeverBackwards'
  <2>1. failed \cap SyncStages = {} /\ e.failed = failed
    BY DEF NeverBackwards
  <2>2. \A i \in 1..Len(history') :
          i # Len(history') => i + Len(history) + 1 - Len(history') \in 1..Len(history)
    BY <1>5, <1>6
  <2> HIDE DEF e
  <2> QED BY <1>4, <1>6, <2>1, <2>2 DEF NeverBackwards
<1>15. \A i \in 1..Len(history') : history'[i].cur <= Holder.cur
  <2>1. \A i \in 1..Len(history) : history[i].cur < Holder.cur
    BY <1>0 DEF HistoryBehind
  <2>2. \A i \in 1..Len(history') :
          i # Len(history') => i + Len(history) + 1 - Len(history') \in 1..Len(history)
    BY <1>5, <1>6
  <2>3. \A i \in 1..Len(history) : history[i].cur \in Nat
    <3>1. \A i \in 1..Len(history) : history[i] \in E
      <4> HIDE DEF E
      <4> QED BY <1>5, ElementOf
    <3> QED BY <3>1
  <2>4. e.cur = Holder.cur
    OBVIOUS
  <2> HIDE DEF e, E
  <2> TAKE i \in 1..Len(history')
  <2>5. CASE i = Len(history')
    <3>1. history'[i] = e
      BY <1>6, <2>5
    <3> QED BY <1>0, <2>4, <3>1
  <2>6. CASE i # Len(history')
    <3> DEFINE k == i + Len(history) + 1 - Len(history')
    <3>1. history'[i] = history[k] /\ k \in 1..Len(history)
      BY <1>6, <2>2, <2>6
    <3> HIDE DEF k
    <3>2. history[k].cur < Holder.cur /\ history[k].cur \in Nat
      BY <2>1, <2>3, <3>1
    <3> QED BY <1>0, <3>1, <3>2
  <2> QED BY <2>5, <2>6
<1>16. \A i \in 1..Len(history') : history'[i].cur \in Nat
  <2>1. \A i \in 1..Len(history') : history'[i] \in E
    <3> HIDE DEF E
    <3> QED BY <1>6, ElementOf
  <2> QED BY <2>1
<1>17. HistoryBehind'
  <2>1. Holder.cur <= gen /\ gen \in Nat
    BY <1>0 DEF LockOrder, TypeOK
  <2>2. \A i \in 1..Len(lock') : lock'[i].cur \in Nat
    <3>1. \A i \in 1..Len(lock') : lock'[i] \in Caller
      BY <1>1
    <3> QED BY <3>1 DEF Caller
  <2> QED BY <1>0, <1>2, <1>4, <1>15, <1>16, <2>1, <2>2 DEF HistoryBehind
<1>18. HistoryOrdered'
  <2> SUFFICES ASSUME NEW i \in 1..Len(history'), NEW j \in 1..Len(history'), i < j
               PROVE  history'[i].cur < history'[j].cur
    BY <1>6 DEF HistoryOrdered
  <2> DEFINE at(k) == k + Len(history) + 1 - Len(history')
  <2>1. i # Len(history') /\ at(i) \in 1..Len(history) /\ history'[i] = history[at(i)]
    <3> HIDE DEF E, e, IInv, Progress
    <3>1. Len(history) \in Nat /\ Len(history') \in 1..(Len(history) + 1)
      BY <1>5, <1>6
    <3>2. i \in Nat /\ j \in Nat /\ 1 <= i /\ i < j /\ j <= Len(history')
      BY <3>1
    <3>3. i # Len(history') /\ at(i) \in 1..Len(history)
      BY <3>1, <3>2
    <3>4. history'[i] = history[at(i)]
      BY <1>6, <3>3
    <3> QED BY <3>3, <3>4
  <2>2. CASE j = Len(history')
    <3>1. history'[j].cur = Holder.cur
      BY <1>6, <2>2
    <3>2. /\ HistoryBehind /\ 1 \in 1..Len(lock) /\ Holder = lock[1]
          /\ at(i) \in 1..Len(history) /\ history'[i] = history[at(i)]
      BY <1>0, <2>1
    <3> HIDE DEF E, e, IInv, Progress, at
    <3>3. history[at(i)].cur < Holder.cur
      BY <3>2 DEF HistoryBehind
    <3> QED BY <3>1, <3>2, <3>3
  <2>3. CASE j # Len(history')
    <3>0. Len(history) \in Nat /\ Len(history') \in 1..(Len(history) + 1)
          /\ i \in Nat /\ j \in 1..Len(history') /\ j # Len(history')
      BY <1>5, <1>6, <2>3
    <3>1. at(j) \in 1..Len(history) /\ at(i) < at(j)
      BY <3>0, i < j
    <3>2. history'[j] = history[at(j)]
      BY <1>6, <2>3
    <3> HIDE DEF at
    <3> QED BY <2>1, <3>1, <3>2 DEF HistoryOrdered
  <2> QED BY <2>2, <2>3
<1> QED BY <1>7, <1>8, <1>9, <1>11, <1>12, <1>13, <1>14, <1>17, <1>18

\* A turn stages a proposal of the current generation only.
LEMMA ProposePreserves ==
  ASSUME IInv, Propose
  PROVE  IInv'
<1> USE DEF IInv, Progress
<1>1. /\ staged' = staged \cup {gen} /\ stage # "transport"
      /\ UNCHANGED <<gen, lock, stage, failed, stoppedBefore, sttGen, gateGen, carried,
                     transportGen, history, closing, aborted, rebuilt>>
  BY DEF Propose, LoopRuns
<1>2. TypeOK'
  BY <1>1 DEF TypeOK
<1>3. Progress'
  BY <1>1 DEF LockOrder, StopProgress, SttProgress, GateProgress, Holder
<1>4. ProposalsFenced'
  BY <1>1 DEF ProposalsFenced, Waiting
<1>5. FenceOrder' /\ StampAccepted' /\ Settled' /\ NewestLast'
  BY <1>1 DEF FenceOrder, StampAccepted, Settled, NewestLast, Holder
<1>6. HistoryBehind' /\ HistoryOrdered' /\ NeverBackwards'
  BY <1>1 DEF HistoryBehind, HistoryOrdered, NeverBackwards
<1> QED BY <1>2, <1>3, <1>4, <1>5, <1>6

\* Steps outside cancel() that touch only the gate's carried generation, the
\* transport's generation and the closing flag.
LEMMA OutsideStepsPreserve ==
  ASSUME IInv, GateCaughtUp \/ RebuildWithoutCancel \/ BeginClose
  PROVE  IInv'
<1> USE DEF IInv, Progress
<1>1. /\ stage # "transport"
      /\ UNCHANGED <<gen, lock, stage, failed, stoppedBefore, sttGen, staged, gateGen,
                     history, aborted>>
  BY DEF GateCaughtUp, RebuildWithoutCancel, BeginClose, LoopRuns, fences
<1>2. TypeOK'
  BY <1>1 DEF TypeOK, GateCaughtUp, RebuildWithoutCancel, BeginClose, fences
<1>3. Progress'
  BY <1>1 DEF LockOrder, StopProgress, SttProgress, GateProgress, Holder
<1>4. ProposalsFenced' /\ NewestLast'
  BY <1>1 DEF ProposalsFenced, Waiting, NewestLast
<1>5. HistoryBehind' /\ HistoryOrdered' /\ NeverBackwards'
  BY <1>1 DEF HistoryBehind, HistoryOrdered, NeverBackwards
<1>6. FenceOrder' /\ StampAccepted' /\ Settled'
  <2>1. CASE UNCHANGED <<transportGen, rebuilt>>
    BY <1>1, <2>1 DEF FenceOrder, StampAccepted, Settled
  <2>2. CASE RebuildWithoutCancel
    <3>1. transportGen' = gen /\ rebuilt' = gen /\ gateGen <= gen /\ gen \in Nat /\ gateGen \in Nat
      BY <2>2 DEF RebuildWithoutCancel, FenceOrder, TypeOK
    <3> QED BY <1>1, <3>1 DEF FenceOrder, StampAccepted, Settled
  <2> QED BY <2>1, <2>2 DEF GateCaughtUp, BeginClose, fences
<1> QED BY <1>2, <1>3, <1>4, <1>5, <1>6

\* A caller that dies of CancelledError leaves every fence where it was.
LEMMA AbortPreserves ==
  ASSUME IInv, NEW k \in 1..Len(lock), Abort(k)
  PROVE  IInv'
<1> USE DEF IInv, Progress
<1>0. /\ stage # "transport" /\ lock \in Seq(Caller) /\ Len(lock) \in Nat /\ Len(lock) > 0
      /\ lock[k] \in Caller /\ lock[k].cur \in Nat /\ aborted' = aborted \cup {lock[k].cur}
      /\ UNCHANGED <<gen, stoppedBefore, sttGen, staged, gateGen, carried, transportGen,
                     history, closing, rebuilt>>
  <2>1. lock \in Seq(Caller) /\ Len(lock) \in Nat /\ Len(lock) > 0
    BY DEF TypeOK
  <2>2. lock[k] \in Caller
    BY <2>1
  <2>3. lock[k].cur \in Nat
    BY <2>2 DEF Caller
  <2> QED BY <2>1, <2>2, <2>3 DEF Abort, LoopRuns, fences
<1>1. /\ lock' \in Seq(Caller) /\ Len(lock') = Len(lock) - 1
      /\ \A i \in 1..Len(lock') : lock'[i] = IF i < k THEN lock[i] ELSE lock[i + 1]
  <2>1. lock' = Without(lock, k)
    BY DEF Abort
  <2> HIDE DEF IInv, Progress
  <2>2. /\ Without(lock, k) \in Seq(Caller)
        /\ Len(Without(lock, k)) = Len(lock) - 1
        /\ \A i \in 1..(Len(lock) - 1) :
             Without(lock, k)[i] = IF i < k THEN lock[i] ELSE lock[i + 1]
    BY <1>0, WithoutFacts, Zenon
  <2> QED BY <2>1, <2>2
<1>2. k = 1 => stage' = "wait" /\ failed' = {}
  BY DEF Abort
<1>3. k # 1 => stage' = stage /\ failed' = failed /\ Len(lock') > 0 /\ lock'[1] = lock[1]
  BY <1>0, <1>1 DEF Abort
<1>4. TypeOK'
  BY <1>0, <1>1, <1>2, <1>3 DEF TypeOK
<1>5. ASSUME NEW i \in 1..Len(lock')
      PROVE  \E j \in 1..Len(lock) : lock'[i] = lock[j] /\ j >= i /\ (k = 1 => j > 1)
  <2>1. CASE i < k
    BY <1>0, <1>1, <2>1
  <2>2. CASE ~(i < k)
    BY <1>0, <1>1, <2>2
  <2> QED BY <2>1, <2>2
<1>6. LockOrder'
  <2>1. \A i \in 1..Len(lock') : lock'[i].cur > 0 /\ lock'[i].cur <= gen
    BY <1>5 DEF LockOrder
  <2>2. ASSUME NEW i \in 1..Len(lock'), NEW j \in 1..Len(lock'), i < j
        PROVE  lock'[i].cur < lock'[j].cur
    <3> DEFINE o(n) == IF n < k THEN n ELSE n + 1
    <3>1. lock'[i] = lock[o(i)] /\ lock'[j] = lock[o(j)]
      BY <1>1
    <3>2. o(i) \in 1..Len(lock) /\ o(j) \in 1..Len(lock) /\ o(i) < o(j)
      BY <1>0, <1>1, <2>2
    <3> HIDE DEF o
    <3> QED BY <3>1, <3>2 DEF LockOrder
  <2>3. lock' = <<>> => stage' = "wait"
    BY <1>2, <1>3
  <2> QED BY <1>0, <2>1, <2>2, <2>3 DEF LockOrder
<1>7. StopProgress' /\ SttProgress' /\ GateProgress'
  <2>1. CASE k = 1
    <3>1. \A i \in 1..Len(lock') : \E j \in 1..Len(lock) : lock'[i] = lock[j] /\ lock[1].cur < lock[j].cur
      <4> TAKE i \in 1..Len(lock')
      <4>1. PICK j \in 1..Len(lock) : lock'[i] = lock[j] /\ j > 1
        BY <1>5, <2>1
      <4> QED BY <1>0, <4>1 DEF LockOrder
    <3>2. stage' = "wait" /\ lock[1].cur \in Nat /\ stoppedBefore \in Nat
          /\ sttGen \in Nat /\ gateGen \in Nat
      BY <1>0, <1>2, <2>1 DEF TypeOK
    <3>3. /\ \A i \in 1..Len(lock') : lock'[i].cur \in Nat
      <4>1. \A i \in 1..Len(lock') : lock'[i] \in Caller
        BY <1>1
      <4> QED BY <4>1 DEF Caller
    <3>4. stoppedBefore <= lock[1].cur /\ sttGen <= lock[1].cur /\ gateGen <= lock[1].cur
      <4>1. 1 \in 1..Len(lock)
        BY <1>0
      <4>2. stoppedBefore <= lock[1].cur
        BY <3>2, <4>1 DEF StopProgress, Holder
      <4> QED BY <3>2, <4>2 DEF FenceOrder
    <3>5. \A i \in 1..Len(lock') : lock[1].cur < lock'[i].cur
      BY <3>1
    <3> HIDE DEF IInv, Progress
    <3>6. \A i \in 1..Len(lock') :
            stoppedBefore < lock'[i].cur /\ sttGen < lock'[i].cur /\ gateGen < lock'[i].cur
      BY <3>2, <3>3, <3>4, <3>5
    <3> QED BY <1>0, <3>2, <3>6 DEF StopProgress, SttProgress, GateProgress
  <2>2. CASE k # 1
    <3>1. stage' = stage /\ Holder' = Holder
      BY <1>3, <2>2 DEF Holder
    <3>2. \A i \in 1..Len(lock') : \E j \in 1..Len(lock) : lock'[i] = lock[j]
      BY <1>5
    <3> QED BY <1>0, <3>1, <3>2 DEF StopProgress, SttProgress, GateProgress
  <2> QED BY <2>1, <2>2
<1>8. FenceOrder' /\ HistoryOrdered'
  BY <1>0 DEF FenceOrder, HistoryOrdered
<1>9. StampAccepted'
  BY <1>0 DEF StampAccepted
<1>10. NeverBackwards'
  BY <1>0, <1>2, <1>3 DEF NeverBackwards
<1>11. HistoryBehind'
  BY <1>0, <1>5 DEF HistoryBehind
<1>12. gen \notin aborted' => k # Len(lock) /\ lock' # <<>> /\ lock'[Len(lock')] = lock[Len(lock)]
  <2> SUFFICES ASSUME gen \notin aborted'
               PROVE  k # Len(lock) /\ lock' # <<>> /\ lock'[Len(lock')] = lock[Len(lock)]
    OBVIOUS
  <2>1. gen \notin aborted /\ lock[k].cur # gen
    BY <1>0
  <2>2. lock[Len(lock)].cur = gen
    BY <1>0, <2>1 DEF NewestLast
  <2>3. k # Len(lock)
    BY <2>1, <2>2
  <2>4. Len(lock') \in 1..Len(lock') /\ ~(Len(lock') < k) /\ Len(lock') + 1 = Len(lock)
    BY <1>0, <1>1, <2>3
  <2> QED BY <1>1, <2>3, <2>4
<1>13. NewestLast' /\ Settled'
  BY <1>0, <1>12 DEF NewestLast, Settled
<1>14. ProposalsFenced'
  <2>1. ASSUME NEW n \in Waiting
        PROVE  n \in Waiting' \cup aborted'
    <3>1. PICK i \in 1..Len(lock) : n = lock[i].cur
      BY DEF Waiting
    <3>2. CASE i = k
      BY <1>0, <3>1, <3>2
    <3>3. CASE i < k
      <4>1. i \in 1..Len(lock') /\ lock'[i] = lock[i]
        BY <1>0, <1>1, <3>3
      <4> QED BY <3>1, <4>1 DEF Waiting
    <3>4. CASE i > k
      <4>1. i - 1 \in 1..Len(lock') /\ lock'[i - 1] = lock[(i - 1) + 1] /\ (i - 1) + 1 = i
        BY <1>0, <1>1, <3>4
      <4> QED BY <3>1, <4>1 DEF Waiting
    <3> QED BY <3>2, <3>3, <3>4
  <2> QED BY <1>0, <2>1 DEF ProposalsFenced
<1> QED BY <1>4, <1>6, <1>7, <1>8, <1>9, <1>10, <1>11, <1>13, <1>14
-----------------------------------------------------------------------------
\* Every step of the coordinator and of its environment keeps the invariant.
LEMMA StepPreserves == IInv /\ [Next]_vars => IInv'
<1> SUFFICES ASSUME IInv, [Next]_vars
             PROVE  IInv'
  OBVIOUS
<1>1. CASE \E reason \in Reasons : Cancel(reason)
  BY <1>1, CancelPreserves
<1>2. CASE TeardownStep
  BY <1>2, AcquirePreserves, PlaybackStoppedPreserves, TtsCancelledPreserves,
     ProviderDrainedPreserves, FenceTransportPreserves DEF TeardownStep
<1>3. CASE Propose
  BY <1>3, ProposePreserves
<1>4. CASE GateCaughtUp \/ RebuildWithoutCancel \/ BeginClose
  BY <1>4, OutsideStepsPreserve
<1>5. CASE \E k \in 1..Len(lock) : Abort(k)
  BY <1>5, AbortPreserves
<1>6. CASE UNCHANGED vars
  BY <1>6 DEF vars, IInv, Progress, TypeOK, LockOrder, StopProgress, SttProgress,
     GateProgress, NewestLast, HistoryBehind, NeverBackwards, FenceOrder, StampAccepted,
     Settled, ProposalsFenced, HistoryOrdered, Waiting, Holder, Previous
<1> QED BY <1>1, <1>2, <1>3, <1>4, <1>5, <1>6 DEF Next

\* The inductive invariant holds in every reachable state.
THEOREM Invariance == Spec => []IInv
BY InitEstablishes, StepPreserves, PTL DEF Spec

\* The state keeps its types.
THEOREM TypeCorrect == Spec => []TypeOK
BY Invariance, PTL DEF IInv

\* Overlapping cancellations never ask STT or the turn gate to move backwards,
\* so their fences cannot fail.
THEOREM FencesNeverRefuse == Spec => []NeverBackwards
BY Invariance, PTL DEF IInv

\* The fences stay in the order cancel() documents: audible output, STT, gate.
THEOREM TeardownOrder == Spec => []FenceOrder
BY Invariance, PTL DEF IInv

\* The gate adopts a generation before the transport stamps it, and a barge-in
\* keeps accepting the stamp in between.
THEOREM SpeechSurvivesBargeIn == Spec => []StampAccepted
BY Invariance, PTL DEF IInv

\* When the last cancellation has finished, every collaborator agrees with the
\* counter, whatever failed on the way.
THEOREM TeardownComplete == Spec => []Settled
BY Invariance, PTL DEF IInv

\* No proposal outlives the teardown of its generation.
THEOREM ProposalsDie == Spec => []ProposalsFenced
BY Invariance, PTL DEF IInv

\* The history lists cancellations in the order they advanced the counter.
THEOREM EventsOrdered == Spec => []HistoryOrdered
BY Invariance, PTL DEF IInv
-----------------------------------------------------------------------------
\* The coordinator keeps the promise of the generation fence: its counter only
\* advances, and the turn gate only ever catches up with it.
THEOREM ImplementsFence == Spec => FenceSpec
<1>1. Init => Fence!Init
  BY DEF Init, Fence!Init
<1>2. IInv /\ [Next]_vars => [Fence!Next]_Fence!fenceVars
  <2> SUFFICES ASSUME IInv, [Next]_vars
               PROVE  [Fence!Next]_Fence!fenceVars
    OBVIOUS
  <2> USE DEF Fence!Next, Fence!Advance, Fence!Adopt, Fence!fenceVars
  <2>1. CASE \E reason \in Reasons : Cancel(reason)
    BY <2>1 DEF Cancel
  <2>2. ASSUME NEW ok \in BOOLEAN, ProviderDrained(ok)
        PROVE  Fence!Adopt
    <3>1. stage = "provider" /\ TypeOK /\ LockOrder /\ GateProgress
      BY <2>2 DEF ProviderDrained, IInv, Progress
    <3>2. Holder.cur \in Nat /\ Holder.cur <= gen /\ gateGen < Holder.cur
      BY <3>1, HolderFacts DEF LockOrder, GateProgress, Holder
    <3>3. gateGen' = Holder.cur /\ gen' = gen /\ gateGen \in Nat /\ gen \in Nat
      BY <2>2, <3>1, <3>2 DEF ProviderDrained, TypeOK
    <3> QED BY <3>2, <3>3
  <2>3. CASE TeardownStep
    BY <2>2, <2>3 DEF TeardownStep, AcquireLock, PlaybackStopped, TtsCancelled,
                      FenceTransport, fences
  <2>4. CASE Propose \/ GateCaughtUp \/ RebuildWithoutCancel \/ BeginClose
             \/ (\E k \in 1..Len(lock) : Abort(k)) \/ UNCHANGED vars
    BY <2>4 DEF Propose, GateCaughtUp, RebuildWithoutCancel, BeginClose, Abort, fences, vars
  <2> QED BY <2>1, <2>3, <2>4 DEF Next
<1> QED BY <1>1, <1>2, Invariance, PTL DEF Spec, FenceSpec, Fence!Spec
=============================================================================
