---------------------------- MODULE PlaybackSink ----------------------------
(***************************************************************************)
(* pipeline/playback.py: the bounded PCM queue between TTS and the output  *)
(* device.  One writer task plays it, the coordinator stops generations,   *)
(* and turns wait in drain() until everything they queued was played.  A   *)
(* chunk is represented by its generation; its samples do not matter here. *)
(***************************************************************************)
EXTENDS Integers, Sequences, FiniteSets

CONSTANTS
  LastGen,      \* bound on the generation counter
  Capacity,    \* DEFAULT_CAPACITY: bound of the chunk queue, 512 in the code
  MaxChunks,   \* bound on the chunks accepted per generation
  MaxTracked,  \* _MAX_TRACKED_GENERATIONS: failed generations remembered, 128
  Drainers     \* concurrent callers of drain()

ASSUME BoundsAssumption ==
  /\ LastGen \in Nat
  /\ Capacity \in Nat \ {0}
  /\ MaxChunks \in Nat
  /\ MaxTracked \in Nat \ {0}

VARIABLES
  cur,         \* the coordinator's generation, the only one chunks are made for
  queue,       \* _queue: the generation of each queued chunk
  stoppedBefore, \* _stopped_before
  pending,     \* _pending: accepted chunks of a generation not yet released
  failedGens,  \* _failed_generations
  everOverflowed,  \* _overflowed: sticky, never cleared
  writer,      \* the writer task: "none", "get" or the generation it is writing
  phase,       \* close(): "open", "cancelling" the writer, "joined", "closed"
  drain,       \* each drain() caller: idle, waiting, woken or its result
  accepted,    \* history variable: chunks submit() said True to
  played       \* history variable: chunks the device took without error

vars == <<cur, queue, stoppedBefore, pending, failedGens, everOverflowed, writer,
          phase, drain, accepted, played>>

Gens == 0..LastGen
NoWriter == -2
Getting  == -1

Idle == [at |-> "idle", gen |-> 0, ok |-> FALSE, owed |-> 0]

closed == phase # "open"
IsStopped(g, before) == g < before

Init ==
  /\ cur = 0
  /\ queue = <<>>
  /\ stoppedBefore = 0
  /\ pending = [g \in Gens |-> 0]
  /\ failedGens = {}
  /\ everOverflowed = FALSE
  /\ writer = NoWriter
  /\ phase = "open"
  /\ drain = [d \in Drainers |-> Idle]
  /\ accepted = [g \in Gens |-> 0]
  /\ played = [g \in Gens |-> 0]
-----------------------------------------------------------------------------
\* _wake: the idle event of each generation in woken is set and forgotten, so
\* every drain() caller waiting on it becomes runnable.
Wake(woken) ==
  drain' = [d \in Drainers |->
    IF drain[d].at = "waiting" /\ drain[d].gen \in woken
    THEN [drain[d] EXCEPT !.at = "woken"] ELSE drain[d]]

\* Mutant: the last chunk is released without waking the drain() callers.
ReleaseSilently(g) ==
  /\ pending' = [pending EXCEPT ![g] = IF @ > 1 THEN @ - 1 ELSE 0]
  /\ UNCHANGED drain

\* _release: one chunk of g is done with; the last one wakes drain().
Release(g) ==
  IF pending[g] > 1
  THEN /\ pending' = [pending EXCEPT ![g] = @ - 1]
       /\ UNCHANGED drain
  ELSE /\ pending' = [pending EXCEPT ![g] = 0]
       /\ Wake({g})

\* start(), called directly or by the first submit().
Start ==
  /\ ~closed
  /\ writer = NoWriter
  /\ writer' = Getting
  /\ UNCHANGED <<cur, queue, stoppedBefore, pending, failedGens, everOverflowed,
                 phase, drain, accepted, played>>

\* submit() that queues the chunk or finds the queue full; a sink that is closed,
\* or a generation stopped or failed, refuses it and nothing changes.  The caller
\* checked is_current in the same step, so the chunk is of that generation.
Submit ==
  /\ accepted[cur] < MaxChunks
  /\ ~closed /\ ~IsStopped(cur, stoppedBefore) /\ cur \notin failedGens
  /\ writer' = IF writer = NoWriter THEN Getting ELSE writer
  /\ IF Len(queue) = Capacity
     THEN /\ everOverflowed' = TRUE
          /\ UNCHANGED <<queue, pending, accepted>>
     ELSE /\ queue' = Append(queue, cur)
          /\ pending' = [pending EXCEPT ![cur] = @ + 1]
          /\ accepted' = [accepted EXCEPT ![cur] = @ + 1]
          /\ UNCHANGED everOverflowed
  /\ UNCHANGED <<cur, stoppedBefore, failedGens, phase, drain, played>>

\* The coordinator's counter moves first; its teardown stops playback later.
\* Each cancel() still to do so is a suspended caller, and the engine has far
\* fewer of those than _MAX_TRACKED_GENERATIONS: that bounds the lag.
Advance ==
  /\ cur < LastGen
  /\ (cur + 1) - stoppedBefore < MaxTracked
  /\ cur' = cur + 1
  /\ UNCHANGED <<queue, stoppedBefore, pending, failedGens, everOverflowed, writer,
                 phase, drain, accepted, played>>

\* Mutant: stopping one generation purges only that generation's chunks.
PurgedOnly(g) == SelectSeq(queue, LAMBDA c : c # g)

\* stop_generation drains the queue in order; put back of its first i chunks are
\* the ones not stopped.
PutBack(g) ==
  LET kept[i \in 0..Len(queue)] ==
        IF i = 0 THEN <<>>
        ELSE IF IsStopped(queue[i], g + 1) THEN kept[i - 1]
        ELSE Append(kept[i - 1], queue[i])
  IN  kept

\* The chunks stop_generation puts back.
Purged(g) == PutBack(g)[Len(queue)]

\* Mutant: the chunks are purged but their drain() callers are not woken.
StopGenerationSilently(g) ==
  /\ g < cur
  /\ stoppedBefore' = IF stoppedBefore > g + 1 THEN stoppedBefore ELSE g + 1
  /\ queue' = Purged(g)
  /\ pending' = [h \in Gens |-> IF IsStopped(h, stoppedBefore') THEN 0 ELSE pending[h]]
  /\ UNCHANGED <<cur, failedGens, everOverflowed, writer, phase, drain, accepted, played>>

\* stop_generation(g) up to its await of device.flush(): raise the mark, purge,
\* forget the counters of every stopped generation and wake whoever waits.
StopGeneration(g) ==
  LET before == IF stoppedBefore > g + 1 THEN stoppedBefore ELSE g + 1 IN
  /\ g < cur
  /\ stoppedBefore' = before
  /\ queue' = Purged(g)
  /\ pending' = [h \in Gens |-> IF IsStopped(h, before) THEN 0 ELSE pending[h]]
  /\ Wake({h \in Gens : IsStopped(h, before) /\ pending[h] > 0})
  /\ UNCHANGED <<cur, failedGens, everOverflowed, writer, phase, accepted, played>>
-----------------------------------------------------------------------------
Return(d, g, ok) ==
  drain' = [drain EXCEPT ![d] = [at |-> "done", gen |-> g, ok |-> ok,
                                 owed |-> accepted[g] - played[g]]]

\* The loop of drain(): wait while chunks are pending, then report failures.
DrainLoop(d, g) ==
  IF pending[g] > 0
  THEN drain' = [drain EXCEPT ![d] = [at |-> "waiting", gen |-> g, ok |-> FALSE, owed |-> 0]]
  ELSE Return(d, g, g \notin failedGens)

\* drain(g) up to its first suspension.
DrainCall(d, g) ==
  /\ drain[d].at = "idle"
  /\ g <= cur
  /\ IF IsStopped(g, stoppedBefore) \/ closed \/ g \in failedGens
     THEN Return(d, g, FALSE)
     ELSE DrainLoop(d, g)
  /\ UNCHANGED <<cur, queue, stoppedBefore, pending, failedGens, everOverflowed,
                 writer, phase, accepted, played>>

\* drain() resumes after its event was set.
DrainWake(d) ==
  LET g == drain[d].gen IN
  /\ drain[d].at = "woken"
  /\ IF IsStopped(g, stoppedBefore) \/ closed
     THEN Return(d, g, FALSE)
     ELSE DrainLoop(d, g)
  /\ UNCHANGED <<cur, queue, stoppedBefore, pending, failedGens, everOverflowed,
                 writer, phase, accepted, played>>
-----------------------------------------------------------------------------
\* The writer takes a chunk and starts device.write, or drops a stopped one.
WriterGet ==
  /\ writer = Getting /\ phase = "open"
  /\ queue # <<>>
  /\ queue' = Tail(queue)
  /\ IF IsStopped(Head(queue), stoppedBefore)
     THEN /\ Release(Head(queue))
          /\ UNCHANGED writer
     ELSE /\ writer' = Head(queue)
          /\ UNCHANGED <<pending, drain>>
  /\ UNCHANGED <<cur, stoppedBefore, failedGens, everOverflowed, phase, accepted,
                 played>>

\* device.write returned.
WriteDone ==
  /\ writer \in Gens /\ phase = "open"
  /\ played' = [played EXCEPT ![writer] = @ + 1]
  /\ Release(writer)
  /\ writer' = Getting
  /\ UNCHANGED <<cur, queue, stoppedBefore, failedGens, everOverflowed, phase,
                 accepted>>

Oldest(S) == CHOOSE g \in S : \A h \in S : g <= h

\* Mutant: a failed write is counted but the generation is not marked.
RememberNothing(g) == failedGens

\* A failed generation is remembered, the oldest forgotten past the limit.
RememberFailure(g) ==
  LET all == failedGens \cup {g}
  IN  IF Cardinality(all) > MaxTracked THEN all \ {Oldest(all)} ELSE all

\* device.write raised.
WriteFailed ==
  /\ writer \in Gens /\ phase = "open"
  /\ failedGens' = RememberFailure(writer)
  /\ Release(writer)
  /\ writer' = Getting
  /\ UNCHANGED <<cur, queue, stoppedBefore, everOverflowed, phase, accepted, played>>
-----------------------------------------------------------------------------
\* close() up to `await writer`; without a writer it runs to its end.
Close ==
  /\ phase = "open"
  /\ phase' = IF writer = NoWriter THEN "closed" ELSE "cancelling"
  /\ IF writer = NoWriter
     THEN /\ pending' = [g \in Gens |-> 0]
          /\ Wake({g \in Gens : pending[g] > 0})
     ELSE UNCHANGED <<pending, drain>>
  /\ UNCHANGED <<cur, queue, stoppedBefore, failedGens, everOverflowed, writer,
                 accepted, played>>

\* CancelledError reaches the writer at its await.
WriterCancelled ==
  /\ phase = "cancelling"
  /\ phase' = "joined"
  /\ writer' = NoWriter
  /\ IF writer \in Gens THEN Release(writer) ELSE UNCHANGED <<pending, drain>>
  /\ UNCHANGED <<cur, queue, stoppedBefore, failedGens, everOverflowed, accepted,
                 played>>

\* close() resumes: every remaining counter is dropped and its waiters woken.
CloseFinish ==
  /\ phase = "joined"
  /\ phase' = "closed"
  /\ pending' = [g \in Gens |-> 0]
  /\ Wake({g \in Gens : pending[g] > 0})
  /\ UNCHANGED <<cur, queue, stoppedBefore, failedGens, everOverflowed, writer,
                 accepted, played>>

WriterStep == WriterGet \/ WriteDone \/ WriteFailed
CloseStep == WriterCancelled \/ CloseFinish

Next ==
  \/ Start \/ Submit \/ Advance
  \/ \E g \in Gens : StopGeneration(g)
  \/ \E d \in Drainers : (\E g \in Gens : DrainCall(d, g)) \/ DrainWake(d)
  \/ WriterStep
  \/ Close \/ CloseStep

Spec == Init /\ [][Next]_vars

\* The event loop keeps running the writer, the closer and every woken caller,
\* and device.write returns: the CoreAudio owner writes blocks of fixed length.
FairSpec ==
  /\ Spec
  /\ WF_vars(WriterStep)
  /\ WF_vars(CloseStep)
  /\ \A d \in Drainers : WF_vars(DrainWake(d))
-----------------------------------------------------------------------------
\* The types of the sink's state.
TypeOK ==
  /\ cur \in Gens
  /\ queue \in Seq(Gens)
  /\ stoppedBefore \in Gens
  /\ pending \in [Gens -> Nat]
  /\ failedGens \subseteq Gens
  /\ everOverflowed \in BOOLEAN
  /\ writer \in Gens \cup {NoWriter, Getting}
  /\ phase \in {"open", "cancelling", "joined", "closed"}
  /\ drain \in [Drainers -> [at : {"idle", "waiting", "woken", "done"}, gen : Gens,
                             ok : BOOLEAN, owed : Int]]
  /\ accepted \in [Gens -> Nat]
  /\ played \in [Gens -> Nat]

\* A drain() that returned True returned only after the device took every chunk
\* accepted so far, so the session stores a sentence only after it was played.
DrainMeansPlayed ==
  \A d \in Drainers : drain[d].at = "done" /\ drain[d].ok => drain[d].owed = 0

\* No wakeup is lost: whoever waits in drain() waits for a chunk that is still
\* pending, whose release, purge or close will wake it.
NoLostWakeup ==
  \A d \in Drainers : drain[d].at = "waiting" => pending[drain[d].gen] > 0

\* Stopping a generation leaves nothing of it, nor of any older one, to play:
\* at most the chunk already handed to the device.
PurgeComplete ==
  /\ \A i \in 1..Len(queue) : ~IsStopped(queue[i], stoppedBefore)
  /\ Len(queue) <= Capacity

\* Every drain() call returns, whatever is stopped, fails or closes meanwhile.
DrainReturns ==
  \A d \in Drainers : drain[d].at = "waiting" ~> drain[d].at = "done"
=============================================================================
