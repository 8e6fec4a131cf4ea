------------------------ MODULE GenerationCoordinator ------------------------
(***************************************************************************)
(* pipeline/coordinator.py: the single entry point that invalidates a      *)
(* generation.  cancel() advances the counter synchronously and then, one  *)
(* caller at a time behind an asyncio.Lock, fences the collaborators in a  *)
(* fixed order.  Everything between two awaits of cancel() is one step of  *)
(* the event loop; the only code that runs between the turn gate's fence   *)
(* and the transport's is the audio callback thread, so those two are      *)
(* separate steps, and no event-loop step fits between them.               *)
(***************************************************************************)
EXTENDS Integers, Sequences, FiniteSets

CONSTANTS
  MaxGen,        \* bound on the generation counter (the code has none)
  HistoryLimit,  \* _HISTORY_LIMIT: CancelEvents kept, 64 in the code
  Reasons        \* the CancelReasons callers use

VARIABLES
  gen,          \* coordinator._generation_id
  lock,         \* callers of cancel() that hold or wait for _lock, holder first
  stage,        \* which await the holder is suspended in
  failed,       \* the holder's failed_stages
  stoppedBefore,\* PlaybackSink._stopped_before
  sttGen,       \* FinalOnlySTTService._generation_id
  staged,       \* generations ProposalHost holds proposals of
  gateGen,      \* VoiceTurnGate._generation_id
  carried,      \* VoiceTurnGate._carried_generation, None when not set
  transportGen, \* LocalAudioTransport._generation_id
  history,      \* coordinator._history
  closing,      \* session.close() has begun cancelling tasks
  aborted,      \* history variable: cancels that died of CancelledError
  rebuilt       \* history variable: last generation the engine rebuilt under

vars == <<gen, lock, stage, failed, stoppedBefore, sttGen, staged, gateGen,
          carried, transportGen, history, closing, aborted, rebuilt>>

fences == <<stoppedBefore, sttGen, staged, gateGen, carried, transportGen>>

CancelReason == {"barge_in", "text_barge_in", "device_changed", "microphone_off",
                 "stream_error", "stt_timeout", "output_overflow", "shutdown", "error"}

ASSUME BoundsAssumption == MaxGen \in Nat /\ HistoryLimit \in Nat \ {0}
ASSUME ReasonsAssumption == Reasons \subseteq CancelReason

AsyncStages == {"playback", "tts", "provider"}
SyncStages  == {"stt", "proposals", "turn_gate", "transport"}
None        == -1

\* A caller of cancel(): the generation it advanced to, and why.
Caller == [cur : Nat, reason : Reasons]

Holder == lock[1]
Previous(c) == c.cur - 1

\* The event loop never runs between the last two fences: see the header.
LoopRuns == stage # "transport"

Init ==
  /\ gen = 0
  /\ lock = <<>>
  /\ stage = "wait"
  /\ failed = {}
  /\ stoppedBefore = 0
  /\ sttGen = 0
  /\ staged = {}
  /\ gateGen = 0
  /\ carried = None
  /\ transportGen = 0
  /\ history = <<>>
  /\ closing = FALSE
  /\ aborted = {}
  /\ rebuilt = None
-----------------------------------------------------------------------------
\* PlaybackSink.stop_generation up to its await: the high-water mark rises.
StopPlayback(c) ==
  stoppedBefore' = IF stoppedBefore > c.cur THEN stoppedBefore ELSE c.cur

\* cancel(reason) up to its first suspension.  A free lock is taken at once and
\* playback is purged in the same step; otherwise the caller queues (FIFO).
Cancel(reason) ==
  LET c == [cur |-> gen + 1, reason |-> reason] IN
  /\ LoopRuns
  /\ gen < MaxGen
  /\ gen' = gen + 1
  /\ lock' = Append(lock, c)
  /\ IF lock = <<>>
     THEN /\ StopPlayback(c)
          /\ stage' = "playback"
     ELSE UNCHANGED <<stoppedBefore, stage>>
  /\ UNCHANGED <<failed, sttGen, staged, gateGen, carried, transportGen,
                 history, closing, aborted, rebuilt>>

\* A waiter is woken after the previous holder released the lock.
AcquireLock ==
  /\ lock # <<>> /\ stage = "wait"
  /\ StopPlayback(Holder)
  /\ stage' = "playback"
  /\ UNCHANGED <<gen, lock, failed, sttGen, staged, gateGen, carried, transportGen,
                 history, closing, aborted, rebuilt>>

\* _run: an awaited stage that raises is recorded and the teardown goes on.
Recorded(name, ok) == IF ok THEN failed ELSE failed \cup {name}

\* device.flush() returned or raised; tts.cancel() is awaited next.
PlaybackStopped(ok) ==
  /\ stage = "playback"
  /\ failed' = Recorded("playback", ok)
  /\ stage' = "tts"
  /\ UNCHANGED <<gen, lock, history, closing, aborted, rebuilt, fences>>

\* Mutant: an exception of tts.cancel() also skips the STT fence.
TtsCancelledSkipsStt(ok) ==
  /\ stage = "tts"
  /\ sttGen' = IF ok THEN Holder.cur ELSE sttGen
  /\ failed' = Recorded("tts", ok)
  /\ stage' = "provider"
  /\ UNCHANGED <<gen, lock, stoppedBefore, staged, gateGen, carried, transportGen,
                 history, closing, aborted, rebuilt>>

\* tts.cancel() returned or raised; STT is fenced in the same step, and
\* provider.interrupt_and_drain() is awaited next.  set_generation refuses to
\* move backwards, which _run_sync records as a failed stage.
TtsCancelled(ok) ==
  LET forward == Holder.cur >= sttGen IN
  /\ stage = "tts"
  /\ sttGen' = IF forward THEN Holder.cur ELSE sttGen
  /\ failed' = Recorded("tts", ok) \cup (IF forward THEN {} ELSE {"stt"})
  /\ stage' = "provider"
  /\ UNCHANGED <<gen, lock, stoppedBefore, staged, gateGen, carried, transportGen,
                 history, closing, aborted, rebuilt>>

\* _fence_turn_gate: a barge-in carries the interrupting speech over.
CarriedAfter(c) ==
  IF c.reason # "barge_in" THEN None
  ELSE IF c.cur # gateGen THEN gateGen ELSE carried

\* Mutant: proposals of the new generation are dropped instead of the old one's.
ProviderDrainedWrongProposals(ok) ==
  /\ stage = "provider"
  /\ staged' = staged \ {Holder.cur}
  /\ gateGen' = Holder.cur
  /\ carried' = CarriedAfter(Holder)
  /\ failed' = Recorded("provider", ok)
  /\ stage' = "transport"
  /\ UNCHANGED <<gen, lock, stoppedBefore, sttGen, transportGen,
                 history, closing, aborted, rebuilt>>

\* Mutant: a provider that raises ends the teardown before the gate is fenced.
ProviderDrainedStopsOnError(ok) ==
  /\ stage = "provider"
  /\ staged' = staged \ {Previous(Holder)}
  /\ gateGen' = IF ok THEN Holder.cur ELSE gateGen
  /\ carried' = IF ok THEN CarriedAfter(Holder) ELSE carried
  /\ failed' = Recorded("provider", ok)
  /\ stage' = "transport"
  /\ UNCHANGED <<gen, lock, stoppedBefore, sttGen, transportGen,
                 history, closing, aborted, rebuilt>>

\* interrupt_and_drain() returned or raised; proposals are dropped and the turn
\* gate is fenced in the same step.
ProviderDrained(ok) ==
  LET forward == Holder.cur >= gateGen IN
  /\ stage = "provider"
  /\ staged' = staged \ {Previous(Holder)}
  /\ gateGen' = IF forward THEN Holder.cur ELSE gateGen
  /\ carried' = IF forward THEN CarriedAfter(Holder) ELSE carried
  /\ failed' = Recorded("provider", ok) \cup (IF forward THEN {} ELSE {"turn_gate"})
  /\ stage' = "transport"
  /\ UNCHANGED <<gen, lock, stoppedBefore, sttGen, transportGen,
                 history, closing, aborted, rebuilt>>

\* deque(maxlen=_HISTORY_LIMIT)
Remember(h, e) ==
  LET all == Append(h, e)
  IN  IF Len(all) > HistoryLimit THEN Tail(all) ELSE all

\* Mutant: the transport is moved only when the gate has caught up with it.
FenceTransportWaits ==
  /\ stage = "transport"
  /\ carried = None
  /\ transportGen' = Holder.cur
  /\ history' = Remember(history, [cur |-> Holder.cur, failed |-> failed])
  /\ lock' = Tail(lock)
  /\ stage' = "wait"
  /\ failed' = {}
  /\ UNCHANGED <<gen, stoppedBefore, sttGen, staged, gateGen, carried,
                 closing, aborted, rebuilt>>

\* _fence_transport (rebuild or re-stamp, both adopt the generation), release
\* of the lock, and the CancelEvent.
FenceTransport ==
  /\ stage = "transport"
  /\ transportGen' = Holder.cur
  /\ history' = Remember(history, [cur |-> Holder.cur, failed |-> failed])
  /\ lock' = Tail(lock)
  /\ stage' = "wait"
  /\ failed' = {}
  /\ UNCHANGED <<gen, stoppedBefore, sttGen, staged, gateGen, carried,
                 closing, aborted, rebuilt>>

\* ProposalHost.propose_*: the session stages a tool call of the current turn
\* in the same step as its is_current check.
Propose ==
  /\ LoopRuns
  /\ staged' = staged \cup {gen}
  /\ UNCHANGED <<gen, lock, stage, failed, stoppedBefore, sttGen, gateGen, carried,
                 transportGen, history, closing, aborted, rebuilt>>

\* VoiceTurnGate._accept of a span stamped with the gate's own generation:
\* the re-stamped stream has caught up.
GateCaughtUp ==
  /\ LoopRuns
  /\ carried # None
  /\ transportGen = gateGen
  /\ carried' = None
  /\ UNCHANGED <<gen, lock, stage, failed, stoppedBefore, sttGen, staged, gateGen,
                 transportGen, history, closing, aborted, rebuilt>>

\* engine._recover_streams with no turn active: the transport is rebuilt under
\* the coordinator's generation without moving the fence.
RebuildWithoutCancel ==
  /\ LoopRuns
  /\ transportGen' = gen
  /\ rebuilt' = gen
  /\ UNCHANGED <<gen, lock, stage, failed, stoppedBefore, sttGen, staged, gateGen,
                 carried, history, closing, aborted>>

\* session.close() starts cancelling the tasks that may be inside cancel().
BeginClose ==
  /\ LoopRuns /\ ~closing
  /\ closing' = TRUE
  /\ UNCHANGED <<gen, lock, stage, failed, history, aborted, rebuilt, fences>>

Without(s, k) == [i \in 1..(Len(s) - 1) |-> IF i < k THEN s[i] ELSE s[i + 1]]

\* Mutant: an interrupted cancel() puts the counter back.
AbortRollsBack(k) ==
  /\ LoopRuns /\ closing
  /\ aborted' = aborted \cup {lock[k].cur}
  /\ gen' = gen - 1
  /\ lock' = Without(lock, k)
  /\ IF k = 1 THEN stage' = "wait" /\ failed' = {} ELSE UNCHANGED <<stage, failed>>
  /\ UNCHANGED <<history, closing, rebuilt, fences>>

\* CancelledError at one of cancel()'s awaits: `async with` releases the lock
\* (or leaves its queue) and the remaining stages never run.
Abort(k) ==
  /\ LoopRuns /\ closing
  /\ aborted' = aborted \cup {lock[k].cur}
  /\ lock' = Without(lock, k)
  /\ IF k = 1 THEN stage' = "wait" /\ failed' = {} ELSE UNCHANGED <<stage, failed>>
  /\ UNCHANGED <<gen, history, closing, rebuilt, fences>>

TeardownStep ==
  \/ AcquireLock
  \/ \E ok \in BOOLEAN : PlaybackStopped(ok) \/ TtsCancelled(ok) \/ ProviderDrained(ok)
  \/ FenceTransport

Next ==
  \/ \E reason \in Reasons : Cancel(reason)
  \/ TeardownStep
  \/ Propose
  \/ GateCaughtUp
  \/ RebuildWithoutCancel
  \/ BeginClose
  \/ \E k \in 1..Len(lock) : Abort(k)

Spec == Init /\ [][Next]_vars

\* The awaited collaborators bound their own waits (device flush, TTS cancel,
\* the provider's drain_timeout_s), so a started teardown keeps moving.
FairSpec == Spec /\ WF_vars(TeardownStep)
-----------------------------------------------------------------------------
\* The types of the coordinator's state and of the fences it writes.
TypeOK ==
  /\ gen \in Nat
  /\ lock \in Seq(Caller)
  /\ stage \in AsyncStages \cup {"wait", "transport"}
  /\ failed \subseteq AsyncStages \cup SyncStages
  /\ stoppedBefore \in Nat
  /\ sttGen \in Nat
  /\ staged \subseteq Nat
  /\ gateGen \in Nat
  /\ carried \in Nat \cup {None}
  /\ transportGen \in Nat
  /\ history \in Seq([cur : Nat, failed : SUBSET (AsyncStages \cup SyncStages)])
  /\ closing \in BOOLEAN
  /\ aborted \subseteq Nat
  /\ rebuilt \in Nat \cup {None}

Waiting == {lock[i].cur : i \in 1..Len(lock)}

\* Overlapping cancellations tear down in the order they advanced the counter,
\* so no collaborator is ever asked to move backwards: a CancelEvent's
\* failed_stages never names one of the synchronous fences.
NeverBackwards ==
  /\ failed \cap SyncStages = {}
  /\ \A i \in 1..Len(history) : history[i].failed \cap SyncStages = {}

\* Audible output is fenced before STT and STT before the turn gate, through any
\* overlap, failure or abort: whenever the gate captures for the current
\* generation, STT accepts that generation and older audio is unplayable.
FenceOrder ==
  /\ gateGen <= sttGen
  /\ sttGen <= stoppedBefore
  /\ stoppedBefore <= gen
  /\ transportGen <= gen

\* "The gate must adopt the new fence before the transport re-stamps incoming
\* PCM": a span stamped right now is one the gate takes, except in the window of
\* a resetting cancel (whose audio is discarded anyway) and behind a rebuild
\* that already stamps the generation a teardown has yet to bring to the gate.
StampAccepted ==
  /\ transportGen < gateGen =>
       /\ stage = "transport"
       /\ Holder.reason = "barge_in" =>
            transportGen = carried \/ transportGen <= rebuilt
  /\ transportGen > gateGen => transportGen <= rebuilt

\* Once nobody is tearing down, every collaborator agrees with the counter,
\* whichever stages failed, unless the newest cancellation itself was aborted.
Settled ==
  lock = <<>> /\ gen \notin aborted =>
    /\ stoppedBefore = gen
    /\ sttGen = gen
    /\ gateGen = gen
    /\ transportGen = gen

\* A proposal outlives its generation only until that generation's teardown:
\* nothing staged by a cancelled turn is left for a later commit.
ProposalsFenced ==
  \A g \in staged : g = gen \/ g + 1 \in Waiting \cup aborted

\* cancel_events lists the cancellations "newest last", none twice.
HistoryOrdered ==
  /\ Len(history) <= HistoryLimit
  /\ \A i, j \in 1..Len(history) : i < j => history[i].cur < history[j].cur

\* Every caller of cancel() gets its turn and returns.
TeardownsEnd == \A n \in 1..MaxGen : n \in Waiting ~> n \notin Waiting

\* The promise of GenerationFence, with the turn gate as the adopting side.
Fence == INSTANCE GenerationFence WITH current <- gen, adopted <- gateGen
FenceSpec == Fence!Spec
=============================================================================
