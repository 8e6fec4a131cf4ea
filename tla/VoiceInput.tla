----------------------------- MODULE VoiceInput -----------------------------
(***************************************************************************)
(* The microphone path: the CoreAudio callback thread, the bounded span    *)
(* queue of audio/transport.py, the engine's input pump and stream         *)
(* recovery, and the turn gate they feed, under the generation fences of   *)
(* coordinator.cancel().  Extends TurnGate, whose handlers it schedules.   *)
(* Of the coordinator only the two fences of this path are kept, in order; *)
(* GenerationCoordinator has the whole teardown.                           *)
(***************************************************************************)
EXTENDS TurnGate, Sequences

CONSTANTS
  MaxCallbacks,  \* LocalAudioTransport max_callbacks: spans queued, 32 in the code
  MaxEpochs      \* bound on transport rebuilds

ASSUME QueueAssumption == MaxCallbacks \in Nat \ {0} /\ MaxEpochs \in Nat

VARIABLES
  gen,          \* coordinator._generation_id
  teardowns,    \* cancel() callers still to fence gate and transport, FIFO
  between,      \* the gate is fenced, the transport is not yet
  busy,         \* generation the session is thinking or speaking for
  micOn,        \* transport._microphone_enabled
  streamOpen,   \* the PortAudio input stream is calling back
  cursor,       \* transport._sample_cursor
  transportGen, \* transport._generation_id
  inbox,        \* transport._queue
  overflowed,   \* transport._overflowed
  recovery,     \* engine._recover_streams: idle, its cancel, reopen, microphone
  epoch,        \* history variable: transport rebuilds so far
  gateEpoch,    \* history variable: epoch of the last span the gate took
  fenced,       \* history variable: the last rebuild was part of a cancel()
  spliced,      \* history variable: spans were taken as adjacent across such a rebuild
  resetGen,     \* history variable: newest generation the gate adopted by reset
  ahead,        \* history variable: newest generation a rebuild stamped before its fence
  drop          \* history variable: why the gate last refused a span

inputVars == <<gen, teardowns, between, busy, micOn, streamOpen, cursor, transportGen,
               inbox, overflowed, recovery, epoch, fenced, gateEpoch, spliced, resetGen, ahead, drop>>

transportVars == <<micOn, cursor, transportGen, inbox, overflowed, epoch, fenced>>
fenceVars == <<gen, teardowns, between>>
ghostVars == <<gateEpoch, spliced, resetGen, ahead, drop>>

InputInit ==
  /\ GateInit
  /\ gen = 0
  /\ teardowns = <<>>
  /\ between = FALSE
  /\ busy = None
  /\ micOn = TRUE
  /\ streamOpen = TRUE
  /\ cursor = 0
  /\ transportGen = 0
  /\ inbox = <<>>
  /\ overflowed = FALSE
  /\ recovery = "idle"
  /\ epoch = 0
  /\ gateEpoch = None
  /\ fenced = FALSE
  /\ spliced = FALSE
  /\ resetGen = 0
  /\ ahead = 0
  /\ drop = "none"

\* session._ai_active
AiActive == busy = gen
LoopRuns == ~between
-----------------------------------------------------------------------------
(* LocalAudioTransport, each under its state lock. *)

SetMicrophone(on) == micOn' = on
SetGeneration(g)  == transportGen' = g

\* health(): a failed stream the engine has yet to see.
Health == overflowed

\* read_nowait.
ReadNowait == inbox # <<>> /\ inbox' = Tail(inbox)

\* audio_callback, on the callback thread at any time: the cursor advances even while
\* the microphone is off; a full queue drops the span and aborts the stream.
AudioCallback ==
  /\ streamOpen
  /\ cursor + Window <= MaxSample
  /\ cursor' = cursor + Window
  /\ IF micOn /\ Len(inbox) = MaxCallbacks
     THEN /\ overflowed' = TRUE
          /\ streamOpen' = FALSE
          /\ UNCHANGED inbox
     ELSE /\ inbox' = IF micOn THEN Append(inbox, [start |-> cursor, gen |-> transportGen,
                                                   epoch |-> epoch])
                      ELSE inbox
          /\ UNCHANGED <<overflowed, streamOpen>>
  /\ UNCHANGED <<gateVars, fenceVars, busy, micOn, transportGen, recovery, epoch, fenced,
                 ghostVars>>

\* mark_discontinuity: PortAudio reported an input overflow; the stream aborts.
Discontinuity ==
  /\ streamOpen
  /\ overflowed' = TRUE
  /\ streamOpen' = FALSE
  /\ UNCHANGED <<gateVars, fenceVars, busy, micOn, cursor, transportGen, inbox, recovery,
                 epoch, fenced, ghostVars>>
-----------------------------------------------------------------------------
(* The event loop. *)

AdvanceWith(reason) ==
  /\ gen' = gen + 1
  /\ teardowns' = Append(teardowns, [cur |-> gen + 1, reason |-> reason])

\* Why the gate refuses a span: a reset fenced it, or one still to come will; more
\* than one barge-in has passed since it was stamped; or a rebuild of the transport
\* stamped a newer generation before it, ahead of the fences still waiting.
RefusalOf(span) ==
  CASE span.gen > gateGen /\ \E i \in DOMAIN teardowns :
         teardowns[i].cur >= span.gen /\ teardowns[i].reason # "barge_in" -> "early"
    [] span.gen < resetGen -> "reset"
    [] span.gen >= resetGen /\ span.gen + 1 < gateGen -> "overtaken"
    [] resetGen <= span.gen /\ span.gen + 1 = gateGen /\ span.gen < ahead -> "regressed"
    [] OTHER -> "unexplained"

\* _pump_input: one span through session.handle_audio.  The pump waits for its
\* own barge-in, and for the recovery that follows an exception.
Pump ==
  LET span == Head(inbox)
      old  == span.gen # gateGen
  IN
  /\ LoopRuns /\ ReadNowait
  /\ outcome = "lost" => recovery = "idle" /\ span.epoch # gateEpoch
  /\ IF span.gen \in {gateGen, carried}
     THEN /\ \E voiced \in BOOLEAN : Feed(span.start, old, voiced, AiActive)
          /\ IF interrupting' THEN gen < MaxGen /\ AdvanceWith("barge_in")
             ELSE UNCHANGED <<gen, teardowns>>
          /\ busy' = IF outcome' = "captured" /\ gateGen = gen' THEN gen ELSE busy
          /\ gateEpoch' = span.epoch
          /\ spliced' = (spliced \/ (fenced /\ nextStart = span.start /\ gateEpoch # span.epoch))
          /\ UNCHANGED drop
     ELSE /\ ~interrupting
          /\ drop' = RefusalOf(span)
          /\ UNCHANGED <<gateVars, gen, teardowns, busy, gateEpoch, spliced>>
  /\ UNCHANGED <<between, micOn, streamOpen, cursor, transportGen, overflowed, recovery,
                 epoch, fenced, resetGen, ahead>>

\* The session starts an answer in the current generation, or ends one.
TurnStarts ==
  /\ LoopRuns /\ busy' = gen
  /\ UNCHANGED <<gateVars, fenceVars, transportVars, streamOpen, recovery, ghostVars>>
TurnEnds ==
  /\ LoopRuns /\ busy' = None
  /\ UNCHANGED <<gateVars, fenceVars, transportVars, streamOpen, recovery, ghostVars>>

\* submit_text during an answer.
TextBargeIn ==
  /\ LoopRuns /\ AiActive /\ gen < MaxGen
  /\ AdvanceWith("text_barge_in")
  /\ UNCHANGED <<gateVars, between, busy, transportVars, streamOpen, recovery, ghostVars>>

\* cancel(): the gate adopts the generation of the caller at the head.
FenceGate ==
  /\ LoopRuns /\ teardowns # <<>>
  /\ between' = TRUE
  /\ IF Head(teardowns).reason = "barge_in"
     THEN /\ CarryOver
          /\ UNCHANGED resetGen
     ELSE /\ Reset
          /\ resetGen' = gateGen + 1
  /\ gateEpoch' = IF Head(teardowns).reason = "barge_in" THEN gateEpoch ELSE None
  /\ UNCHANGED <<gen, teardowns, busy, transportVars, streamOpen, recovery, spliced, ahead, drop>>

\* LocalAudioTransport.rebuild: microphone off, queue and cursor restarted.
Rebuild(g) ==
  /\ micOn' = FALSE
  /\ inbox' = <<>>
  /\ cursor' = 0
  /\ transportGen' = g
  /\ overflowed' = FALSE
  /\ epoch' = epoch + 1

\* cancel(): the transport adopts it; a recovery that awaited this goes on.
FenceTransport ==
  /\ between
  /\ between' = FALSE
  /\ teardowns' = Tail(teardowns)
  /\ IF Head(teardowns).reason = "stream_error"
     THEN Rebuild(Head(teardowns).cur) /\ fenced' = TRUE
     ELSE /\ SetGeneration(Head(teardowns).cur)
          /\ UNCHANGED <<micOn, cursor, inbox, overflowed, epoch, fenced>>
  /\ recovery' = IF Head(teardowns).reason = "stream_error" THEN "reopen" ELSE recovery
  /\ UNCHANGED <<gateVars, gen, busy, streamOpen, ghostVars>>

\* engine._recover_streams up to its first await: cancel while a turn is being
\* captured, otherwise rebuild the transport without moving the fence.
RecoverStreams ==
  /\ LoopRuns /\ recovery = "idle" /\ epoch < MaxEpochs
  /\ Health \/ (outcome = "lost" /\ gateEpoch = epoch)
  /\ IF policy.active
     THEN /\ gen < MaxGen
          /\ AdvanceWith("stream_error")
          /\ recovery' = "cancel"
          /\ UNCHANGED <<transportVars, ahead>>
     ELSE /\ Rebuild(gen)
          /\ fenced' = FALSE
          /\ ahead' = IF teardowns = <<>> THEN ahead ELSE gen
          /\ recovery' = "reopen"
          /\ UNCHANGED <<gen, teardowns>>
  /\ UNCHANGED <<gateVars, between, busy, streamOpen, gateEpoch, spliced, resetGen, drop>>

\* rebuild_streams and set_microphone(True): the stream calls back again while
\* the transport's microphone is still off.
ReopenStream ==
  /\ LoopRuns /\ recovery = "reopen"
  /\ streamOpen' = TRUE
  /\ recovery' = "microphone"
  /\ UNCHANGED <<gateVars, fenceVars, busy, transportVars, ghostVars>>

\* transport.set_microphone(True), last step of _sync_microphone.
MicrophoneOn ==
  /\ LoopRuns /\ recovery = "microphone"
  /\ SetMicrophone(TRUE)
  /\ recovery' = "idle"
  /\ UNCHANGED <<gateVars, fenceVars, busy, streamOpen, cursor, transportGen, inbox, overflowed,
                 epoch, fenced, ghostVars>>

InputNext ==
  \/ AudioCallback \/ Discontinuity
  \/ Pump
  \/ TurnStarts \/ TurnEnds
  \/ TextBargeIn
  \/ FenceGate \/ FenceTransport
  \/ RecoverStreams \/ ReopenStream \/ MicrophoneOn

InputSpec == InputInit /\ [][InputNext]_<<gateVars, inputVars>>
-----------------------------------------------------------------------------
\* The types of the path's own state.
InputTypeOK ==
  /\ gen \in 0..MaxGen
  /\ teardowns \in Seq([cur : 0..MaxGen, reason : {"barge_in", "text_barge_in", "stream_error"}])
  /\ between \in BOOLEAN
  /\ busy \in -1..MaxGen
  /\ micOn \in BOOLEAN /\ streamOpen \in BOOLEAN /\ overflowed \in BOOLEAN
  /\ fenced \in BOOLEAN /\ spliced \in BOOLEAN
  /\ cursor \in 0..MaxSample
  /\ transportGen \in 0..MaxGen /\ resetGen \in 0..MaxGen /\ ahead \in 0..MaxGen
  /\ epoch \in 0..MaxEpochs /\ gateEpoch \in -1..MaxEpochs
  /\ inbox \in Seq([start : Nat, gen : 0..MaxGen, epoch : 0..MaxEpochs])
  /\ Len(inbox) <= MaxCallbacks
  /\ recovery \in {"idle", "cancel", "reopen", "microphone"}
  /\ drop \in {"none", "early", "reset", "overtaken", "regressed", "unexplained"}

\* One interruption by voice loses no microphone audio: whatever the callback
\* stamped before, during or after the fences, the gate takes it, unless a
\* resetting cancel discarded it or a second barge-in overtook it.
DropsExplained == drop # "unexplained"

\* A recovery that cancels cannot splice: a span of the new timeline is never
\* taken as the continuation of the old one.  (A recovery without a cancel can:
\* the cursor it restarts runs while the microphone is off, and may be where
\* the gate expects the next span.)
NoFencedSplice == ~spliced
=============================================================================
