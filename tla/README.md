# Lune voice companion: TLA+ models, checks and proofs

Lune is a local voice companion: a microphone feeds a turn gate, captured
speech is transcribed, a language model answers sentence by sentence, a speech
backend voices the answer and a bounded queue plays it; a web page shows what
happens and a SQLite database remembers it.  Everything can be interrupted at any
moment: by speech, by typing, by a device change, by a timeout, by switching the
microphone off, by shutdown.  One integer, the *generation*, decides what still
counts.  The code is one asyncio event loop plus native threads (CoreAudio
callback, PortAudio executor, speech synthesis) and worker processes (private
voice, local model); nearly every hard question about it is what happens between
two awaits, or between two ends of a pipe.

Source paths below are relative to `src/src/lune/`.

Contents: [1 Inventory](#1-inventory), [2 The models](#2-the-models),
[3 What the runs check](#3-what-the-runs-check), [4 Bounds](#4-bounds-and-why-they-are-enough),
[5 Fairness](#5-fairness), [6 What is proved](#6-what-is-proved),
[7 Where the code and its own words disagree](#7-where-the-code-and-its-own-words-disagree),
[8 Not modelled](#8-not-modelled), [9 Plan](#9-plan).

## 1. Inventory

| Component (source) | State | Operations | Talks to | Hard behaviour | What makes it correct | Module |
|---|---|---|---|---|---|---|
| Generation coordinator (`pipeline/coordinator.py`) | `_generation_id`, lock, event history | `cancel(reason)`, `is_current` | fences playback, TTS, STT, provider, proposals, gate, transport, in that order | overlapping cancels, failing stages, `CancelledError` at an await | order, completeness and progress of the teardown | GenerationCoordinator |
| Playback sink (`pipeline/playback.py`) | chunk queue, stop mark, pending counters, failed generations, writer | `submit`, `drain`, `stop_generation`, `close` | session, coordinator, stream owner | waiters on events other tasks replace; purge against a write in flight | `drain()` is true exactly when all was played; no lost wakeup | PlaybackSink |
| Turn gate, policy, pre-roll ring (`pipeline/turn_gate.py`, `audio/vad.py`, `audio/preroll.py`) | onsets, ring, utterance, carried generation | `process`, `set_generation`, `carry_over_generation` | input pump, STT | thresholds that change during confirmation, trims, gaps, carried barge-in | a capture is exactly the samples of its range | TurnGate |
| Microphone transport, input pump (`audio/transport.py`, `engine.py`) | span queue, cursor, stamp, overflow flag | callback, `next_input`, `rebuild`, recovery | callback thread, turn gate, coordinator | callback between two fences; stream abort and rebuild | no speech refused without a reason; no splice | VoiceInput |
| Voice session (`pipeline/session.py`) | shown state, watchdog, turn tasks, active turn | speech events, STT results, typing, microphone, turn tasks, `close` | everything | stale results, watchdog against late answers, several turn tasks | rows settled, busy states end, stale turns frozen | VoiceSession |
| Final-only STT (`stt/mlx.py`) | one pending slot, inference in flight | `submit`, worker, `set_generation` | session | results of old generations; inference that never returns | a stale result changes nothing | VoiceSession |
| Device states, engine life cycle (`audio/devices.py`, `engine.py`) | requested microphone, snapshot, device lock, tasks | set microphone, check, watch, recover, close | stream owner, session, transport | polls and commands overlapping over three awaits each | streams settle on what was asked for | EngineStreams, VoiceSession |
| CoreAudio stream owner (`audio/coreaudio.py`) | two streams, failure flags, flush flag, executor queue | write, flush, rebuild, microphone, health | sink, engine | flag raised before the executor sees its job; permission awaited | a raised flush is lowered again | EngineStreams |
| Conversation generator, budget ledger (`llm/streaming.py`, `llm/budget.py`, `memory/usage.py`) | reservations, confirmed cost by month, usage rows | reserve, stream, retry, drain, settle | provider, SQLite, session | overlap, retry, month boundary, refused write, restart | the lock holds but for bills above their reservation, and the ledger knows of them | ConversationBudget |
| Pipecat attempt provider (`pipeline/pipecat_provider.py`) | live attempt, frame queue, stash | `stream`, `interrupt_and_drain`, stall, close | generator, coordinator, Pipecat | fence hook, reader and stall timer race for one queue | words and usage reach their own turn | AttemptProvider |
| On-device model (`llm/local_qwen.py`, `llm_spike/`) | worker lock, background task, host's generation counter, worker process | answer, title, cancel, release | provider, titles | tokens of a cancelled generation still in the pipe; a title holding the worker | no foreign words; a turn is served; weights released | AttemptProvider |
| TTS router, breaker, GPT-SoVITS (`tts/router.py`, `tts/circuit.py`, `tts/gpt_sovits.py`, `tts/gpt_worker.py`) | active backend per generation, failures, worker process and pipes | synthesize, fall back, cancel, retire | session, coordinator | frames name a generation and no sentence; a worker that hangs, dies or is slow | the voice says the sentence it was asked for | SpeechBackends |
| AVSpeech backend, run loop (`tts/avspeech.py`, `tts/runloop.py`) | synthesizer, callback, bounded queue | synthesize, cancel, pump | router | buffers scheduled before the callback changed | a sentence always ends | SpeechBackends |
| Memory store (`memory/store.py`) | turns, threads, summaries, memories, links, affinity | transactions | session, proposal host, UI | a commit cut in the middle; forgets meanwhile; restart | nothing unearned is remembered | ConversationMemory |
| Proposal host (`memory/proposals.py`) | proposals by generation | stage, cancel, commit | session, store | two turns of one generation; a write that raises | a cancelled turn leaves no memory | ConversationMemory, VoiceSession |
| Rolling summary, titles (`memory/summary.py`, `memory/titles.py`) | none of their own | awaited backend between two fence checks | store | concurrent turns of a thread, renames meanwhile | no lost or doubled coverage; the user's title wins | ConversationMemory |
| Enricher, embedding, retrieval (`pipeline/enricher.py`, `memory/embedding.py`) | encoder | retrieve | store | encoder missing | a turn goes on without memories | ConversationMemory (as an input) |
| Loopback IPC server (`ipc/`) | token, the one client, send lock | connect, dispatch, broadcast, close | UI runtime, page | a slow client dropped in a broadcast; replies behind events | the page converges | UiHost |
| UI runtime (`ui/runtime.py`, `engine.py`) | engine, active and call thread, event queue, baseline | start, recheck, commands, events, close | IPC, engine | the engine built across awaits while commands and shutdown arrive | one engine; a call keeps its thread | UiHost |
| Desktop shell and page (`ui/desktop.py`, `ui/static/app.js`) | the view | apply frames | IPC | snapshots, events and results overtaking each other | shows the engine's truth | UiHost |
| Silero; experiments; configuration, CLI | none shared | pure computation or start-up | | | | not modelled |

`PROJECT.json` lists each of them with its status, and every hazard at its line
with the properties that watch it.

## 2. The models

Modules that EXTEND another: VoiceInput composes the transport and the pump with
TurnGate; GenerationCoordinator and VoiceSession refer to GenerationFence by
INSTANCE; every `MC...` module instantiates one specification for TLC and every
`...Proofs` module proves about one, with two exceptions: AudioProofs is about both
ends of the audio path (PlaybackSink and VoiceInput), and UiHostProofs about the
host and the engine's streams (UiHost and EngineStreams).  History variables are marked in the modules: they
record what the properties compare, and no action reads them except to bound
itself.

**GenerationFence** is the abstract promise: a counter that advances by one and
an adopting side that only moves towards it.  GenerationCoordinator implements it
with the turn gate, VoiceSession with STT and with the turn gate.

**GenerationCoordinator** splits `cancel()` at its awaits.  `lock` is the FIFO of
the `asyncio.Lock`, holder first; `stage` is the await the holder is suspended
in.  `Cancel` is the synchronous prefix; `PlaybackStopped`, `TtsCancelled`,
`ProviderDrained` are the code after each await with everything it does before
the next.  `FenceTransport` is apart because the audio callback, a native thread,
runs before it.  `Abort` is `CancelledError` at an await during shutdown.

**PlaybackSink** represents a chunk by its generation.  The writer's `get`,
`write` and their failures, `stop_generation` up to its await, `drain` up to its
sleep and from its wakeup, and `close` with the cancelled writer are separate
actions.  A sleeping `drain()` is woken only by the code that sets its event.

**TurnGate** works on absolute sample positions: of the PCM only how much is
held matters, of the detector only its verdict.  `slack` counts the samples
that are missing from the utterance because its threshold dropped while it was being
confirmed.  **VoiceInput** schedules its
handlers: the callback stamps spans into the bounded queue at any time, the pump
takes them, a barge-in makes the pump await `cancel("barge_in")`, a full queue
aborts the stream and the recovery rebuilds it.

**VoiceSession** has one action per stretch of code between two awaits, over a
sequence of turn tasks, with the STT service folded in.  A teardown is reduced to
the two fences the session can distinguish.  `callers` says who is suspended in
`cancel()` and what that caller does when it resumes (`Resume`).

**ConversationBudget** follows each turn's attempt from reservation through
frames, sentences, retry and drain to settlement; memory (`active`, `confirmed`)
and SQLite (`rows`) are separate, `Restart` rebuilds one from the other.  An
attempt's bill is chosen when it is reserved, below its worst case or above it
(`Bills`): the session's estimate is clipped and incomplete, and what the provider
reports is charged as it comes (section 7).

**ConversationMemory** has one action per SQLite transaction of the store, and
between them the tasks of `session.py` that run them: a turn is begun with the
memories retrieved for its prompt, delivered, and committed proposal by proposal,
each of which may raise; after it come the title and the summary, each a fence
check, an await and a second check.  `Restart` keeps the rows and loses the
tasks, the proposals and the generation counter; the user renames, forgets and
switches threads at any time.

**AttemptProvider** is one answer of the on-device model on its way out, and a
title competing for the same worker: the generator's reader, the provider with
its bounded queue and stash, the Pipecat pipeline between them, the service with
the worker lock, the host's own generation counter, the two pipes and the worker
process, and `VoiceEngine.close` ending all of it.  Each frame carries the turn
it was generated for, which only the properties read.

**SpeechBackends** is one sentence on its way to a voice: the router, the breaker,
the private worker with its command pipe, its synthesis thread and its output
pipe, the system voice with its shared callback and the pump that schedules
buffers, the consumer `_speak`, and the coordinator's `tts.cancel` with its
half-second wait.  PCM frames name a generation and a position, as in the code.

**EngineStreams** is `engine.py`'s microphone on top of `coreaudio.py`: three
takers of the device lock (UI command, device watch, recovery), the executor with
its queue of jobs, `done` for results whose awaiting task has not resumed yet,
the permission prompt, and a default device that changes under them.
`set_microphone` does not take the lock and neither does reading the defaults.

**UiHost** is `run_ui_ipc`: the pump with its baseline and bounded event queue,
the one client, one command at a time, the reply waiting for the send lock, what
the page makes of each frame, and the engine built across two awaits by the
startup task or by a recheck, with the host stopping at any point.

### Abstractions worth knowing

* Samples, text and prices are small integers or disappear; a memory's text is a
  member of a small set because uniqueness depends on it.
* TurnGate takes spans of exactly one window: the stream owner delivers 512
  frames, which is what Silero asks for.
* In GenerationCoordinator proposals are a set of generations; ConversationMemory
  knows which turn staged them.
* ConversationMemory begins a turn at any time, also beside one that answers in the
  same generation: the session fences the earlier answer only while it looks busy, and
  it may look idle (section 7).  `peers` records who answered beside whom.  A commit
  takes the proposals of all of them, as `commit_generation` does; proposals left by a
  commit that raised stay in the host, and the next commit of that generation takes them
  or fails again.  `switch_thread` looks at the turn tasks only (`Switchable`), not at
  the shown state, so it is allowed more often than in the code.
* AttemptProvider takes Pipecat's interruption from how `pipecat_provider.py`
  relies on it: it cancels the service's process task, drops contexts queued
  before it and flushes what is downstream.  A turn may begin whenever the session
  is open, whatever is under way for the attempts before it (`Begin`); `overtaken`
  records which attempt was not vacated when the next one began, and only such beginnings
  are bounded (`MaxEvents`).  The usage frame and the `done` frame are one; tool calls behave like
  text; faults happen only while the worker is up.
* SpeechBackends begins a sentence only when the `cancel()` that opened the
  generation has returned, serves one cancel at a time, and kills a retired
  worker at once.  `stopSpeaking` clears the synthesizer at once, but buffers
  already scheduled still arrive.
* UiHost serves one command of one client at a time and takes `submit_text` as one
  step; `server.close()` waits for the connection handlers.

## 3. What the runs check

All state spaces are finite and explored completely.  `CHECK_DEADLOCK FALSE` is
set because each system may really stop: the bounds on generations, turns or
events are used up, or it has closed.

| Run | Question | Properties |
|---|---|---|
| `coordinator` | up to three overlapping cancellations, each stage failing or not, aborted at shutdown, rebuilds in between | fences keep their order (`FenceOrder`), all agree at the end (`Settled`), no stale proposal survives (`ProposalsFenced`), every caller returns (`TeardownsEnd`), GenerationFence is implemented (`FenceSpec`) |
| `playback` | two turns submitting and draining against writer, failures, stop and close | a true `drain()` means all was played (`DrainMeansPlayed`), no sleeper without a pending chunk (`NoLostWakeup`), a stop leaves nothing of what it stopped (`PurgeComplete`), drains return (`DrainReturns`) |
| `voice_input` | every sequence of windows, gaps and fences, with callback, queue, pump and recovery interleaved | an utterance is lost only by a threshold that drops during confirmation (`OnlyThresholdDropLoses`), a capture is exactly its range, unless the length bound hides a hole, and ends where speech ended (`CaptureHonest`), each refused span has a reason (`DropsExplained`), a recovery that cancels joins no two timelines (`NoFencedSplice`) |
| `session` | one turn in three generations: speech, typing, STT, watchdog, microphone, device switches, failed rebuilds, shutdown | rows are settled when their task is (`RowsSettled`), a fenced turn gets no text, memory or completion (`StaleTurnsFrozen`), no teardown is lost (`FencesSettled`), STT and gate only ever catch up with the counter, GenerationFence implemented twice (`FenceSpec`), turns end (`TurnsEnd`), listening, thinking and speaking end (`BusyEnds`) |
| `budget` | two overlapping turns with retries, fences, bills above and below what was reserved, refused writes, a month boundary, restarts | the lock is passed by no more than reported bills exceed their reservations (`BelowLock`), the ledger covers the reserved part of every bill and all reported beyond it (`SpendCovered`), memory and disk agree (`DurableExact`) |
| `memory` | three turns in two threads, beside each other or one after the other, proposals, titles, summaries, renames, forgets, a failing commit or a restart | affinity is the sum of its events within every limit (`AffinityExact`), nothing is remembered of a turn unless it, or one beside it in its generation, earned it (`CommitEarned`), a summary covers each turn once, but for one left behind by a younger one beside it (`SummaryExact`), an answer shows the memories it used (`LinksExact`), a title is written once and never over the user's (`TitleOnce`) |
| `ui` | event pump, client, commands, engine construction and shutdown | once nothing is on its way and no drop is uncorrected, the page shows the store's memories and its thread's messages, each once (`PageConverges`), a call keeps its thread (`CallKeepsThread`), no second and no left-over engine (`EnginesAccounted`) |
| `streams` | microphone commands, device checks, device watch, recovery, faults and shutdown | a raised flush flag will be lowered (`FlushExplained`), the streams settle on what was asked for (`Settles`), every command returns (`CommandReturns`) |
| `streams_doc` | does the input follow the default device, as the project decisions say | **violated**, section 7 |
| `speech` | two turn tasks speaking while the fence moves and the worker hangs, dies, errs or fails to launch | the private voice says its own sentence, whole when stored as spoken, and no other voice repeats it (`GptSpeaksItsOwn`), sentences end (`SentencesEnd`) |
| `attempts` | two answers and a title on one worker, the second begun at any moment of the first or of its cancel, with fence, stall, full queue, faults and close | an answer has its own words and usage but behind a stalled or an overtaken one (`OwnWords`), usage that reached a live attempt is settled unless the attempt was fenced, and the fence takes none that the attempt could drain, with the same exception (`UsageKept`), no worker outlives close (`WeightsReleased`), a turn waiting for the worker gets it although a title holds it (`TurnServed`), a fenced stream that was not overtaken ends without the stall timer even when its wake-up was dropped (`FencedStreamEnds`) |
| `speech_doc` | does the system voice play for a sentence only that sentence, as its docstring says | **violated**, section 7 |

Each property has a mutant: an operator that changes one definition the way a
plausible bug would, which TLC must then find.  They stand next to the definitions
they change and are listed in `PROJECT.json`.  Every module also defines `TypeOK`
(VoiceInput: `InputTypeOK`); it documents the types of the state and is not among
the properties above.  The proofs carry the type facts they need in their
inductive invariants.

## 4. Bounds, and why they are enough

* **coordinator.**  `MaxGen = 3` gives a holder and two waiters, the smallest
  queue in which service order matters, and a history longer than its limit of
  2.  The proofs remove this bound.
* **playback.**  One chunk in a queue of one reaches "full", "queued" and "empty but
  writing"; two callers drain, and four generations let two teardowns lag, the newer
  stopped first, and with three failures remembered evict the oldest.  What longer
  answers and queues could add to the safety properties is proved; the run is there
  for `DrainReturns`.
* **voice_input.**  Durations in milliseconds scaled down but ordered as in the
  code's 100, 300, 350, 350 and 700: idle start 30, barge-in 50, end silence 60,
  pre-roll 70, ring 170, length bound 180, window 40, so that no duration is a
  multiple of the window.  Seven windows contain two barge-ins with a turn end
  between them, or a capture that runs into the length bound; a queue of four still
  overflows; one rebuild starts a second timeline and four generations let it run
  two fences ahead.  3.1 million states.
* **session.**  Three generations with both kinds of device let a watchdog, a poll
  and a speech onset be inside `cancel()` together, and the turn they fence be at
  any of its awaits.  Several turns, which overtake, outlive or share the generation
  of one another, are covered by the proofs.
* **budget.**  Costs 3 and 1, fallback at 4 and lock at 5 make each comparison
  land on both sides of equality; a bill is one less or one more than its reservation
  (`Deviations`, within `MaxBill`), so the lock is passed with overlapping reservations
  still open; two turns, two months, two sentences and one
  refused write let overlap, expiry and refusal meet.  Turns are symmetric (no
  liveness is checked).
* **memory.**  A window of one and a chunk of one let three turns cross the
  summary threshold with two of them summarising at once; two threads with a
  session limit of one and affinity in 0..1 reach each limit from both sides; one
  incident (`MaxIncidents`) is a crash, a raising commit or a command of the user (a new
  thread, a rename or a forget) at any point; all of these properties are proved without
  the bound.  Two generations let two of the turns share one while the third is fenced
  off.  1.3 million states.
* **ui.**  Two threads, two changes and a queue of one event reach overflow with
  the pump in the middle of a send; one engine is enough for construction to
  overlap commands and shutdown.  2.6 million states.
* **streams.**  A safe and an unsafe device; three events (default changes,
  commands, faults, writes) let any two overlap a third; the run starts cold and
  in the middle of a call, so that the events are not spent on getting there.
  `streams_doc` takes two safe devices and five events, the shortest way to its
  violation.
* **speech.**  Two tasks, two generations, two sentences of two chunks: a fenced
  sentence and its successor share worker, pipe and synthesizer.  A pipe of one
  frame makes the worker block, a queue of two makes the system voice overflow;
  one trouble, with up to one launch failure counted from before, opens the
  breaker.
* **attempts.**  Two turns, a title, a completion of one token and its usage, a
  queue of two frames, one worker fault, and any two of a fence, a title, a fault, a
  stall, an overtaking and the engine's close (`MaxEvents`): each pair of them meets each
  other state of both answers, a turn begun inside a running cancel among them.  One
  million states.  With two turns a displaced stream is not inherited by a third; the
  proofs have no such bound.

## 5. Fairness

* `GenerationCoordinator`: `WF(TeardownStep)`.  Each awaited collaborator bounds
  its own wait (device flush, `tts.cancel`, the provider's `drain_timeout_s`).
* `PlaybackSink`: the writer, the closer and each *woken* drainer keep running;
  a sleeping drainer gets no fairness, it has to be woken.
* `VoiceSession`: teardowns, the watchdog's sleep, a stream rebuild and each turn
  task progress.  STT inference gets **no** fairness: it may hang, and `BusyEnds`
  then rests on the watchdog.
* `EngineStreams`: executor and event loop run, the watch ticks (a timer), the
  recovery of a stream seen failed is called, a permission prompt is answered or
  times out.  Taking the device lock is strongly fair: `asyncio.Lock` serves in
  order and others take it again and again.
* `SpeechBackends`: tasks that can go on are scheduled, the worker's reader and
  its thread run unless hung or blocked, the pump drains, the fence's wait ends by
  its timer.  Sentences, fences and faults need not come.
* `AttemptProvider`: one weak fairness over everything that can run: as long as some
  task, Pipecat queue or worker thread can go on, one of them does.  That is less
  than the event loop and the kernel give, and it is enough because every one of
  their steps uses something up.  The stall timer, fences, faults and turns need not
  come.
* TurnGate, VoiceInput, ConversationBudget, ConversationMemory and UiHost state
  safety only.

## 6. What is proved

The theorems hold for every value of the constants that the named assumptions
admit (positive bounds, finite sets, the ordering the constructors of policy and
ring insist on; `RowsAreSettled` also assumes a usable encoder, see section 7).
Each module proves that the initial states satisfy an inductive invariant, that
every action preserves it with one lemma per action or group, and concludes the
property.  Invariants were checked with TLC on the instances of section 3 before
they were proved.

**GenerationCoordinatorProofs**: `TypeCorrect`, `FencesNeverRefuse`, `TeardownOrder`
(`FenceOrder`), `SpeechSurvivesBargeIn`, `TeardownComplete` (`Settled`),
`ProposalsDie` (`ProposalsFenced`), `EventsOrdered`, and the refinement
`ImplementsFence` (`FenceSpec`).  None is inductive alone; `IInv` adds

* `LockOrder`: the queue is strictly increasing and never ahead of the counter.
  Without it, serving the head could move a fence backwards.
* `StopProgress`, `SttProgress`, `GateProgress`: for each fence, which stages are
  before it and which after it; together they say exactly how far the holder's
  teardown has come.
* `NewestLast`: the last caller in the queue made the current generation, unless
  it was aborted.  `Settled` rests on it.
* `HistoryBehind`: finished cancellations are older than all queued ones.

**AudioProofs, the sink**: `NobodySleepsForNothing` (`NoLostWakeup`), `StoppedIsPurged`
(`PurgeComplete`) and `TrueMeansPlayed` (`DrainMeansPlayed`), for any capacity and
number of drainers.  For the first, `IInv` adds that counters are naturals and that
whoever waits in `drain()` waits for a generation that has one; a counter that
reaches zero wakes everyone who sleeps for it in the same step.  For the others,
`PlayInv` adds that the counter of a generation covers what is queued or with the
device and, without a failure, is exactly what the device has not taken yet
(`Balanced`), and that the teardown lags behind the coordinator by less than the
failures remembered (`LagBounded`; the model assumes this in `Advance`, the engine has
far fewer suspended cancels than the 128 failures it remembers): with as many
generations to stop as failures remembered, the oldest failure could be forgotten before
its generation is stopped, and `drain()` would say True of it.  The counting rests on
lemmas about positions in the queue that a purge keeps, proved by taking a smallest
counterexample.

**AudioProofs, pump and gate**: `LossesHaveOneCause` (`OnlyThresholdDropLoses`),
`CapturesAreHonest` (`CaptureHonest`), `RefusalsHaveReasons` (`DropsExplained`) and
`CancelsDoNotSplice` (`NoFencedSplice`), for every window, threshold, ring, queue and
bound.  `InputInv` consists of

* the gate on its own (`GateInv`): speech being confirmed has not lasted through the
  threshold and its onset is still in the ring (`Confirming`, which needs
  `CapacityAssumption`, what `VoiceTurnGate.__init__` demands of the ring), and an
  utterance reaches up to the next window and lacks exactly `slack` samples
  (`Capturing`);
* the fences (`Fencing`): callers wait in the order of their generations, and the only
  unserved barge-in is the one the pump waits for;
* the stamps (`Stamps`): queued spans carry generations that do not decrease, except
  behind a rebuild that stamped ahead of its fences, and what is carried over is always
  the generation before the gate's.  The exceptions are exactly the reasons
  `DropsExplained` allows;
* the timelines (`Epochs`): every queued span is of the latest one, and a rebuild that
  was part of a cancel finds the gate reset.

Two details came out of trying the proof: a cut at the length bound can hide a hole in the
capture (now a conjunct of `CaptureHonest`), and a rebuild during queued fences makes the
stamps go back (now the reason "regressed").

**VoiceSessionProofs**: `CancelledTurnsLeaveNothing` (`StaleTurnsFrozen`, a property
of every step), `RowsAreSettled` (`RowsSettled`) and `FencesMeet` (`FencesSettled`).
`IInv` adds that a sentence is only spoken into a turn of its own generation
(`IntoOwnGeneration`, the guard of `_on_llm_frame`) and how the row follows the task
(`RowsFollow`).  For the fences, `FenceInv` says that the gate is behind the counter by
exactly the callers that wait, in order.  The same invariant proves `ImplementsFence`
(`FenceSpec`): to STT and to the gate the session's reduced teardown looks as the
coordinator's own does, one counter that advances and a side that catches up, so both
modules keep the one abstract promise.

**ConversationBudgetProofs**: `LockHolds` (`BelowLock`), `BillIsCovered`
(`SpendCovered`) and `LedgerIsDurable` (`DurableExact`), for any turns, prices,
thresholds and bills: nothing is assumed of what a bill may be above its reservation.
The ledger sums over sets, so the first part proves that such sums do not
depend on the order in which they are taken and what adding or moving one element does
to them; the second (`Money`) says what reserving and settling do to memory, rows and
bill, where a charge above its reservation raises total and `Overrun` alike; the third
(`Tidy`) follows the turns, each of whose attempts is active exactly
until it is settled or given up.

**ConversationMemoryProofs**: `MemoriesAreEarned` (`CommitEarned`),
`AnswersShowTheirMemories` (`LinksExact`), `TitlesAreWrittenOnce` (`TitleOnce`),
`AffinityAddsUp` (`AffinityExact`) and `SummariesCoverOnce` (`SummaryExact`).
`IInv` relates the proposal host, the running commit and the rows: what waits
belongs to the current generation and to a turn that still answers or whose commit
was cut (`ProposalsOpen`), a commit takes from the host and empties it before its
last stage (`CommitOpen`), a memory gets only into prompts of turns begun after its own
(`RetrievedEarlier`), and links are placed only by a commit at its last stage
(`LinksPlaced`).  `TasksFollowRows` adds that whoever answers is a peer of every younger
turn: a commit therefore takes only proposals of the committing turn, of its peers, or of
one whose own commit was cut.  For the summaries, `Summed` adds that, as long as none of a
chunk held across the await is summarized, there are more turns than the window from the
chunk's first one on, whatever completes before it meanwhile (`Chunked`).

**UiHostProofs**: `CallsKeepTheirThread` (`CallKeepsThread`) and `EnginesAreAccounted`
(`EnginesAccounted`).  `IInv` adds where the builder of an engine can be at each
stage of the host's life, and that `set_microphone` binds the thread the engine is
in.  `PagesConverge` (`PageConverges`) rests on `PageInv`: nothing is queued before there
is an engine (`NothingYet`); as long as no drop is uncorrected, or what was dropped is in
the clean snapshot on its way (`Whole`), each frame is a later state of the store than
what the page shows (`Flow`), and what a frame or the page does not show yet is queued
behind it (`Follows`, `PageOk`), so that a page for which nothing is queued shows it all.
Another part proves `FlushIsExplained` of EngineStreams (`FlushExplained`).
The flag is raised before the executor sees the job that lowers it, so the invariant is
about the queue: such a job leaves it only by lowering the flag or as the refused
rebuild the property names.  The other starting point of the run, in a call, satisfies
the same invariant.

**AttemptProviderProofs**: `WeightsAreReleased` (`WeightsReleased`).  A worker is
spawned by whoever asks for a completion, so the invariant follows the order of
`close()`: the session leaves no turn and no title (`SessionGone`), the provider no
context for the service (`ProviderGone`), and only then is the worker ended
(`WorkerGone`).

The second part proves `WordsAreOwn` (`OwnWords`) and `UsageIsKept` (`UsageKept`), for any
number of turns, titles, tokens and faults, and for turns that begin whenever they like.
Four hops separate the model's tokens from the answer that hears them, each with another
idea of whose they are, so `StreamInv` follows them from hop to hop.  Two of its parts
always hold:

* `HostFence`: what the worker has read, queued or said carries a generation the host
  has asked for, and what carries the current one answers the holder of the lock.  So
  the host can drop by number alone (`llm/local_qwen.py`), and a title gets no words of
  an answer.
* `PipeTidy`: a turn is asked for once, is in one place of the pipeline at a time, and
  the frame that ends its answer is the last of it.

Until a turn overtakes an attempt, `Stream` holds besides:

* `OwnStream`, `QueueTidy`: what is upstream of the collector or in its queue is the live
  attempt's, unless a stalled attempt displaced the stream; only with these two is the
  collector's tag, which knows the live attempt and not the frame's, right.
* `OneByOne`, `OverIsSpent`, `Fencing`: how an attempt comes to be the only one.  A turn
  that is over has nothing on its way (it saw the last frame, or drained), and one that
  drains has an interruption behind its context (`Cleared`).  When nobody reads, drains or
  is awaited any more, what a fence interrupted is gone.
* `Heard`, `Metered`: what the turns were told, and where usage still is that has passed
  the collector and is not settled.

From the first overtaking on, `Mixed` holds instead: everything upstream, in the queue or
read is the overtaken attempt's or a later one's (`Displaced`).  Attempts before it were
over with nothing on its way, as `Stream` says of the moment before, so what they heard
and settled stays right.  An overtaking is therefore the only way besides a stall in which
words or usage go astray, which is what the two properties say.  Every step of a turn is
an instance of one lemma (`TurnSteps`) about a turn that becomes something else.

**SpeechBackendsProofs**: `ThePrivateVoiceSaysItsOwn` (`GptSpeaksItsOwn`), for any
number of tasks, sentences, chunks and faults.  Since a frame names no sentence,
`IInv` describes what is on its way: one task at a time is inside the private
backend (`OneReader`), a live worker is the connected one (`Connected`), and everything
of the current generation in command pipe, worker and output pipe is that of the
sentence being read, or of one that was left in the middle (`Own`).  A reader leaves
before the last word because its generation passed, because it kills the worker, or
because `submit()` refused its chunk, which it also does in the current generation after
a failed write.  In the last case the first chunk has been heard, so no leftover is a
first chunk (`LeftOver`, `Clean`) and all leftovers come before what the next reader
asked for (`Ordered`): a reader who expects the first chunk notices
(`tts/gpt_sovits.py:367-371`).  The frame that ends a sentence is the last of it
(`InTurn`), and it is asked for once (`AskedOnce`).  `Said` relates
each sentence in progress to what was heard of it.

**Only model-checked**

Every invariant, action property and refinement that a passing run checks is a theorem
above.  What remains with TLC:

* Liveness (`TeardownsEnd`, `DrainReturns`, `TurnsEnd`, `BusyEnds`, `Settles`,
  `CommandReturns`, `SentencesEnd`, `TurnServed`, `FencedStreamEnds`): fairness and
  `ENABLED` are outside what the proof system supports.  `TurnServed` says that cancel,
  lock and host generation do not block each other; since titles are finite it does not
  measure how long a turn waits, and a missing preemption would not break it.
  `NoFencedSplice` speaks of recoveries that are part of a cancel only.

Theorems that need induction over data are proved without the library's induction
schemes, which take an operator as a parameter: a smallest counterexample of a
well-founded order is a first-order argument.  What a recursive definition computes for
every input is not among the statements here.

## 7. Where the code and its own words disagree

Two have runs of their own.

`speech_doc`: AVSpeechAdapter's docstring promises
"generation-fenced PCM async iteration" (`tts/avspeech.py:173`), but the native
callback looks up the current Python callback when a buffer arrives (line 77).  A
buffer scheduled for an abandoned sentence is handed to the next one: it begins with
a piece of the cancelled sentence, and the cancelled one's final empty buffer ends
it early.

`streams_doc`: `docs/project-decisions.md:176` says that the default devices are watched
by polling and that a change cancels the generation and then rebuilds.  Recovery and watch
each read the defaults while they change and change back; a command opens the input
between the two reads, a refused rebuild leaves it open, recovery takes the microphone
back without closing the stream, and the next `set_microphone(True)` keeps whatever
stream is open (`audio/coreaudio.py:457`).  The watch then sees the default it knows, and
input stays on a device that is not the default.  The property was believed to hold: it
takes five events, more than the bound of the run that checked it.

The others are reproduced by the models; the properties state what holds in spite
of them.

**Input and session**

* Confirmation measured against 300 ms is suddenly measured against 100 ms when
  Lune falls silent; the samples in between are in neither part of the capture,
  which is refused (`pipeline/turn_gate.py:198`, `pipeline/contracts.py:78`).
  `OnlyThresholdDropLoses` says nothing else loses an utterance.
* A second barge-in overwrites the one interrupted generation the gate remembers,
  so it refuses queued speech of the first.
* A rebuild during a recovery stamps spans with the counter although fences still wait
  (`engine.py:352`); the next fence moves the stamp back, so spans recorded later carry
  an older generation and are refused ("regressed" in `DropsExplained`).
* A capture cut at the length bound may lack the samples of such a confirmation without
  being refused: the cut hides the hole.
* A recovery without a cancel restarts the cursor, which may land exactly where
  the gate expects the next span.
* The device poll writes the idle state over a response in progress; a typed
  message is then not a barge-in (`pipeline/session.py:236` against 267).  A transcript
  that arrives while a turn of its generation answers begins one beside it too.
* Two turns of one generation share `_active_turn` and the proposals of the generation:
  sentences and tool calls of the older one are taken for the younger one's
  (`session.py:580`), and the first that completes commits what both proposed
  (`memory/proposals.py:112-113`), also if the other then fails or is cancelled.
  `CommitEarned` says that memories of a turn that did not earn them come about in no
  other way.  If the younger one completes and is summarized first, the summary has
  passed the older one, which is then never summarized (`LeftBehind` in `SummaryExact`).
* Without the local encoder, committing a proposal raises out of the turn task and
  its row stays pending (`session.py:522`; `enricher.py:40` and `session.py:440`
  mean otherwise).  `EncoderReady = FALSE` in the session's instance shows it.
  `RowsSettled` and its theorem assume the encoder, so a commit that raises is outside
  them; what it leaves in the database is in ConversationMemory (`CommitFails`).
* `submit()` also refuses chunks of a generation whose write failed; the overflow
  flag set before is never cleared, so the session takes that for an overflow.
* The watchdog writes "error" after its cancel whatever turn started meanwhile
  (`session.py:409`), and `budget_locked` is never cleared, not even by a new month
  (`session.py:487`).

**Budget and attempts**

* "Only one attempt is in flight at a time, so frames are tagged with the live attempt as
  they leave the service" (`pipeline/pipecat_provider.py:67`).  After the 15 s stall no
  interruption is sent (line 153): the completion goes on and its output is tagged with
  the next attempt, which ends with the stalled one's end and leaves its own answer to
  the turn after it, and so on until a cancellation, or an answer cut short, clears the
  pipeline.  A statement of `OwnWords` that excepted only the words of stalled turns held
  for two turns and failed for three.
* The same claim fails without a stall.  A typed message waits for a cancel of its own
  only, and counts as no barge-in once any other cancel has moved the counter
  (`pipeline/session.py:190-194`, 277).  So text typed while a spoken barge-in, a device
  change or the watchdog is still stopping playback and speech begins its attempt at once.
  The provider hook then finds a provider of a later generation and returns
  (`pipecat_provider.py:204`): the old completion is not interrupted and is heard as the new
  turn's answer, and the fenced reader drops frames that are not its own (line 162) until
  it or the stall timer ends it.  If the attempt begins after the hook has, the hook's
  drain drops the new attempt's frames, usage included (lines 267-278).  `Begin` has no
  guard against any of this; `OwnWords`, `UsageKept` and `FencedStreamEnds` except what an
  overtaking displaces and show that, besides a stall, nothing else does.
* "Reserve against a worst-case character count; over-reserving is safe"
  (`pipeline/session.py:472`).  The estimate counts neither persona nor tool schemas and is
  clipped at `max_input_tokens` (line 478), while a message may have 20,000 characters
  (line 273) and the actual cost is not clamped (`llm/budget.py:221-234`).  A bill can
  exceed its reservation and the month's total the lock; no admission reaches it, and it is
  passed by no more than the reported excess (`BelowLock`).  Of an attempt that ends
  without a usage report the ledger charges the reservation, so an excess of that one
  nothing in the program knows of.
* An attempt whose stream raises, or whose task is cancelled, is never settled
  (`llm/streaming.py:208` against README.md:64-65) and a restart forgets its
  reservation.  `SpendCovered` says what still holds.
* The usage frame at which a reader notices the fence is dropped, although
  `interrupt_and_drain` is to "stop this generation and keep its usage".
* After end of file the worker is never respawned, though `local_qwen.py:168` says
  the host can.
* A cancel between the two reads of one frame in `_receive` leaves the host in the
  middle of a frame.
* A turn can queue behind background work in the tick in which the lock is handed
  over (comment at `local_qwen.py:144`).
* Turns of one generation share one queue; a turn fenced while it awaits `start()`
  begins its attempt after the newer turn's.
* A startup timeout leaves the spawned worker alive with no composition to close
  it (`llm_spike/worker.py:145`; comment at `engine.py:562`).

**Voices**

* An abandoned sentence leaves frames or a busy thread; the next one meets
  `protocol_error` or `worker_busy`, which is counted as a failure, so two
  barge-ins can open the breaker.
* A cancel that arrives during the lock wait, the launch or the retirement is a
  mark that the sentence itself then discards: a failing launch still falls back
  to the system voice for a cancelled sentence, and a worker that hangs after it
  keeps the lock.  `SentencesEnd` is therefore about fences that told the worker.
* An `error` frame of a cancelled sentence is counted as a failure
  (`tts/gpt_sovits.py:379` before 383).
* Overlapping sentences of one generation overwrite each other's entry in the
  router (`tts/router.py:45`).

**Streams**

* A failed `_rebuild_sync` leaves the flush flag raised, and later writes of the
  same format are dropped silently until the output is closed; `FlushExplained`
  excepts this one job, so it does not judge it, and shows that there is no other.
* `_write_sync` opening the output lowers a flush raised for what was before it.
* After `set_microphone(True)` failed on the permission timeout, the watch's own
  pending request can open the input for one poll.
* A failed recovery leaves the input open until the next tick; a failing
  `refresh_devices` undoes nothing (`engine.py:219-222`; EngineStreams and VoiceSession
  keep the microphone in that case).

**UI**

* `refresh_setup` leaks an engine whose `start()` raises, and so does shutdown
  during `start()` (`orphans` in UiHost).
* After an event the whole current snapshot becomes the baseline, so an earlier
  change that no event carries is not sent outside a call, although the docstring
  says the client was told.
* After an overflow the corrective snapshot is followed by older queued events.
* `_select_thread` sets the active thread before the engine refuses, and a failure
  of the device watch leaves the call shown as active.

## 8. Not modelled

The Silero network (its verdict is an input); prompt assembly, retrieval ranking,
embeddings and text cleaning (pure functions); configuration, key chain, readiness
checks and command line (start-up without concurrency); the experiments and smoke
tests (not part of the running program); the desktop process handoff and rendering.
Inside the modelled components: profile, persona and voice preferences of the UI,
SQLite migrations and file permissions, frame parsing of the IPC server, worker
sandbox profiles, playback overflow's own cancel and the session's close in
SpeechBackends, the partial-window buffer of the detector, the speech-end clock
and timing reports.

## 9. Plan

* Overlapping sentences of one generation in SpeechBackends, as two turns of a
  generation produce them, and, once the code decides what should happen to a turn
  typed during a cancel, AttemptProvider's properties without their exceptions for
  overtakings.
* A property about the watchdog's late "error", the overflow flag and the budget
  lock, which today are only written down.
* A statement that the fence stages of AttemptProvider and SpeechBackends, and what
  VoiceSession's two fences do beyond GenerationFence, are abstractions of
  GenerationCoordinator.
