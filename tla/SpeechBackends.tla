--------------------------- MODULE SpeechBackends ---------------------------
(***************************************************************************)
(* One sentence on its way to a voice: tts/router.py choosing a backend,   *)
(* tts/gpt_sovits.py with its breaker (tts/circuit.py) and its worker      *)
(* process (tts/gpt_worker.py), tts/avspeech.py with the pump of           *)
(* tts/runloop.py, the consumer VoiceSession._speak, and the coordinator's *)
(* fence, which cancels a generation while all of them are at work.        *)
(* A request stands for one sentence; a chunk is the request it was        *)
(* synthesized for and its position.                                       *)
(***************************************************************************)
EXTENDS Integers, Sequences, FiniteSets

CONSTANTS
  Speakers,     \* turn tasks inside _speak
  MaxGen,       \* bound on the coordinator's generations
  MaxRequests,  \* bound on the sentences spoken
  Chunks,       \* PCM chunks of one sentence
  PipeCapacity, \* frames the worker's stdout takes before a write blocks
  AvCapacity,   \* AVSpeechAdapter(queue_capacity=...)
  Threshold,    \* TTSCircuitBreaker.failure_threshold
  MaxTrouble    \* bound on worker faults: hangs, crashes, errors, failed launches

ASSUME SpeechAssumption ==
  /\ IsFiniteSet(Speakers) /\ MaxTrouble \in Nat
  /\ {MaxGen, MaxRequests, Chunks, PipeCapacity, AvCapacity, Threshold} \subseteq Nat \ {0}

VARIABLES
  gen,      \* GenerationCoordinator._generation_id
  fence,    \* the tts stage of a running cancel()
  preferred,\* the router's preferred backend
  active,   \* TTSRouterService._active
  asked,    \* sentences begun so far
  spk,      \* each turn task's _speak and the generators below it
  gpt,      \* GPTSoVITSBackend and its circuit breaker
  worker,   \* the worker process: command queue, output pipe, synthesis thread
  av,       \* AVSpeechAdapter
  synth,    \* AVSpeechSynthesizer, the driver's callback, callbacks on their way
  heard,    \* history: what each request had accepted as its audio
  whole,    \* history: requests _speak went on to store as spoken
  trouble   \* history: worker faults so far

vars == <<gen, fence, preferred, active, asked, spk, gpt, worker, av, synth, heard, whole, trouble>>

Gens     == 1..MaxGen
Requests == 1..MaxRequests
Voices   == {"gpt", "av"}
Chunk(voice, r, n) == [voice |-> voice, req |-> r, n |-> n]
Resting  == [at |-> "idle", gen |-> 0, req |-> 0, voice |-> "none", seq |-> 0]
NoFence  == [at |-> "idle", prev |-> 0, req |-> 0]
NoJob    == [gen |-> 0, req |-> 0, next |-> 0, stop |-> FALSE, over |-> FALSE]
NoWorker == [n |-> 0, alive |-> FALSE, hung |-> FALSE, in |-> <<>>, out |-> <<>>, job |-> NoJob]

\* A session starts with no failure counted; StartedAfter(n) is one whose first n
\* launches failed.
StartedAfter(n) ==
  /\ gen = 1 /\ fence = NoFence /\ asked = 0
  /\ preferred \in Voices
  /\ active = [g \in Gens |-> "none"]
  /\ spk = [s \in Speakers |-> Resting]
  /\ gpt = [conn |-> 0, restart |-> FALSE, gen |-> 0, cancelled |-> {}, failures |-> n,
            open |-> FALSE]
  /\ worker = NoWorker
  /\ av = [gen |-> 0, owner |-> 0, queue |-> <<>>, cancelled |-> {}]
  /\ synth = [callback |-> 0, utterances |-> <<>>, puts |-> <<>>]
  /\ heard = [r \in Requests |-> <<>>] /\ whole = {} /\ trouble = 0
Init == StartedAfter(0)
-----------------------------------------------------------------------------
\* Who is inside `async with self._lock` of either backend, and who waits for it.
InGpt(s) == spk[s].voice = "gpt" /\ spk[s].at \in {"launch", "reading", "chunk", "gone", "retire"}
InAv(s)  == spk[s].voice = "av" /\ spk[s].at \in {"reading", "chunk", "gone"}
GptFree == \A s \in Speakers : ~InGpt(s)
AvFree  == \A s \in Speakers : ~InAv(s)
Waiting(voice) == {s \in Speakers : spk[s].at = "lock" /\ spk[s].voice = voice}
\* What the host and the worker tell each other; a PCM frame names no request, `req`
\* is there for the properties only.
Command(kind, g, r) == [kind |-> kind, gen |-> g, req |-> r]
Pcm(job)   == [kind |-> "pcm", gen |-> job.gen, req |-> job.req, seq |-> job.next]
Done(job)  == [kind |-> "done", gen |-> job.gen, req |-> job.req, seq |-> job.next,
               cancelled |-> job.stop]
Error(job) == [kind |-> "error", gen |-> job.gen, req |-> job.req]
Busy       == [kind |-> "busy"]
WorkerUp == gpt.conn # 0 /\ gpt.conn = worker.n /\ worker.alive

\* A sentence ends, however: its generators finish and the router forgets its backend.
Ends(s) == /\ spk' = [spk EXCEPT ![s] = Resting]
           /\ active' = [active EXCEPT ![spk[s].gen] = "none"]

\* GPTSoVITSBackend.synthesize from its lock to the first receive: an old cancel of
\* the generation is forgotten and a live worker is used, or one is launched.
GptSends(s, g, r) ==
  /\ WorkerUp /\ ~gpt.open
  /\ gpt' = [gpt EXCEPT !.gen = g, !.cancelled = @ \ {g}]
  /\ worker' = [worker EXCEPT !.in = Append(@, Command("synthesize", g, r))]
  /\ spk' = [spk EXCEPT ![s] = [at |-> "reading", gen |-> g, req |-> r, voice |-> "gpt", seq |-> 0]]
GptLaunches(s, g, r) ==
  /\ ~WorkerUp /\ ~gpt.open
  /\ gpt' = [gpt EXCEPT !.cancelled = @ \ {g}]
  /\ spk' = [spk EXCEPT ![s] = [at |-> "launch", gen |-> g, req |-> r, voice |-> "gpt", seq |-> 0]]
  /\ UNCHANGED worker

\* The driver: the callback is replaced at once, whoever's buffers are still to come.
Utters(r) == [synth EXCEPT !.callback = r, !.utterances = Append(@, [req |-> r, next |-> 1])]
Silenced  == [synth EXCEPT !.utterances = <<>>]

\* AVSpeechAdapter.synthesize up to its first queue.get, with a fresh queue.
AvStarts(s, g, r) ==
  /\ av' = [gen |-> g, owner |-> r, queue |-> <<>>, cancelled |-> av.cancelled \ {g}]
  /\ synth' = Utters(r)
  /\ spk' = [spk EXCEPT ![s] = [at |-> "reading", gen |-> g, req |-> r, voice |-> "av", seq |-> 0]]
Queues(s, g, r, voice) ==
  spk' = [spk EXCEPT ![s] = [at |-> "lock", gen |-> g, req |-> r, voice |-> voice, seq |-> 0]]
EntersAv(s, g, r) ==
  IF AvFree /\ Waiting("av") \ {s} = {} THEN AvStarts(s, g, r)
                                  ELSE Queues(s, g, r, "av") /\ UNCHANGED <<av, synth>>

\* TTSRouterService.synthesize when the GPT generator raised with `code`: the whole
\* sentence restarts on the system voice, unless some of it was heard or cancelled.
MayFallBack(r, code) == code # "cancelled" /\ heard[r] = <<>>
GptRaises(s, g, r, code) ==
  IF MayFallBack(r, code)
  THEN active' = [active EXCEPT ![g] = "av"] /\ EntersAv(s, g, r)
  ELSE Ends(s) /\ UNCHANGED <<av, synth>>
GptBegins(s, g, r) ==
  \/ (GptSends(s, g, r) \/ GptLaunches(s, g, r)) /\ UNCHANGED <<av, synth>>
  \/ /\ gpt.open
     /\ gpt' = [gpt EXCEPT !.cancelled = @ \ {g}]
     /\ active' = [active EXCEPT ![g] = "av"] /\ EntersAv(s, g, r)
     /\ UNCHANGED worker

\* _speak asks the router for the next sentence of the current generation, whose
\* turns begin when the cancel that opened it has returned.
Speak(s) ==
  LET r == asked + 1 IN
  /\ spk[s].at = "idle" /\ asked < MaxRequests /\ fence = NoFence
  /\ asked' = r
  /\ \/ /\ preferred = "gpt" /\ GptFree /\ Waiting("gpt") = {}
        /\ GptBegins(s, gen, r)
        /\ ~gpt.open => active' = [active EXCEPT ![gen] = "gpt"]
     \/ /\ preferred = "gpt" /\ ~(GptFree /\ Waiting("gpt") = {})
        /\ Queues(s, gen, r, "gpt") /\ active' = [active EXCEPT ![gen] = "gpt"]
        /\ UNCHANGED <<gpt, worker, av, synth>>
     \/ /\ preferred = "av"
        /\ EntersAv(s, gen, r) /\ active' = [active EXCEPT ![gen] = "av"]
        /\ UNCHANGED <<gpt, worker>>
  /\ UNCHANGED <<gen, fence, preferred, heard, whole, trouble>>

\* The waiter of a released lock goes on.
GptLock(s) ==
  /\ s \in Waiting("gpt") /\ GptFree
  /\ GptBegins(s, spk[s].gen, spk[s].req)
  /\ ~gpt.open => UNCHANGED active
  /\ UNCHANGED <<gen, fence, preferred, asked, heard, whole, trouble>>
AvLock(s) ==
  /\ s \in Waiting("av") /\ AvFree
  /\ AvStarts(s, spk[s].gen, spk[s].req)
  /\ UNCHANGED <<gen, fence, preferred, active, asked, gpt, worker, heard, whole, trouble>>
-----------------------------------------------------------------------------
(* GPT-SoVITS: the breaker, the launch and the receive loop.               *)
RecordFailure(b) ==
  IF b.open THEN b
  ELSE [b EXCEPT !.failures = @ + 1, !.open = b.failures + 1 >= Threshold]
RecordRebuildFailure(b) ==
  [b EXCEPT !.failures = IF @ + 1 > Threshold THEN @ + 1 ELSE Threshold, !.open = TRUE]
RecordSuccess(b) == IF b.open THEN b ELSE [b EXCEPT !.failures = 0]

\* A cancel during the launch only left its mark: the sentence is sent all the same.
LaunchReturns(s) ==
  /\ spk[s].at = "launch"
  /\ gpt' = [gpt EXCEPT !.conn = worker.n + 1, !.restart = FALSE, !.gen = spk[s].gen]
  /\ worker' = [NoWorker EXCEPT !.n = worker.n + 1, !.alive = TRUE,
        !.in = <<Command("synthesize", spk[s].gen, spk[s].req)>>]
  /\ spk' = [spk EXCEPT ![s].at = "reading"]
  /\ UNCHANGED <<gen, fence, preferred, active, asked, av, synth, heard, whole, trouble>>
LaunchFails(s) ==
  /\ spk[s].at = "launch" /\ trouble < MaxTrouble
  /\ trouble' = trouble + 1
  /\ gpt' = IF gpt.restart THEN RecordRebuildFailure(gpt) ELSE RecordFailure(gpt)
  /\ GptRaises(s, spk[s].gen, spk[s].req, "backend_unavailable")
  /\ UNCHANGED <<gen, fence, preferred, asked, worker, heard, whole>>

\* _worker_failed: counted, disowned and terminated; the error is raised after that.
Retires(s) ==
  /\ gpt' = [RecordFailure(gpt) EXCEPT !.restart = @ \/ gpt.conn # 0, !.conn = 0]
  /\ worker' = [worker EXCEPT !.alive = FALSE]
  /\ spk' = [spk EXCEPT ![s].at = "retire"]
  /\ UNCHANGED <<active, av, synth, heard, whole>>
\* The generator raised "cancelled": neither counted nor a reason to fall back.
RaisesCancelled(s) ==
  /\ gpt' = [gpt EXCEPT !.gen = 0] /\ Ends(s)
  /\ UNCHANGED <<av, synth, heard, whole>>
ProtocolFault(s) ==
  IF spk[s].gen \in gpt.cancelled THEN RaisesCancelled(s) /\ UNCHANGED worker ELSE Retires(s)

\* A PCM frame carries a generation and a sequence number, and no request.
\* Mutant: only a repeated chunk is refused.
PcmAnyLater(f, s) == f.seq >= spk[s].seq
PcmExpected(f, s) == f.gen = spk[s].gen /\ f.seq = spk[s].seq
Answers(f, s)     == f.kind \in {"done", "error"} /\ f.gen = spk[s].gen /\ f.req = spk[s].req
Reading(s) == spk[s].at = "reading" /\ spk[s].voice = "gpt"
GptFrame(s) == Reading(s) /\ worker.out # <<>>
Taken == [worker EXCEPT !.out = Tail(@)]

\* The consumer looks at the fence before it submits the chunk, and leaves the
\* generator for the event loop to close when the generation has passed.
Hears(s, chunk) ==
  IF spk[s].gen = gen
  THEN /\ spk' = [spk EXCEPT ![s].at = "chunk", ![s].seq = @ + 1]
       /\ heard' = [heard EXCEPT ![spk[s].req] = Append(@, chunk)]
  ELSE spk' = [spk EXCEPT ![s].at = "gone"] /\ UNCHANGED heard

GptReceives(s) ==
  /\ GptFrame(s)
  /\ LET f == Head(worker.out) IN
     \/ /\ f.kind = "pcm" /\ PcmExpected(f, s) /\ spk[s].gen \notin gpt.cancelled
        /\ Hears(s, Chunk("gpt", f.req, f.seq))
        /\ worker' = Taken /\ UNCHANGED <<active, gpt, av, synth, whole>>
     \/ /\ f.kind = "pcm" /\ PcmExpected(f, s) /\ spk[s].gen \in gpt.cancelled
        /\ spk' = [spk EXCEPT ![s].seq = @ + 1]
        /\ worker' = Taken /\ UNCHANGED <<active, gpt, av, synth, heard, whole>>
     \/ /\ IF f.kind = "pcm" THEN ~PcmExpected(f, s) ELSE
             ~Answers(f, s) \/ (f.kind = "done" /\ f.seq # spk[s].seq)
        /\ IF spk[s].gen \in gpt.cancelled
           THEN RaisesCancelled(s) /\ worker' = Taken ELSE Retires(s)
     \/ /\ Answers(f, s) /\ f.kind = "error"
        /\ Retires(s)
     \/ /\ Answers(f, s) /\ f.kind = "done" /\ f.seq = spk[s].seq
        /\ f.cancelled \/ spk[s].gen \in gpt.cancelled
        /\ RaisesCancelled(s) /\ worker' = Taken
     \/ /\ Answers(f, s) /\ f.kind = "done" /\ f.seq = spk[s].seq
        /\ ~f.cancelled /\ spk[s].gen \notin gpt.cancelled
        /\ gpt' = [RecordSuccess(gpt) EXCEPT !.gen = 0]
        /\ Ends(s) /\ worker' = Taken
        /\ whole' = IF spk[s].gen = gen THEN whole \union {spk[s].req} ELSE whole
        /\ UNCHANGED <<av, synth, heard>>
  /\ UNCHANGED <<gen, fence, preferred, asked, trouble>>

\* The pipe of a dead worker is read to its end; then worker_eof.
GptEof(s) ==
  /\ Reading(s) /\ worker.out = <<>> /\ ~worker.alive
  /\ ProtocolFault(s)
  /\ UNCHANGED <<gen, fence, preferred, asked, trouble>>
RetireEnds(s) ==
  /\ spk[s].at = "retire"
  /\ gpt' = [gpt EXCEPT !.gen = 0]
  /\ GptRaises(s, spk[s].gen, spk[s].req, "failed")
  /\ UNCHANGED <<gen, fence, preferred, asked, worker, heard, whole, trouble>>
-----------------------------------------------------------------------------
(* The consumer, with either voice.                                        *)
\* PlaybackSink.submit may wait; it refuses a chunk whose generation was stopped
\* meanwhile or has failed to play, and a full queue: _speak then returns in the
\* middle of the generator, be its generation over or not.
SubmitReturns(s) ==
  /\ spk[s].at = "chunk"
  /\ \E at \in {"reading", "gone"} : spk' = [spk EXCEPT ![s].at = at]
  /\ UNCHANGED <<gen, fence, preferred, active, asked, gpt, worker, av, synth, heard, whole, trouble>>
\* The abandoned generators run their finally clauses, and nothing more: neither
\* the worker nor the synthesizer is told.
Disowned == [av EXCEPT !.gen = 0, !.owner = 0, !.queue = <<>>]
GeneratorClosed(s) ==
  /\ spk[s].at = "gone"
  /\ Ends(s)
  /\ \/ InGpt(s) /\ gpt' = [gpt EXCEPT !.gen = 0] /\ UNCHANGED av
     \/ InAv(s) /\ av' = Disowned /\ UNCHANGED gpt
  /\ UNCHANGED <<gen, fence, preferred, asked, worker, synth, heard, whole, trouble>>
-----------------------------------------------------------------------------
(* The worker process: a reader of commands and one synthesis thread.      *)
Outside == <<gen, fence, preferred, active, asked, spk, gpt, av, synth, heard, whole>>
CanWrite == worker.alive /\ Len(worker.out) < PipeCapacity
Working  == CanWrite /\ worker.job # NoJob /\ ~worker.hung /\ ~worker.job.over

WorkerReads ==
  /\ CanWrite /\ worker.in # <<>>
  /\ LET c == Head(worker.in) IN
     worker' = [worker EXCEPT !.in = Tail(@),
       !.job = CASE c.kind = "synthesize" /\ @ = NoJob ->
                      [NoJob EXCEPT !.gen = c.gen, !.req = c.req]
                 [] c.kind = "cancel" /\ @ # NoJob /\ @.gen = c.gen -> [@ EXCEPT !.stop = TRUE]
                 [] OTHER -> @,
       !.out = IF c.kind = "synthesize" /\ worker.job # NoJob
               THEN Append(@, Busy) ELSE @]
  /\ UNCHANGED <<Outside, trouble>>
WorkerSpeaks ==
  /\ Working /\ ~worker.job.stop /\ worker.job.next < Chunks
  /\ worker' = [worker EXCEPT !.job.next = @ + 1,
        !.out = Append(@, Pcm(worker.job))]
  /\ UNCHANGED <<Outside, trouble>>
\* The last frame is written by the thread, which is alive for a moment after it.
WorkerFinishes ==
  /\ Working /\ (worker.job.stop \/ worker.job.next = Chunks)
  /\ worker' = [worker EXCEPT !.job.over = TRUE,
        !.out = Append(@, Done(worker.job))]
  /\ UNCHANGED <<Outside, trouble>>
ThreadEnds ==
  /\ worker.alive /\ worker.job.over
  /\ worker' = [worker EXCEPT !.job = NoJob]
  /\ UNCHANGED <<Outside, trouble>>
WorkerTrouble ==
  /\ trouble < MaxTrouble /\ worker.alive
  /\ trouble' = trouble + 1
  /\ \/ worker' = [worker EXCEPT !.alive = FALSE]
     \/ worker.job # NoJob /\ ~worker.hung /\ worker' = [worker EXCEPT !.hung = TRUE]
     \/ /\ Working
        /\ worker' = [worker EXCEPT !.job.over = TRUE,
             !.out = Append(@, Error(worker.job))]
  /\ UNCHANGED Outside
-----------------------------------------------------------------------------
(* The system voice.  Everything runs on the event loop: the pump drains   *)
(* the run loop, whose callbacks only schedule a put.                      *)
Buffer(u) == IF u.next <= Chunks THEN Chunk("av", u.req, u.next - 1) ELSE Chunk("end", 0, 0)
PumpDelivers ==
  /\ synth.utterances # <<>> /\ synth.puts = <<>>
  /\ LET u == Head(synth.utterances) IN
     synth' = [synth EXCEPT
        !.puts = <<[queue |-> synth.callback, item |-> Buffer(u)]>>,
        !.utterances = IF u.next <= Chunks THEN <<[u EXCEPT !.next = @ + 1]>> \o Tail(@) ELSE Tail(@)]
  /\ UNCHANGED <<gen, fence, preferred, active, asked, spk, gpt, worker, av, heard, whole, trouble>>

\* put(): ignored unless its queue is the active one; a cancelled generation takes
\* nothing but an end; a full queue becomes one error and the driver is stopped.
Fits == Len(av.queue) < AvCapacity
Put ==
  /\ synth.puts # <<>>
  /\ LET p == Head(synth.puts) IN
     \/ /\ p.queue # av.owner
        /\ synth' = [synth EXCEPT !.puts = <<>>] /\ UNCHANGED av
     \/ /\ p.queue = av.owner /\ av.gen \in av.cancelled
        /\ av' = IF p.item.voice = "end" /\ av.queue = <<>> THEN [av EXCEPT !.queue = <<p.item>>] ELSE av
        /\ synth' = [synth EXCEPT !.puts = <<>>]
     \/ /\ p.queue = av.owner /\ av.gen \notin av.cancelled /\ Fits
        /\ av' = [av EXCEPT !.queue = Append(@, p.item)]
        /\ synth' = [synth EXCEPT !.puts = <<>>]
     \/ /\ p.queue = av.owner /\ av.gen \notin av.cancelled /\ ~Fits
        /\ av' = [av EXCEPT !.queue = <<Chunk("error", 0, 0)>>]
        /\ synth' = [Silenced EXCEPT !.puts = <<>>]
  /\ UNCHANGED <<gen, fence, preferred, active, asked, spk, gpt, worker, heard, whole, trouble>>

AvReceives(s) ==
  /\ spk[s].at = "reading" /\ spk[s].voice = "av" /\ av.queue # <<>>
  /\ LET item == Head(av.queue) IN
     \/ /\ item.voice \in {"end", "error"}
        /\ av' = Disowned /\ Ends(s)
        /\ whole' = IF item.voice = "end" /\ spk[s].gen = gen
                    THEN whole \union {spk[s].req} ELSE whole
        /\ UNCHANGED heard
     \/ /\ item.voice = "av"
        /\ av' = [av EXCEPT !.queue = Tail(@)]
        /\ IF spk[s].gen \in av.cancelled THEN UNCHANGED <<spk, heard>> ELSE Hears(s, item)
        /\ UNCHANGED <<active, whole>>
  /\ UNCHANGED <<gen, fence, preferred, asked, gpt, worker, synth, trouble>>
-----------------------------------------------------------------------------
(* The coordinator.  The fence moves first; playback is stopped before the *)
(* router is asked to cancel, so a sentence may see the fence long before. *)
FenceMoves ==
  /\ fence = NoFence /\ gen < MaxGen
  /\ gen' = gen + 1
  /\ fence' = [at |-> "playback", prev |-> gen, req |-> 0]
  /\ UNCHANGED <<preferred, active, asked, spk, gpt, worker, av, synth, heard, whole, trouble>>

\* AVSpeechAdapter.cancel, for the generation it is synthesizing.
AvCancel(g) ==
  /\ av' = [av EXCEPT !.cancelled = @ \union {g}, !.queue = IF av.gen = g THEN <<Chunk("end", 0, 0)>> ELSE @]
  /\ synth' = IF av.gen = g THEN Silenced ELSE synth

\* GPTSoVITSBackend.cancel up to its wait: the generation is marked, and the worker is
\* told when it is at work on that generation.
Owner(g) == CHOOSE r \in Requests : \E s \in Speakers : InGpt(s) /\ spk[s].gen = g /\ spk[s].req = r
GptCancel(g) ==
  LET marked == [gpt EXCEPT !.cancelled = @ \union {g}] IN
  \/ /\ gpt.gen # g \/ gpt.conn = 0
     /\ fence' = NoFence /\ gpt' = marked /\ UNCHANGED worker
  \/ /\ gpt.gen = g /\ gpt.conn # 0 /\ worker.alive
     /\ gpt' = marked
     /\ worker' = [worker EXCEPT !.in = Append(@, Command("cancel", g, 0))]
     /\ fence' = [fence EXCEPT !.at = "gpt", !.req = Owner(g)]
  \/ /\ gpt.gen = g /\ gpt.conn # 0 /\ ~worker.alive
     /\ gpt' = [marked EXCEPT !.conn = 0, !.restart = TRUE]
     /\ fence' = NoFence /\ UNCHANGED worker

\* TTSRouterService.cancel asks the backend its table names, if any.
FenceCancels ==
  /\ fence.at = "playback"
  /\ \/ active[fence.prev] = "none" /\ fence' = NoFence /\ UNCHANGED <<gpt, worker, av, synth>>
     \/ active[fence.prev] = "av" /\ fence' = NoFence /\ AvCancel(fence.prev) /\ UNCHANGED <<gpt, worker>>
     \/ active[fence.prev] = "gpt" /\ GptCancel(fence.prev) /\ UNCHANGED <<av, synth>>
  /\ UNCHANGED <<gen, preferred, active, asked, spk, heard, whole, trouble>>

FenceDone ==
  /\ fence.at = "gpt"
  /\ ~\E s \in Speakers : InGpt(s) /\ spk[s].req = fence.req
  /\ fence' = NoFence
  /\ UNCHANGED <<gen, preferred, active, asked, spk, gpt, worker, av, synth, heard, whole, trouble>>
\* Half a second was not enough: the worker is disowned and terminated.
\* Mutant: a worker that does not answer is kept.
KeepsWorker == UNCHANGED <<gpt, worker>>
DropsWorker ==
  /\ gpt' = [gpt EXCEPT !.restart = @ \/ gpt.conn # 0, !.conn = 0]
  /\ worker' = [worker EXCEPT !.alive = FALSE]
FenceTimesOut ==
  /\ fence.at = "gpt"
  /\ DropsWorker /\ fence' = NoFence
  /\ UNCHANGED <<gen, preferred, active, asked, spk, av, synth, heard, whole, trouble>>
-----------------------------------------------------------------------------
Progress(s) == \/ GptLock(s) \/ AvLock(s) \/ LaunchReturns(s) \/ GptReceives(s) \/ GptEof(s)
               \/ RetireEnds(s) \/ SubmitReturns(s) \/ GeneratorClosed(s) \/ AvReceives(s)
WorkerRuns  == WorkerReads \/ WorkerSpeaks \/ WorkerFinishes \/ ThreadEnds
FenceRuns   == FenceCancels \/ FenceDone \/ FenceTimesOut

Next == \/ \E s \in Speakers : Speak(s) \/ LaunchFails(s) \/ Progress(s)
        \/ WorkerRuns \/ WorkerTrouble
        \/ PumpDelivers \/ Put
        \/ FenceMoves \/ FenceRuns

\* Tasks that can go on are scheduled, timers fire, the worker's threads run and the
\* pump keeps draining; sentences, fences and faults need not come.
Fairness == /\ \A s \in Speakers : WF_vars(Progress(s))
            /\ WF_vars(WorkerReads) /\ WF_vars(WorkerSpeaks \/ WorkerFinishes \/ ThreadEnds)
            /\ WF_vars(PumpDelivers) /\ WF_vars(Put) /\ WF_vars(FenceRuns)
Spec == Init /\ [][Next]_vars /\ Fairness
-----------------------------------------------------------------------------
TypeOK ==
  /\ gen \in Gens /\ asked \in 0..MaxRequests
  /\ \A g \in Gens : active[g] \in Voices \union {"none"}
  /\ gpt.failures \in 0..Threshold + 1 /\ gpt.conn \in 0..worker.n
  /\ Len(worker.out) <= PipeCapacity /\ Len(av.queue) <= AvCapacity
  /\ \A s \in Speakers : spk[s].at \in
       {"idle", "lock", "launch", "reading", "chunk", "gone", "retire"}

\* The private voice says the sentence it was asked for, in order, and a sentence it
\* completed was heard whole: no chunk of an abandoned or cancelled sentence reaches
\* the next one, whatever its worker still had to say (gpt_sovits.py:364-388), and the
\* system voice takes over no sentence that was partly heard (router.py:54-66).
GptSpeaksItsOwn == \A r \in Requests :
  (\E i \in DOMAIN heard[r] : heard[r][i].voice = "gpt") =>
    /\ \A i \in DOMAIN heard[r] : heard[r][i] = Chunk("gpt", r, i - 1)
    /\ r \in whole => Len(heard[r]) = Chunks

\* The same of the system voice, which AVSpeechAdapter's docstring calls
\* "generation-fenced PCM async iteration".
SystemSpeaksItsOwn == \A r \in Requests : \A i \in DOMAIN heard[r] :
  heard[r][i].voice = "av" => heard[r][i] = Chunk("av", r, i - 1)

\* A fenced sentence that the worker has been told to stop ends and frees the
\* backend's lock, be the worker hung, dead or blocked on its pipe (gpt_sovits.py:422-438),
\* and a sentence of the system voice ends whatever is cancelled, stopped or overflows:
\* its queue always gets an end or an error (avspeech.py:206-259).
SentencesEnd == \A s \in Speakers :
  /\ (fence.at = "gpt" /\ InGpt(s) /\ spk[s].req = fence.req) ~> spk[s].at = "idle"
  /\ InAv(s) ~> spk[s].at = "idle"
=============================================================================
