-------------------------- MODULE AttemptProvider --------------------------
(***************************************************************************)
(* One answer on its way out of the on-device model: the turn's attempt    *)
(* (llm/streaming.py), the provider that tags frames with the live attempt *)
(* (pipeline/pipecat_provider.py), the service with its one worker lock    *)
(* (llm/local_qwen.py), the host that fences the worker's output by its    *)
(* own generation counter (llm_spike/worker.py), and the worker process    *)
(* (llm_spike/qwen_worker.py).  A title completion shares the worker; the  *)
(* coordinator's fence hook races the attempt for the queue.  The worker    *)
(* is loaded before the first turn and ended by VoiceEngine.close.          *)
(* Every frame carries `of`, the turn its words were generated for, 0 for  *)
(* a title: it is there for the properties only.                           *)
(***************************************************************************)
EXTENDS Integers, Sequences, SequencesExt, FiniteSets

CONSTANTS
  MaxTurns,  \* bound on the turns, each of one attempt
  MaxGen,    \* bound on the coordinator's generations
  MaxTitles, \* bound on the title completions
  Tokens,    \* token frames of a whole completion (max_tokens)
  Capacity,  \* PipecatAttemptProvider(queue_capacity=...)
  MaxFaults, \* bound on worker faults: an exception, a death
  MaxEvents  \* bound on fences, titles, faults, stalls and overtakings together

ASSUME AttemptAssumption ==
  /\ {MaxTurns, MaxGen, Tokens, Capacity} \subseteq Nat \ {0}
  /\ {MaxTitles, MaxFaults, MaxEvents} \subseteq Nat

VARIABLES
  life,    \* the engine: loading, up, or how far close() has come
  gen,     \* GenerationCoordinator._generation_id
  fence,   \* the provider stage of a running cancel(): interrupt_and_drain
  turn,    \* ConversationGenerator._run_attempt of each turn
  prov,    \* the provider: live attempt, frame queue, _stream_finished
  stash,   \* PipecatAttemptProvider._stash: the usage the hook found, by attempt
  pipe,    \* the Pipecat worker: frames queued into it, frames before the collector
  svc,     \* LocalQwenLLMService: its process task, the title task, the lock
  host,    \* QwenWorkerHost._current_generation and the service's two marks
  wk,      \* the worker process and its two pipes
  stalled, \* history: attempts that ended by the stall timeout
  overtaken, \* history: attempts that a later one followed before they were vacated
  metered, \* history: live attempts whose usage reached the queue
  faults   \* history: worker faults so far

vars == <<life, gen, fence, turn, prov, stash, pipe, svc, host, wk, stalled, overtaken, metered, faults>>

\* The bound that all of the environment's events share.
MayHappen ==
  (gen - 1) + svc.titles + faults + Cardinality(stalled) + Cardinality(overtaken) < MaxEvents

Turns   == 1..MaxTurns
Settled == {"completed", "failed", "cancelled"}
NoFence == [at |-> "idle", prev |-> 0, att |-> 0, usage |-> 0]
\* A frame the service pushed while it answered turn `by`, and its tagged form.
Frame(kind, by, of) == [kind |-> kind, by |-> by, of |-> of]
Tagged(g, a, f)     == [gen |-> g, att |-> a, frame |-> f]
CancelledTag(g, a)  == Tagged(g, a, Frame("cancelled", a, a))
Context(a)   == [kind |-> "context", att |-> a]
Interruption == [kind |-> "interruption", att |-> 0]
Generate(n, of) == [kind |-> "generate", n |-> n, of |-> of]
Cancel(n)       == [kind |-> "cancel", n |-> n, of |-> 0]
Close           == [kind |-> "close", n |-> 0, of |-> 0]
Job(n, of) == [n |-> n, of |-> of, made |-> 0]
NoMoreJobs == Job(0, 0)
Spawned == [alive |-> TRUE, in |-> <<>>, jobs |-> <<>>, cancelled |-> {}, out |-> <<>>]

Init ==
  /\ life = [at |-> "loading", left |-> <<>>]
  /\ gen = 1 /\ fence = NoFence
  /\ turn = [a \in Turns |-> [at |-> "new", gen |-> 0, words |-> {}, usage |-> 0]]
  /\ prov = [att |-> 0, gen |-> 0, queue |-> <<>>, finished |-> TRUE]
  /\ stash = [a \in Turns |-> 0]
  /\ pipe = [in |-> <<>>, out |-> <<>>]
  /\ svc = [started |-> FALSE, turn |-> "idle", att |-> 0, title |-> "idle", titles |-> 0, name |-> {},
            lock |-> <<>>]
  /\ host = [n |-> 0, active |-> 0, back |-> 0]
  /\ wk = Spawned
  /\ stalled = {} /\ overtaken = {} /\ metered = {} /\ faults = 0
-----------------------------------------------------------------------------
(* The provider's queue.                                                   *)
Belongs(t, a) == t.att = a /\ t.gen = turn[a].gen
\* _offer: nothing before the first attempt, and a full queue drops the frame.
Offered(q, t) == IF t.att = 0 \/ Len(q) = Capacity THEN q ELSE Append(q, t)
\* The session has not been closed.
TurnsMayRun == life.at \in {"up", "fencing"}
\* Pipecat has dealt with every interruption: a quarter of a second is enough.
Quiet == \A i \in DOMAIN pipe.in : pipe.in[i] # Interruption

\* _interrupt up to its wait: the service is interrupted, the reader is woken.
\* Mutant: the pipeline is told, the waiting stream is not.
InterruptsOnly(g, a, q) ==
  /\ pipe' = [pipe EXCEPT !.in = Append(@, Interruption)]
  /\ prov' = [prov EXCEPT !.queue = q]
\* Mutant: the waiting stream is told, the pipeline is not.
WakesOnly(g, a, q) ==
  /\ pipe' = pipe
  /\ prov' = [prov EXCEPT !.queue = Offered(q, CancelledTag(g, a))]
Interrupts(g, a, q) ==
  /\ pipe' = [pipe EXCEPT !.in = Append(@, Interruption)]
  /\ prov' = [prov EXCEPT !.queue = Offered(q, CancelledTag(g, a))]

\* _begin_attempt: this attempt is the live one, and its queue is empty.
LiveAttempt(a) == [att |-> a, gen |-> gen, queue |-> <<>>, finished |-> FALSE]

\* Something still reads, drains or is awaited for an attempt before this one.
Unvacated ==
  \/ fence.at \in {"waiting", "draining"}
  \/ \E c \in Turns : turn[c].at \in {"reading", "emitting", "draining"}

\* The next turn asks for its answer.  Nobody makes it wait: typed text waits for a
\* cancel of its own only, and as soon as any other has moved the fence, or the devices
\* have been applied, the session counts as idle.  The queue changes hands under
\* whoever still reads it; a hook that the event has woken goes on though it is cleared.
Begin(a) ==
  /\ turn[a].at = "new" /\ TurnsMayRun
  /\ \A b \in Turns : b < a => turn[b].at # "new"
  /\ Unvacated => MayHappen
  /\ turn' = [turn EXCEPT ![a].at = "reading", ![a].gen = gen]
  /\ prov' = LiveAttempt(a)
  /\ overtaken' = IF Unvacated THEN overtaken \union {prov.att} ELSE overtaken
  /\ fence' = IF fence.at = "waiting" /\ prov.finished THEN [fence EXCEPT !.at = "draining"] ELSE fence
  /\ pipe' = [pipe EXCEPT !.in = Append(@, Context(a))]
  /\ UNCHANGED <<life, gen, stash, svc, host, wk, stalled, metered, faults>>

\* The stream is over and the attempt has its result.
Ends(a, status) ==
  /\ turn' = [turn EXCEPT ![a].at = status]
  /\ prov' = [prov EXCEPT !.queue = Tail(@), !.finished = TRUE]
  /\ UNCHANGED pipe

\* The consumer takes the next frame of its stream; the fence is looked at first.
Read(a) ==
  LET t == Head(prov.queue) IN
  /\ turn[a].at = "reading" /\ prov.queue # <<>>
  /\ \/ /\ ~Belongs(t, a)
        /\ prov' = [prov EXCEPT !.queue = Tail(@)] /\ UNCHANGED <<turn, pipe>>
     \/ /\ Belongs(t, a) /\ turn[a].gen # gen
        /\ turn' = [turn EXCEPT ![a].at = "draining"]
        /\ Interrupts(turn[a].gen, a, Tail(prov.queue))
     \/ /\ Belongs(t, a) /\ turn[a].gen = gen
        /\ \/ /\ t.frame.kind = "text"
              /\ \E at \in {"reading", "emitting"} :
                   turn' = [turn EXCEPT ![a].at = at, ![a].words = @ \union {t.frame.of}]
              /\ prov' = [prov EXCEPT !.queue = Tail(@)] /\ UNCHANGED pipe
           \/ /\ t.frame.kind = "usage"
              /\ turn' = [turn EXCEPT ![a].usage = t.frame.of]
              /\ prov' = [prov EXCEPT !.queue = Tail(@)] /\ UNCHANGED pipe
           \/ t.frame.kind = "end" /\ Ends(a, "last")
           \/ t.frame.kind = "error" /\ Ends(a, "failed")
  /\ UNCHANGED <<life, gen, fence, stash, svc, host, wk, stalled, overtaken, metered, faults>>

\* The sentence was spoken; after the third one the attempt is cut short.
EmitReturns(a) ==
  /\ turn[a].at = "emitting"
  /\ \/ turn' = [turn EXCEPT ![a].at = "reading"] /\ UNCHANGED <<prov, pipe>>
     \/ /\ turn' = [turn EXCEPT ![a].at = "draining"]
        /\ Interrupts(turn[a].gen, a, prov.queue)
  /\ UNCHANGED <<life, gen, fence, stash, svc, host, wk, stalled, overtaken, metered, faults>>
\* What the gate still held is spoken after the stream, then the attempt settles.
LastEmit(a) ==
  /\ turn[a].at = "last"
  /\ turn' = [turn EXCEPT ![a].at = "completed"]
  /\ UNCHANGED <<life, gen, fence, prov, stash, pipe, svc, host, wk, stalled, overtaken, metered, faults>>

\* cancel_and_drain: the attempt reads its own leftovers; nothing is ever stashed
\* for an attempt that still asks.
DrainTakes(a) ==
  LET t == Head(prov.queue) IN
  /\ turn[a].at = "draining" /\ prov.queue # <<>>
  /\ prov' = [prov EXCEPT !.queue = Tail(@)]
  /\ turn' = IF Belongs(t, a) /\ t.frame.kind = "usage"
             THEN [turn EXCEPT ![a].usage = t.frame.of] ELSE turn
  /\ UNCHANGED <<life, gen, fence, stash, pipe, svc, host, wk, stalled, overtaken, metered, faults>>
\* A quarter of a second takes what there is of the attempt.
\* Mutant: the drain does not look at what is queued already.
QuietOnly(a) == Quiet
Queued(a)  == \E i \in DOMAIN prov.queue : Belongs(prov.queue[i], a)
Drained(a) == ~Queued(a) /\ Quiet
DrainEnds(a) ==
  /\ turn[a].at = "draining" /\ Drained(a)
  /\ turn' = [turn EXCEPT ![a].at = IF turn[a].gen = gen THEN "completed" ELSE "cancelled"]
  /\ prov' = [prov EXCEPT !.finished = TRUE]
  /\ UNCHANGED <<life, gen, fence, stash, pipe, svc, host, wk, stalled, overtaken, metered, faults>>

\* Fifteen seconds without a frame: the attempt fails, and nobody is interrupted,
\* unless the consumer sees the fence first.
Stall(a) ==
  /\ turn[a].at = "reading" /\ prov.queue = <<>>
  /\ \/ /\ turn[a].gen = gen
        /\ MayHappen
        /\ turn' = [turn EXCEPT ![a].at = "failed"]
        /\ prov' = [prov EXCEPT !.finished = TRUE] /\ UNCHANGED pipe
        /\ stalled' = stalled \union {a}
     \/ /\ turn[a].gen # gen
        /\ turn' = [turn EXCEPT ![a].at = "draining"]
        /\ Interrupts(turn[a].gen, a, <<>>) /\ UNCHANGED stalled
  /\ UNCHANGED <<life, gen, fence, stash, svc, host, wk, overtaken, metered, faults>>
-----------------------------------------------------------------------------
(* The coordinator's cancel: playback and speech are stopped before the    *)
(* provider is asked, so a fenced sentence returns inside the hook's wait. *)
FenceMoves ==
  /\ fence = NoFence /\ gen < MaxGen /\ MayHappen /\ life.at = "up"
  /\ gen' = gen + 1
  /\ fence' = [NoFence EXCEPT !.at = "stages", !.prev = gen]
  /\ UNCHANGED <<life, turn, prov, stash, pipe, svc, host, wk, stalled, overtaken, metered, faults>>

WaitsForStream == IF prov.finished THEN "draining" ELSE "waiting"
HookStarts ==
  /\ fence.at = "stages"
  /\ \/ /\ prov.att = 0 \/ prov.gen # fence.prev
        /\ fence' = NoFence /\ UNCHANGED <<pipe, prov>>
     \/ /\ prov.att # 0 /\ prov.gen = fence.prev
        /\ Interrupts(prov.gen, prov.att, prov.queue)
        /\ fence' = [fence EXCEPT !.at = WaitsForStream, !.att = prov.att]
  /\ UNCHANGED <<life, gen, turn, stash, svc, host, wk, stalled, overtaken, metered, faults>>
HookWakes ==
  /\ fence.at = "waiting" /\ prov.finished
  /\ fence' = [fence EXCEPT !.at = "draining"]
  /\ UNCHANGED <<life, gen, turn, prov, stash, pipe, svc, host, wk, stalled, overtaken, metered, faults>>
\* The stream is still reading: the drain is left to its own call.
HookTimesOut ==
  /\ fence.at = "waiting" /\ ~prov.finished /\ Quiet
  /\ turn[fence.att].at # "emitting"
  /\ turn[fence.att].at = "reading" => ~Queued(fence.att)
  /\ fence' = NoFence
  /\ UNCHANGED <<life, gen, turn, prov, stash, pipe, svc, host, wk, stalled, overtaken, metered, faults>>
HookTakes ==
  LET t == Head(prov.queue) IN
  /\ fence.at = "draining" /\ prov.queue # <<>>
  /\ prov' = [prov EXCEPT !.queue = Tail(@)]
  /\ fence' = IF Belongs(t, fence.att) /\ t.frame.kind = "usage"
              THEN [fence EXCEPT !.usage = t.frame.of] ELSE fence
  /\ UNCHANGED <<life, gen, turn, stash, pipe, svc, host, wk, stalled, overtaken, metered, faults>>
HookEnds ==
  /\ fence.at = "draining" /\ Drained(fence.att)
  /\ stash' = [stash EXCEPT ![fence.att] = fence.usage]
  /\ fence' = NoFence
  /\ UNCHANGED <<life, gen, turn, prov, pipe, svc, host, wk, stalled, overtaken, metered, faults>>
-----------------------------------------------------------------------------
(* The Pipecat pipeline: the collector tags a frame with the attempt that  *)
(* is live when it arrives.                                                *)
Gathers ==
  /\ pipe.out # <<>>
  /\ LET t == Tagged(prov.gen, prov.att, Head(pipe.out)) IN
     /\ prov' = [prov EXCEPT !.queue = Offered(@, t)]
     /\ metered' = IF t.frame.kind = "usage" /\ prov'.queue # prov.queue
                      /\ turn[t.att].at \notin Settled
                   THEN metered \union {t.att} ELSE metered
  /\ pipe' = [pipe EXCEPT !.out = Tail(@)]
  /\ UNCHANGED <<life, gen, fence, turn, stash, svc, host, wk, stalled, overtaken, faults>>
-----------------------------------------------------------------------------
(* The service and the host.  The first in `lock` holds the worker lock.   *)
Sent(worker, command) ==
  IF worker.alive THEN [worker EXCEPT !.in = Append(@, command)] ELSE worker
Sends(command) == wk' = Sent(wk, command)
\* preload: a worker is spawned unless one was, whatever became of that one.
Preloaded == IF svc.started THEN wk ELSE Spawned
\* _cancel_active for the completion marked active, if any.
CancelsActive ==
  IF host.active = 0 THEN UNCHANGED wk ELSE Sends(Cancel(host.active))
Holds(who) == svc.lock # <<>> /\ Head(svc.lock) = who

\* _preempt_background. Mutant: the turn takes its generation before the lock.
PreemptsEarly ==
  /\ IF host.back = 0 THEN UNCHANGED wk ELSE CancelsActive
  /\ host' = [host EXCEPT !.n = @ + 1]
Preempts ==
  /\ IF host.back = 0 THEN UNCHANGED wk ELSE CancelsActive
  /\ UNCHANGED host
TakesContext ==
  /\ svc.turn = "idle" /\ pipe.in # <<>> /\ Head(pipe.in).kind = "context"
  /\ Preempts
  /\ svc' = [svc EXCEPT !.turn = "lock", !.att = Head(pipe.in).att, !.lock = Append(@, "turn")]
  /\ pipe' = [pipe EXCEPT !.in = Tail(@)]
  /\ UNCHANGED <<life, gen, fence, turn, prov, stash, stalled, overtaken, metered, faults>>
TurnAsks ==
  /\ svc.turn = "lock" /\ Holds("turn")
  /\ svc' = [svc EXCEPT !.turn = "asking", !.started = TRUE]
  /\ host' = [host EXCEPT !.n = @ + 1, !.active = host.n + 1]
  /\ wk' = Sent(Preloaded, Generate(host.n + 1, svc.att))
  /\ UNCHANGED <<life, gen, fence, turn, prov, stash, pipe, stalled, overtaken, metered, faults>>

\* A completed turn names its thread: complete_once.
TitleWanted ==
  /\ TurnsMayRun /\ svc.title = "idle" /\ svc.titles < MaxTitles /\ MayHappen
  /\ \E a \in Turns : turn[a].at = "completed"
  /\ svc' = [svc EXCEPT !.title = "lock", !.titles = @ + 1, !.name = {}, !.lock = Append(@, "title")]
  /\ UNCHANGED <<life, gen, fence, turn, prov, stash, pipe, host, wk, stalled, overtaken, metered, faults>>
TitleAsks ==
  /\ svc.title = "lock" /\ Holds("title")
  /\ svc' = [svc EXCEPT !.title = "asking", !.started = TRUE]
  /\ host' = [n |-> host.n + 1, active |-> host.n + 1, back |-> host.n + 1]
  /\ wk' = Sent(Preloaded, Generate(host.n + 1, 0))
  /\ UNCHANGED <<life, gen, fence, turn, prov, stash, pipe, stalled, overtaken, metered, faults>>

TurnReturns  == /\ svc' = [svc EXCEPT !.turn = "idle", !.att = 0, !.lock = Tail(@)]
                /\ host' = [host EXCEPT !.active = 0]
TitleReturns == /\ svc' = [svc EXCEPT !.title = "idle", !.lock = Tail(@)]
                /\ host' = [host EXCEPT !.active = 0, !.back = 0]
Pushes(frames) == pipe' = [pipe EXCEPT !.out = @ \o frames]

\* QwenWorkerHost._collect: frames of another generation are dropped.
Current(f) == f.n = host.n
TurnCollects ==
  /\ svc.turn = "asking" /\ wk.out # <<>>
  /\ LET f == Head(wk.out) a == svc.att IN
     \/ ~Current(f) /\ UNCHANGED <<svc, host, pipe>>
     \/ /\ Current(f) /\ f.kind = "token"
        /\ Pushes(<<Frame("text", a, f.of)>>) /\ UNCHANGED <<svc, host>>
     \/ /\ Current(f) /\ f.kind = "error"
        /\ Pushes(<<Frame("error", a, f.of)>>) /\ TurnReturns
     \/ /\ Current(f) /\ f.kind = "completed"
        /\ Pushes(<<Frame("usage", a, f.of), Frame("end", a, f.of)>>) /\ TurnReturns
  /\ wk' = [wk EXCEPT !.out = Tail(@)]
  /\ UNCHANGED <<life, gen, fence, turn, prov, stash, stalled, overtaken, metered, faults>>
TitleCollects ==
  /\ svc.title = "asking" /\ wk.out # <<>>
  /\ LET f == Head(wk.out) IN
     \/ ~Current(f) /\ UNCHANGED <<svc, host>>
     \/ /\ Current(f) /\ f.kind = "token"
        /\ svc' = [svc EXCEPT !.name = @ \union {f.of}] /\ UNCHANGED host
     \/ Current(f) /\ f.kind # "token" /\ TitleReturns
  /\ wk' = [wk EXCEPT !.out = Tail(@)]
  /\ UNCHANGED <<life, gen, fence, turn, prov, stash, pipe, stalled, overtaken, metered, faults>>
\* The worker is gone: an error for a turn, no title for a title.
Eof ==
  /\ ~wk.alive /\ wk.out = <<>>
  /\ \/ svc.turn = "asking" /\ Pushes(<<Frame("error", svc.att, svc.att)>>) /\ TurnReturns
     \/ svc.title = "asking" /\ TitleReturns /\ UNCHANGED pipe
  /\ UNCHANGED <<life, gen, fence, turn, prov, stash, wk, stalled, overtaken, metered, faults>>

\* The interruption overtakes what waits in front of it: Pipecat drops the contexts,
\* cancels the process task and flushes what is on its way to the collector; the
\* cancelled task stops its own completion, else whichever is active is stopped.
Interrupted ==
  /\ ~Quiet
  /\ pipe' = [in |-> SubSeq(pipe.in, SelectInSeq(pipe.in, LAMBDA x : x = Interruption) + 1, Len(pipe.in)),
              out |-> <<>>]
  /\ CancelsActive
  /\ svc' = [svc EXCEPT !.turn = "idle", !.att = 0, !.lock = RemoveFirst(@, "turn")]
  /\ host' = IF svc.turn = "asking" THEN [host EXCEPT !.active = 0] ELSE host
  /\ UNCHANGED <<life, gen, fence, turn, prov, stash, stalled, overtaken, metered, faults>>
-----------------------------------------------------------------------------
(* The worker process: a thread that reads commands, one that generates.   *)
Outside == <<life, gen, fence, turn, prov, stash, pipe, svc, host, stalled, overtaken, metered>>
Said(kind) == [kind |-> kind, n |-> Head(wk.jobs).n, of |-> Head(wk.jobs).of]

WorkerReads ==
  /\ wk.in # <<>>
  /\ LET c == Head(wk.in) IN
     \/ /\ c.kind = "cancel"
        /\ wk' = [wk EXCEPT !.in = Tail(@), !.cancelled = @ \union {c.n}]
     \/ /\ c.kind = "generate"
        /\ wk' = [wk EXCEPT !.in = Tail(@), !.jobs = Append(@, Job(c.n, c.of))]
     \/ /\ c.kind = "close"
        /\ wk' = [wk EXCEPT !.in = <<>>, !.jobs = Append(@, NoMoreJobs)]
  /\ UNCHANGED <<Outside, faults>>
WorkerWrites ==
  /\ wk.jobs # <<>>
  /\ LET job == Head(wk.jobs) IN
     \/ /\ job = NoMoreJobs
        /\ wk' = [wk EXCEPT !.alive = FALSE, !.in = <<>>, !.jobs = <<>>]
     \/ /\ job.n \in wk.cancelled
        /\ wk' = [wk EXCEPT !.jobs = Tail(@), !.out = Append(@, Said("cancelled"))]
     \/ /\ job # NoMoreJobs /\ job.n \notin wk.cancelled /\ job.made < Tokens
        /\ wk' = [wk EXCEPT !.jobs[1].made = @ + 1, !.out = Append(@, Said("token"))]
     \/ /\ job # NoMoreJobs /\ job.n \notin wk.cancelled /\ job.made = Tokens
        /\ wk' = [wk EXCEPT !.jobs = Tail(@), !.out = Append(@, Said("completed"))]
  /\ UNCHANGED <<Outside, faults>>
WorkerFails ==
  /\ wk.alive /\ life.at = "up" /\ faults < MaxFaults /\ MayHappen
  /\ faults' = faults + 1
  /\ \/ wk.jobs # <<>> /\ wk' = [wk EXCEPT !.jobs = Tail(@), !.out = Append(@, Said("error"))]
     \/ wk' = [wk EXCEPT !.alive = FALSE, !.in = <<>>, !.jobs = <<>>]
  /\ UNCHANGED Outside
-----------------------------------------------------------------------------
(* The engine's life: the composition loads the weights, close() releases   *)
(* them.                                                                    *)

\* The worker says it is ready; a load that fails leaves no engine and no worker,
\* one that takes too long leaves no engine.
Loads ==
  /\ life.at = "loading"
  /\ \/ /\ life' = [life EXCEPT !.at = "up"]
        /\ svc' = [svc EXCEPT !.started = TRUE] /\ UNCHANGED wk
     \/ /\ life' = [life EXCEPT !.at = "failed"]
        /\ \E alive \in BOOLEAN : wk' = [wk EXCEPT !.alive = alive]
        /\ UNCHANGED svc
  /\ UNCHANGED <<gen, fence, turn, prov, stash, pipe, host, stalled, overtaken, metered, faults>>

\* VoiceEngine.close moves the fence one last time.
CloseBegins ==
  /\ life.at = "up" /\ fence = NoFence /\ gen < MaxGen /\ MayHappen
  /\ life' = [life EXCEPT !.at = "fencing"]
  /\ gen' = gen + 1
  /\ fence' = [NoFence EXCEPT !.at = "stages", !.prev = gen]
  /\ UNCHANGED <<turn, prov, stash, pipe, svc, host, wk, stalled, overtaken, metered, faults>>

\* The order the composition asks for. Mutant: the service first.
ServiceFirst == <<"service", "provider">>
Closers == <<"provider", "service">>
\* The session cancels its turn tasks, a title completion with them.
SessionCloses ==
  /\ life.at = "fencing" /\ fence = NoFence
  /\ life' = [at |-> "closers", left |-> Closers]
  /\ turn' = [a \in Turns |-> IF turn[a].at \in Settled \union {"new"} THEN turn[a]
                             ELSE [turn[a] EXCEPT !.at = "cancelled"]]
  /\ prov' = [prov EXCEPT !.finished = TRUE]
  /\ IF svc.title = "asking" THEN CancelsActive ELSE UNCHANGED wk
  /\ svc' = [svc EXCEPT !.title = "idle", !.lock = RemoveFirst(@, "title")]
  /\ host' = IF svc.title = "asking" THEN [host EXCEPT !.active = 0, !.back = 0] ELSE host
  /\ UNCHANGED <<gen, fence, stash, pipe, stalled, overtaken, metered, faults>>

\* PipecatAttemptProvider.close: the Pipecat worker ends, the process task with it.
ProviderCloses ==
  /\ life.at = "closers" /\ life.left # <<>> /\ Head(life.left) = "provider"
  /\ life' = [life EXCEPT !.left = Tail(@)]
  /\ pipe' = [in |-> <<>>, out |-> <<>>]
  /\ IF svc.turn = "asking" THEN CancelsActive ELSE UNCHANGED wk
  /\ svc' = [svc EXCEPT !.turn = "idle", !.att = 0, !.lock = RemoveFirst(@, "turn")]
  /\ host' = IF svc.turn = "asking" THEN [host EXCEPT !.active = 0] ELSE host
  /\ UNCHANGED <<gen, fence, turn, prov, stash, stalled, overtaken, metered, faults>>

\* LocalQwenLLMService.close: the worker is told and waited for, then killed.
ServiceCloses ==
  /\ life.at = "closers" /\ life.left # <<>> /\ Head(life.left) = "service"
  /\ life' = [life EXCEPT !.at = "waiting"]
  /\ svc' = [svc EXCEPT !.started = FALSE]
  /\ Sends(Close)
  /\ UNCHANGED <<gen, fence, turn, prov, stash, pipe, host, stalled, overtaken, metered, faults>>
\* It has gone by itself, or two seconds have passed.
WorkerEnded ==
  /\ life.at = "waiting"
  /\ life' = [at |-> "closers", left |-> Tail(life.left)]
  /\ wk' = [wk EXCEPT !.alive = FALSE, !.in = <<>>, !.jobs = <<>>]
  /\ UNCHANGED <<gen, fence, turn, prov, stash, pipe, svc, host, stalled, overtaken, metered, faults>>
Closed ==
  /\ life.at = "closers" /\ life.left = <<>>
  /\ life' = [life EXCEPT !.at = "closed"]
  /\ UNCHANGED <<gen, fence, turn, prov, stash, pipe, svc, host, wk, stalled, overtaken, metered, faults>>
-----------------------------------------------------------------------------
TurnRuns(a) == Read(a) \/ EmitReturns(a) \/ LastEmit(a) \/ DrainTakes(a) \/ DrainEnds(a)
EngineRuns  == Loads \/ SessionCloses \/ ProviderCloses \/ ServiceCloses \/ WorkerEnded \/ Closed
HookRuns    == HookStarts \/ HookWakes \/ HookTimesOut \/ HookTakes \/ HookEnds

Next == \/ \E a \in Turns : Begin(a) \/ TurnRuns(a) \/ Stall(a)
        \/ FenceMoves \/ CloseBegins \/ HookRuns \/ EngineRuns
        \/ Gathers \/ Interrupted \/ TakesContext \/ TurnAsks \/ TurnCollects
        \/ TitleWanted \/ TitleAsks \/ TitleCollects \/ Eof
        \/ WorkerReads \/ WorkerWrites \/ WorkerFails

\* A task that can go on is scheduled, or the worker's threads run, as long as any of
\* them can; no one of them is favoured, since the steps of each are finitely many.  The
\* stall timer need never fire, and turns, titles, fences, faults and the close need
\* not come.
Runs == \/ \E a \in Turns : TurnRuns(a)
        \/ HookRuns \/ Gathers \/ Interrupted \/ TakesContext
        \/ TurnAsks \/ TurnCollects \/ TitleAsks \/ TitleCollects \/ Eof
        \/ WorkerReads \/ WorkerWrites
Spec == Init /\ [][Next]_vars /\ WF_vars(Runs)
-----------------------------------------------------------------------------
TypeOK ==
  /\ life.at \in {"loading", "failed", "up", "fencing", "closers", "waiting", "closed"}
  /\ gen \in 1..MaxGen /\ fence.at \in {"idle", "stages", "waiting", "draining"}
  /\ \A a \in Turns : /\ turn[a].at \in {"new", "reading", "emitting", "last", "draining"} \union Settled
                      /\ turn[a].words \subseteq 0..MaxTurns
  /\ Len(prov.queue) <= Capacity
  /\ svc.turn \in {"idle", "lock", "asking"} /\ svc.title \in {"idle", "lock", "asking"}
  /\ host.active \in 0..host.n /\ host.back \in {0, host.active}

\* A turn hears and accounts for nothing but its own answer and a title is made of
\* nothing else, though the output of a cancelled completion is still in the pipe when
\* the next one starts (worker.py:211-214) and frames name no attempt before the
\* collector tags them (pipecat_provider.py:109-112).  Two things displace the stream for
\* good.  After a stall timeout nobody stops the completion, and the next turn hears the
\* rest of the stalled answer, ends with it, and leaves its own to the turn after it.
\* And a turn that overtakes an attempt is heard with the words of that one, since the
\* hook passes by a provider that serves a later generation (pipecat_provider.py:204).
Displaced(w) == \E c \in stalled \union overtaken : c <= w
OwnWords ==
  /\ \A a \in Turns : /\ \A w \in turn[a].words : w = a \/ Displaced(w)
                      /\ turn[a].usage \in {0, a} \/ Displaced(turn[a].usage)
  /\ svc.name \subseteq {0}

\* Usage that reached the queue of a live attempt is in its settlement, also when the
\* attempt was cut short and had to drain it; only a fenced attempt may lose it, as
\* it does when the frame it notices the fence on is the usage (streaming.py:215-221).
\* The fence hook takes none from an attempt that could drain it itself: it finds some
\* only after a stall ended a stream whose completion went on (pipecat_provider.py:214-217).
\* Where one attempt has overtaken another, either may take the other's frames and drop
\* them (pipecat_provider.py:162, 277), and so may the hook.
UsageKept ==
  /\ \A a \in metered : turn[a].at \in {"completed", "failed"} => turn[a].usage = a \/ Displaced(a)
  /\ \A a \in Turns : stash[a] # 0 => Displaced(a)

\* A turn that waits for the worker gets it, though a title completion holds it and
\* its cancel has to be answered through the same pipe (local_qwen.py:143-148).
TurnServed == svc.turn = "lock" ~> svc.turn # "lock"

\* A fenced attempt ends without the stall timeout, even when its wake-up was dropped
\* by a full queue (pipecat_provider.py:259-262, 282-290), unless a later attempt has
\* overtaken it or one before it: then the hook does not look for it.  The generations
\* are bounded, so none is left in the end.
Overtaken(a) == \E c \in overtaken : c <= a
FencedReader == \E a \in Turns : turn[a].at = "reading" /\ turn[a].gen # gen /\ ~Overtaken(a)
FencedStreamEnds == FencedReader ~> ~FencedReader

\* "The weights are released only after nothing can still ask them for tokens"
\* (engine.py:475): a closed engine has no worker, and nothing brings one back.
WeightsReleased == life.at = "closed" => ~wk.alive
=============================================================================
