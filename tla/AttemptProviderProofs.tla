----------------------- MODULE AttemptProviderProofs ------------------------
(***************************************************************************)
(* Proofs about AttemptProvider, for every number of turns, titles, tokens *)
(* and faults.  First, when the engine is closed there is no model worker, *)
(* and none can come back: a worker is spawned by whoever asks for a       *)
(* completion, so the argument follows the order of close(): the session   *)
(* leaves no turn and no title, the provider no context for the service,   *)
(* and only then is the worker ended.                                      *)
(* Then, an answer has its own words and usage unless a stall displaced    *)
(* the stream.  Words are followed from where they are said to where they  *)
(* are heard: the worker's output belongs to the host's generation, the    *)
(* service's frames to the turn it serves, what the collector tags to the  *)
(* live attempt.  As long as no attempt has overtaken another, an attempt   *)
(* begins when nothing of those before it is upstream; from the first that *)
(* does overtake one on, whatever flows belongs to that one or a later.    *)
(***************************************************************************)
EXTENDS AttemptProvider, NaturalsInduction, WellFoundedInduction, TLAPS

\* The records keep their fields.
Shape ==
  /\ DOMAIN turn = Turns
  /\ \A a \in Turns : "at" \in DOMAIN turn[a]
  /\ wk = [alive |-> wk.alive, in |-> wk.in, jobs |-> wk.jobs, cancelled |-> wk.cancelled,
           out |-> wk.out]
  /\ svc = [started |-> svc.started, turn |-> svc.turn, att |-> svc.att, title |-> svc.title,
            titles |-> svc.titles, name |-> svc.name, lock |-> svc.lock]
  /\ pipe = [in |-> pipe.in, out |-> pipe.out]
  /\ life = [at |-> life.at, left |-> life.left]

\* The session is closed.
Down == life.at \in {"closers", "waiting", "closed"}

\* The closers run in their order and the last thing waited for is the worker.
InOrder ==
  /\ life.at = "closers" => life.left \in {<<"provider", "service">>, <<"service">>, <<>>}
  /\ life.at = "waiting" => life.left = <<"service">>
  /\ life.at = "closed" => life.left = <<>>

SessionGone ==
  Down => /\ \A a \in Turns : turn[a].at \in Settled \cup {"new"}
          /\ fence = NoFence /\ svc.title = "idle"

ProviderGone ==
  Down /\ life.left # <<"provider", "service">> => svc.turn = "idle" /\ pipe.in = <<>>

WorkerGone == Down /\ life.left = <<>> => ~wk.alive

IInv == Shape /\ InOrder /\ SessionGone /\ ProviderGone /\ WorkerGone

LEMMA Start ==
  ASSUME Init
  PROVE  IInv
<1>1. Shape
  BY DEF Init, Shape, Spawned
<1>2. ~Down
  BY DEF Init, Down
<1>3. QED
  BY <1>1, <1>2 DEF Init, IInv, InOrder, SessionGone, ProviderGone, WorkerGone

\* A step that asks for a session, or for a cancellation, is none of a closed engine's.
LEMMA OpenKeeps ==
  ASSUME IInv, ~Down, UNCHANGED life, Shape'
  PROVE  IInv'
BY DEF IInv, Down, InOrder, SessionGone, ProviderGone, WorkerGone, Shape

\* A step outside the engine's life leaves what is gone as it is.
LEMMA GoneKeeps ==
  ASSUME IInv, UNCHANGED <<life, turn, fence>>, Shape',
         Down => /\ svc'.title = svc.title
                 /\ \/ svc'.turn = svc.turn \/ svc'.turn = "idle"
                    \/ life.left = <<"provider", "service">>
                 /\ pipe'.in = pipe.in \/ life.left = <<"provider", "service">>
                 /\ wk'.alive => wk.alive \/ life.left # <<>>
  PROVE  IInv'
BY DEF IInv, Down, InOrder, SessionGone, ProviderGone, WorkerGone
-----------------------------------------------------------------------------
(* What the closed engine no longer does.                                  *)

LEMMA TurnsKeep ==
  ASSUME IInv, \/ \E a \in Turns : Begin(a) \/ TurnRuns(a) \/ Stall(a)
               \/ FenceMoves \/ HookRuns \/ TitleWanted
  PROVE  IInv'
<1>0. Shape /\ SessionGone
  BY DEF IInv
<1>1. ASSUME NEW a \in Turns, Begin(a) \/ TurnRuns(a) \/ Stall(a)
      PROVE  ~Down /\ UNCHANGED life /\ Shape'
  <2>1. UNCHANGED <<life, svc, wk>>
    BY <1>1, Zenon DEF Begin, TurnRuns, Stall, Read, EmitReturns, LastEmit, DrainTakes, DrainEnds
  <2>2. ~Down
    <3>1. CASE Begin(a)
      BY <3>1 DEF Begin, TurnsMayRun, Down
    <3>2. CASE TurnRuns(a) \/ Stall(a)
      <4>1. turn[a].at \notin {"new", "completed", "failed", "cancelled"}
        <5>1. CASE Read(a) \/ EmitReturns(a) \/ LastEmit(a)
          BY <5>1 DEF Read, EmitReturns, LastEmit
        <5>2. CASE DrainTakes(a) \/ DrainEnds(a) \/ Stall(a)
          BY <5>2 DEF DrainTakes, DrainEnds, Stall
        <5>3. QED
          BY <3>2, <5>1, <5>2 DEF TurnRuns
      <4>2. Down => turn[a].at \in {"new", "completed", "failed", "cancelled"}
        BY <1>0 DEF SessionGone, Settled
      <4>3. QED
        BY <4>1, <4>2
    <3>3. QED
      BY <1>1, <3>1, <3>2
  <2>3. DOMAIN turn' = Turns /\ \A b \in Turns : "at" \in DOMAIN turn'[b]
    <3>1. DOMAIN turn = Turns /\ \A b \in Turns : "at" \in DOMAIN turn[b]
      BY <1>0 DEF Shape
    <3>2. CASE Begin(a) \/ Stall(a)
      BY <3>1, <3>2 DEF Begin, Stall
    <3>3. CASE Read(a)
      BY <3>1, <3>3 DEF Read, Ends
    <3>4. CASE EmitReturns(a) \/ LastEmit(a)
      BY <3>1, <3>4 DEF EmitReturns, LastEmit, Ends
    <3>5. CASE DrainTakes(a) \/ DrainEnds(a)
      BY <3>1, <3>5 DEF DrainTakes, DrainEnds, Ends
    <3>6. QED
      BY <1>1, <3>2, <3>3, <3>4, <3>5 DEF TurnRuns
  <2>4. pipe' = pipe \/ \E s : pipe' = [pipe EXCEPT !.in = s]
    BY <1>1, Zenon DEF Begin, TurnRuns, Stall, Read, EmitReturns, LastEmit, DrainTakes, DrainEnds,
                       Ends, Interrupts
  <2>5. pipe' = [in |-> pipe'.in, out |-> pipe'.out]
    <3>1. pipe = [in |-> pipe.in, out |-> pipe.out]
      BY <1>0 DEF Shape
    <3>2. QED
      BY <2>4, <3>1
  <2>6. QED
    BY <1>0, <2>1, <2>2, <2>3, <2>5 DEF Shape
<1>2. CASE FenceMoves \/ HookRuns
  <2>1. UNCHANGED <<life, svc, wk, turn>>
    BY <1>2 DEF FenceMoves, HookRuns, HookStarts, HookWakes, HookTimesOut, HookTakes, HookEnds
  <2>2. ~Down
    BY <1>0, <1>2 DEF FenceMoves, HookRuns, HookStarts, HookWakes, HookTimesOut, HookTakes,
                      HookEnds, SessionGone, NoFence, Down
  <2>3. pipe' = pipe \/ \E s : pipe' = [pipe EXCEPT !.in = s]
    BY <1>2 DEF FenceMoves, HookRuns, HookStarts, HookWakes, HookTimesOut, HookTakes,
                HookEnds, Interrupts
  <2>4. QED
    <3>1. Shape'
      BY <1>0, <2>1, <2>3 DEF Shape
    <3>2. QED
      BY <2>1, <2>2, <3>1, OpenKeeps
<1>3. CASE TitleWanted
  <2>1. ~Down /\ UNCHANGED life /\ Shape'
    BY <1>0, <1>3 DEF TitleWanted, TurnsMayRun, Down, Shape
  <2>2. QED
    BY <2>1, OpenKeeps
<1>4. QED
  BY <1>1, <1>2, <1>3, OpenKeeps
-----------------------------------------------------------------------------
(* What goes on while the engine closes.                                   *)

LEMMA SentShape ==
  ASSUME Shape, NEW command
  PROVE  LET w == Sent(wk, command) IN
         /\ w = [alive |-> w.alive, in |-> w.in, jobs |-> w.jobs, cancelled |-> w.cancelled,
                 out |-> w.out]
         /\ w.alive = wk.alive
BY DEF Shape, Sent

\* A completion is cancelled, or there is none.
LEMMA CancelShape ==
  ASSUME Shape, CancelsActive \/ UNCHANGED wk
  PROVE  /\ wk' = [alive |-> wk'.alive, in |-> wk'.in, jobs |-> wk'.jobs,
                   cancelled |-> wk'.cancelled, out |-> wk'.out]
         /\ wk'.alive = wk.alive
BY SentShape DEF CancelsActive, Sends, Shape

LEMMA PipelineKeeps ==
  ASSUME IInv, Gathers \/ Interrupted \/ TakesContext \/ TurnAsks \/ TurnCollects
  PROVE  IInv'
<1>0. Shape /\ InOrder /\ SessionGone /\ ProviderGone
  BY DEF IInv
<1>1. CASE Gathers
  BY <1>0, <1>1, GoneKeeps DEF Gathers, Shape
<1>2. CASE Interrupted
  <2>1. UNCHANGED <<life, turn, fence>> /\ (CancelsActive \/ UNCHANGED wk)
    BY <1>2 DEF Interrupted
  <2>2. Shape'
    BY <1>0, <1>2, <2>1, CancelShape DEF Interrupted, Shape
  <2>3. svc'.title = svc.title /\ svc'.turn = "idle"
    BY <1>0, <1>2 DEF Interrupted, Shape
  <2>4. pipe.in # <<>>
    BY <1>2 DEF Interrupted, Quiet
  <2>5. QED
    BY <1>0, <2>1, <2>2, <2>3, <2>4, CancelShape, GoneKeeps DEF ProviderGone
<1>3. CASE TakesContext
  <2>1. UNCHANGED <<life, turn, fence>> /\ (CancelsActive \/ UNCHANGED wk) /\ pipe.in # <<>>
    BY <1>3 DEF TakesContext, Preempts
  <2>2. Shape' /\ svc'.title = svc.title
    BY <1>0, <1>3, <2>1, CancelShape DEF TakesContext, Shape
  <2>3. QED
    BY <1>0, <2>1, <2>2, CancelShape, GoneKeeps DEF ProviderGone
<1>4. CASE TurnAsks
  <2>1. UNCHANGED <<life, turn, fence, pipe>> /\ svc.turn = "lock"
    BY <1>4 DEF TurnAsks
  <2>2. /\ svc' = [svc EXCEPT !.turn = "asking", !.started = TRUE]
        /\ wk' = Sent(Preloaded, Generate(host.n + 1, svc.att))
    BY <1>4 DEF TurnAsks
  <2>3. Shape'
    BY <1>0, <2>1, <2>2 DEF Shape, Sent, Preloaded, Spawned
  <2>4. Down => life.left = <<"provider", "service">>
    BY <1>0, <2>1 DEF ProviderGone
  <2>5. svc'.title = svc.title
    BY <1>0, <2>2 DEF Shape
  <2>6. QED
    BY <2>1, <2>3, <2>4, <2>5, GoneKeeps
<1>5. CASE TurnCollects
  <2>1. UNCHANGED <<life, turn, fence>> /\ wk' = [wk EXCEPT !.out = Tail(@)]
    BY <1>5 DEF TurnCollects
  <2>2. svc' = svc \/ TurnReturns
    BY <1>5 DEF TurnCollects
  <2>3. pipe' = pipe \/ \E s : pipe' = [pipe EXCEPT !.out = s]
    BY <1>5 DEF TurnCollects, Pushes
  <2>4. Shape' /\ svc'.title = svc.title /\ pipe'.in = pipe.in /\ wk'.alive = wk.alive
    BY <1>0, <2>1, <2>2, <2>3 DEF Shape, TurnReturns
  <2>5. svc'.turn = svc.turn \/ svc'.turn = "idle"
    BY <1>0, <2>2 DEF Shape, TurnReturns
  <2>6. QED
    BY <2>1, <2>4, <2>5, GoneKeeps
<1>6. QED
  BY <1>1, <1>2, <1>3, <1>4, <1>5

LEMMA WorkerKeeps ==
  ASSUME IInv, TitleAsks \/ TitleCollects \/ Eof \/ WorkerReads \/ WorkerWrites \/ WorkerFails
  PROVE  IInv'
<1>0. Shape /\ InOrder /\ SessionGone /\ ProviderGone
  BY DEF IInv
<1>1. CASE TitleAsks
  <2>1. ~Down /\ UNCHANGED life
    BY <1>0, <1>1 DEF TitleAsks, SessionGone
  <2>2. Shape'
    BY <1>0, <1>1 DEF TitleAsks, Shape, Sent, Preloaded, Spawned
  <2>3. QED
    BY <2>1, <2>2, OpenKeeps
<1>2. CASE TitleCollects
  <2>1. ~Down /\ UNCHANGED life
    BY <1>0, <1>2 DEF TitleCollects, SessionGone
  <2>2. Shape'
    BY <1>0, <1>2 DEF TitleCollects, TitleReturns, Shape
  <2>3. QED
    BY <2>1, <2>2, OpenKeeps
<1>3. CASE Eof
  <2>1. UNCHANGED <<life, turn, fence, wk>>
    BY <1>3 DEF Eof
  <2>2. CASE svc.title = "asking" /\ TitleReturns /\ UNCHANGED pipe
    <3>1. ~Down /\ Shape'
      BY <1>0, <2>1, <2>2 DEF SessionGone, TitleReturns, Shape
    <3>2. QED
      BY <2>1, <3>1, OpenKeeps
  <2>3. CASE TurnReturns /\ \E s : pipe' = [pipe EXCEPT !.out = s]
    <3>1. Shape' /\ svc'.title = svc.title /\ svc'.turn = "idle" /\ pipe'.in = pipe.in
      BY <1>0, <2>1, <2>3 DEF Shape, TurnReturns
    <3>2. QED
      BY <2>1, <3>1, GoneKeeps
  <2>4. QED
    BY <1>3, <2>2, <2>3 DEF Eof, Pushes
<1>4. CASE WorkerReads \/ WorkerWrites \/ WorkerFails
  <2>1. UNCHANGED <<life, turn, fence, svc, pipe>>
    BY <1>4 DEF WorkerReads, WorkerWrites, WorkerFails, Outside
  <2>2. /\ wk' = [alive |-> wk'.alive, in |-> wk'.in, jobs |-> wk'.jobs,
                  cancelled |-> wk'.cancelled, out |-> wk'.out]
        /\ wk'.alive => wk.alive
    <3>1. CASE WorkerReads
      BY <1>0, <3>1 DEF WorkerReads, Shape
    <3>2. CASE WorkerWrites
      BY <1>0, <3>2 DEF WorkerWrites, Shape
    <3>3. CASE WorkerFails
      BY <1>0, <3>3 DEF WorkerFails, Shape
    <3>4. QED
      BY <1>4, <3>1, <3>2, <3>3
  <2>3. Shape'
    BY <1>0, <2>1, <2>2 DEF Shape
  <2>4. QED
    BY <2>1, <2>2, <2>3, GoneKeeps
<1>5. QED
  BY <1>1, <1>2, <1>3, <1>4
-----------------------------------------------------------------------------
(* The engine's life.                                                      *)

LEMMA LifeKeeps ==
  ASSUME IInv, CloseBegins \/ EngineRuns
  PROVE  IInv'
<1>0. Shape /\ InOrder /\ SessionGone /\ ProviderGone /\ WorkerGone
  BY DEF IInv
<1>1. CASE Loads \/ CloseBegins
  <2>1. life'.at \in {"up", "failed", "fencing"} /\ life' = [at |-> life'.at, left |-> life'.left]
    BY <1>0, <1>1 DEF Loads, CloseBegins, Shape
  <2>2. Shape'
    BY <1>0, <1>1, <2>1 DEF Loads, CloseBegins, Shape
  <2>3. ~Down'
    BY <2>1 DEF Down
  <2>4. InOrder'
    BY <2>1 DEF InOrder
  <2>5. QED
    BY <2>2, <2>3, <2>4 DEF IInv, SessionGone, ProviderGone, WorkerGone
<1>2. CASE SessionCloses
  <2>1. /\ life' = [at |-> "closers", left |-> <<"provider", "service">>]
        /\ UNCHANGED <<fence, pipe>> /\ fence = NoFence
        /\ CancelsActive \/ UNCHANGED wk
        /\ svc' = [svc EXCEPT !.title = "idle", !.lock = RemoveFirst(@, "title")]
    BY <1>2 DEF SessionCloses, Closers
  <2>2. /\ DOMAIN turn' = Turns
        /\ \A a \in Turns : /\ "at" \in DOMAIN turn'[a]
                            /\ turn'[a].at \in Settled \cup {"new"}
    BY <1>0, <1>2 DEF SessionCloses, Settled, Shape
  <2>3. svc'.title = "idle"
    BY <1>0, <2>1 DEF Shape
  <2>4. Shape'
    BY <1>0, <2>1, <2>2, CancelShape DEF Shape
  <2>5. QED
    BY <2>1, <2>2, <2>3, <2>4 DEF IInv, InOrder, SessionGone, ProviderGone, WorkerGone, Down
<1>3. CASE ProviderCloses
  <2>1. /\ life.at = "closers" /\ life.left # <<>> /\ Head(life.left) = "provider"
        /\ life' = [life EXCEPT !.left = Tail(@)]
        /\ pipe' = [in |-> <<>>, out |-> <<>>]
        /\ CancelsActive \/ UNCHANGED wk
        /\ svc' = [svc EXCEPT !.turn = "idle", !.att = 0, !.lock = RemoveFirst(@, "turn")]
        /\ UNCHANGED <<turn, fence>>
    BY <1>3 DEF ProviderCloses
  <2>2. life.left = <<"provider", "service">>
    BY <1>0, <2>1 DEF InOrder
  <2>3. life'.at = "closers" /\ life'.left = <<"service">>
    BY <1>0, <2>1, <2>2 DEF Shape
  <2>4. Shape' /\ svc'.turn = "idle" /\ svc'.title = svc.title /\ pipe'.in = <<>>
    BY <1>0, <2>1, CancelShape DEF Shape
  <2>5. QED
    <3>1. InOrder' /\ ProviderGone' /\ WorkerGone'
      BY <2>3, <2>4 DEF InOrder, ProviderGone, WorkerGone
    <3>2. SessionGone'
      BY <1>0, <2>1, <2>4 DEF SessionGone, Down
    <3>3. QED
      BY <2>4, <3>1, <3>2 DEF IInv
<1>4. CASE ServiceCloses
  <2>1. /\ life.at = "closers" /\ life.left # <<>> /\ Head(life.left) = "service"
        /\ life' = [life EXCEPT !.at = "waiting"]
        /\ svc' = [svc EXCEPT !.started = FALSE]
        /\ wk' = Sent(wk, Close)
        /\ UNCHANGED <<turn, fence, pipe>>
    BY <1>4 DEF ServiceCloses, Sends
  <2>2. life.left = <<"service">>
    BY <1>0, <2>1 DEF InOrder
  <2>3. life'.at = "waiting" /\ life'.left = <<"service">>
    BY <1>0, <2>1, <2>2 DEF Shape
  <2>4. Shape' /\ svc'.turn = svc.turn /\ svc'.title = svc.title
    BY <1>0, <2>1, SentShape DEF Shape
  <2>5. QED
    BY <1>0, <2>1, <2>2, <2>3, <2>4 DEF IInv, InOrder, SessionGone, ProviderGone, WorkerGone, Down
<1>5. CASE WorkerEnded
  <2>1. /\ life.at = "waiting"
        /\ life' = [at |-> "closers", left |-> Tail(life.left)]
        /\ wk' = [wk EXCEPT !.alive = FALSE, !.in = <<>>, !.jobs = <<>>]
        /\ UNCHANGED <<turn, fence, pipe, svc>>
    BY <1>5 DEF WorkerEnded
  <2>2. life.left = <<"service">> /\ life'.left = <<>> /\ life'.at = "closers"
    <3>1. life.left = <<"service">>
      BY <1>0, <2>1 DEF InOrder
    <3>2. Tail(<<"service">>) = <<>>
      OBVIOUS
    <3>3. QED
      BY <2>1, <3>1, <3>2
  <2>3. Shape' /\ ~wk'.alive
    BY <1>0, <2>1 DEF Shape
  <2>4. QED
    BY <1>0, <2>1, <2>2, <2>3 DEF IInv, InOrder, SessionGone, ProviderGone, WorkerGone, Down
<1>6. CASE Closed
  <2>1. /\ life.at = "closers" /\ life.left = <<>>
        /\ life' = [life EXCEPT !.at = "closed"]
        /\ UNCHANGED <<turn, fence, pipe, svc, wk>>
    BY <1>6 DEF Closed
  <2>2. life'.at = "closed" /\ life'.left = <<>> /\ Shape'
    BY <1>0, <2>1 DEF Shape
  <2>3. QED
    BY <1>0, <2>1, <2>2 DEF IInv, InOrder, SessionGone, ProviderGone, WorkerGone, Down
<1>7. QED
  BY <1>1, <1>2, <1>3, <1>4, <1>5, <1>6 DEF EngineRuns

\* The inductive invariant of the engine's end: what has been closed stays closed, in
\* every reachable state.
THEOREM Invariance == Spec => []IInv
<1>1. Init => IInv
  BY Start
<1>2. IInv /\ [Next]_vars => IInv'
  <2>1. ASSUME IInv, Next
        PROVE  IInv'
    BY <2>1, TurnsKeep, PipelineKeeps, WorkerKeeps, LifeKeeps DEF Next
  <2>2. ASSUME IInv, UNCHANGED vars
        PROVE  IInv'
    BY <2>2 DEF IInv, Shape, InOrder, SessionGone, ProviderGone, WorkerGone, Down, vars
  <2>3. QED
    BY <2>1, <2>2
<1>3. QED
  BY <1>1, <1>2, PTL DEF Spec

\* A closed engine has no model worker and nothing brings one back (engine.py:475),
\* wherever turns, titles, cancellations and worker deaths were when it closed.
THEOREM WeightsAreReleased == Spec => []WeightsReleased
<1>1. IInv => WeightsReleased
  BY DEF IInv, InOrder, WorkerGone, WeightsReleased, Down
<1>2. QED
  BY <1>1, Invariance, PTL
-----------------------------------------------------------------------------
(* Whose words are where, and what is still on its way.                    *)

Active   == {"reading", "emitting", "draining"}
Finals   == {"last"} \cup Settled
Ats      == {"new"} \cup Active \cup Finals
Frames   == [kind : {"text", "usage", "end", "error", "cancelled"}, by : Turns, of : Nat]
Tags     == [gen : Nat, att : Turns, frame : Frames]
Asks     == [kind : {"context"}, att : Turns] \cup {Interruption}
Commands == [kind : {"generate", "cancel", "close"}, n : Nat, of : Nat]
Jobs     == [n : Nat, of : Nat, made : Nat]
Outputs  == [kind : {"token", "completed", "cancelled", "error"}, n : Nat, of : Nat]
Phases   == {"idle", "lock", "asking"}
TurnStates == [at : Ats, gen : Nat, words : SUBSET Nat, usage : Nat]
Services == [started : BOOLEAN, turn : Phases, att : {0} \cup Turns, title : Phases, titles : Nat,
             name : SUBSET Nat, lock : Seq({"turn", "title"})]
Workers  == [alive : BOOLEAN, in : Seq(Commands), jobs : Seq(Jobs), cancelled : SUBSET Nat,
             out : Seq(Outputs)]

Typed ==
  /\ gen \in Nat /\ stalled \subseteq Turns /\ metered \subseteq Turns /\ stash \in [Turns -> Nat]
  /\ overtaken \subseteq {0} \cup Turns
  /\ fence \in [at : {"idle", "stages", "waiting", "draining"}, prev : Nat, att : Nat, usage : Nat]
  /\ turn \in [Turns -> TurnStates]
  /\ prov \in [att : {0} \cup Turns, gen : Nat, queue : Seq(Tags), finished : BOOLEAN]
  /\ pipe \in [in : Seq(Asks), out : Seq(Frames)]
  /\ svc \in Services /\ (svc.turn # "idle" => svc.att \in Turns)
  /\ host \in [n : Nat, active : Nat, back : Nat]
  /\ wk \in Workers

\* The worker knows no generation the host has not asked for, and what it says under
\* the current one is the answer to whoever holds the lock.
Numbered(worker, n) ==
  /\ \A c \in ToSet(worker.in) : c.kind = "generate" => c.n <= n
  /\ \A j \in ToSet(worker.jobs) : j.n <= n
  /\ \A o \in ToSet(worker.out) : o.n <= n
Answers(worker, n, w) ==
  /\ \A c \in ToSet(worker.in) : c.kind = "generate" /\ c.n = n => c.of = w
  /\ \A j \in ToSet(worker.jobs) : j.n = n => j.of = w
  /\ \A o \in ToSet(worker.out) : o.n = n => o.of = w
HostFence ==
  /\ Numbered(wk, host.n)
  /\ svc.turn = "asking" => Holds("turn") /\ host.n >= 1 /\ Answers(wk, host.n, svc.att)
  /\ svc.title = "asking" => Holds("title") /\ host.n >= 1 /\ Answers(wk, host.n, 0)
  /\ svc.name \subseteq {0}

\* What is on its way to the collector for a turn, and what an interruption will find.
AskedIn(in, w)   == \E i \in DOMAIN in : in[i] = Context(w)
CoveredIn(in, w) ==
  \E i \in DOMAIN in : in[i] = Interruption /\ \A j \in DOMAIN in : i < j => in[j] # Context(w)
Served(w)   == svc.turn # "idle" /\ svc.att = w
Saying(w)   == \E f \in ToSet(pipe.out) : f.by = w
Upstream(w) == AskedIn(pipe.in, w) \/ Served(w) \/ Saying(w)
Cleared(w)  == ~Upstream(w) \/ CoveredIn(pipe.in, w)

\* A turn is asked for once, and the frame that ends its answer is the last of it.
Terminal(f) == f.kind \in {"end", "error"}
Words(f)    == f.kind # "cancelled"
OnceAsked(in) ==
  \A i, j \in DOMAIN in : i < j /\ in[i] # Interruption => in[i] # in[j]
OutOrdered(out) ==
  \A i, j \in DOMAIN out : i < j /\ Terminal(out[i]) => out[i].by # out[j].by
QueueOrdered(q) ==
  \A i, j \in DOMAIN q : i < j /\ Terminal(q[i].frame) /\ Words(q[j].frame)
                           => q[i].frame.of # q[j].frame.of
PipeTidy ==
  /\ OnceAsked(pipe.in) /\ OutOrdered(pipe.out)
  /\ \A w \in Turns : AskedIn(pipe.in, w) => ~Served(w) /\ ~Saying(w)
  /\ \A f \in ToSet(pipe.out) : /\ f.of = f.by /\ Words(f)
                                /\ Terminal(f) => ~Served(f.by)

\* As long as no attempt has overtaken another, whatever is upstream is the live
\* attempt's, unless a stall displaced the stream.
Own(w)     == w \in Turns /\ w <= prov.att /\ (w = prov.att \/ Displaced(w))
OwnStream  == \A w \in Turns : Upstream(w) => Own(w)
QueueTidy ==
  /\ QueueOrdered(prov.queue)
  /\ \A t \in ToSet(prov.queue) : /\ t.att = prov.att /\ t.gen = prov.gen
                                  /\ Words(t.frame) => Own(t.frame.of)
                                  /\ Terminal(t.frame) => ~Upstream(t.frame.of)

\* The turns come one after the other.
OneByOne ==
  /\ \A a \in Turns : /\ turn[a].at = "new" <=> a > prov.att
                      /\ turn[a].at \in Active => a = prov.att
                      /\ turn[a].gen <= gen
  /\ prov.att # 0 => prov.gen = turn[prov.att].gen
  /\ fence.at # "idle" => TurnsMayRun
  /\ life.at = "loading" => prov.att = 0
  /\ TurnsMayRun \/ \A a \in Turns : turn[a].at \in Settled \cup {"new"}

\* A turn that is over has nothing on its way, or the stream is displaced.
Spent(a) == /\ ~Upstream(a)
            /\ \A t \in ToSet(prov.queue) : Words(t.frame) => t.frame.of # a
OverIsSpent ==
  /\ prov.att # 0 /\ TurnsMayRun =>
       /\ turn[prov.att].at \in Finals => Displaced(prov.att) \/ Spent(prov.att)
       /\ prov.finished => turn[prov.att].at \in Finals
  /\ \A a \in Turns : turn[a].at = "draining" => Cleared(a)

\* What a fence has interrupted is gone when it has passed.
Passed == /\ prov.gen # gen
          /\ fence.at = "idle" \/ (fence.at = "stages" /\ prov.gen # fence.prev)
Fencing ==
  /\ fence.at = "stages" => fence.prev < gen /\ fence.usage = 0
  /\ fence.at \in {"waiting", "draining"} => prov.att # 0
  /\ prov.att # 0 /\ TurnsMayRun =>
       /\ Passed => ~Upstream(prov.att) /\ turn[prov.att].at \notin {"reading", "emitting"}
       /\ fence.at \in {"waiting", "draining"} =>
            /\ fence.att = prov.att /\ prov.gen # gen /\ Cleared(prov.att)
            /\ fence.at = "draining" => prov.finished
            /\ turn[prov.att].at \in {"reading", "emitting"} => prov.queue # <<>>

\* Words and usage of the turns; usage on its way to a turn that may still settle it.
Heard ==
  \A a \in Turns : /\ \A w \in turn[a].words : w = a \/ Displaced(w)
                   /\ turn[a].usage = 0 \/ turn[a].usage = a \/ Displaced(turn[a].usage)
Metered ==
  /\ \A a \in metered :
       \/ Displaced(a) \/ turn[a].usage = a
       \/ turn[a].at = "cancelled"
       \/ /\ turn[a].at \in Active
          /\ (turn[a].gen # gen \/ \E t \in ToSet(prov.queue) : t.frame.kind = "usage")
  /\ \A a \in Turns : stash[a] # 0 => Displaced(a)
  /\ fence.usage # 0 => Displaced(fence.att)

Stream == OwnStream /\ QueueTidy /\ OneByOne /\ OverIsSpent /\ Fencing /\ Heard /\ Metered

\* From the first attempt that was overtaken on, all that flows or reads is its own or a
\* later one's: the attempts before it were over, and had nothing on its way.
Mixed ==
  /\ prov.att # 0 /\ Displaced(prov.att)
  /\ \A w \in Turns : Upstream(w) => Displaced(w) /\ turn[w].at # "new"
  /\ \A t \in ToSet(prov.queue) : Words(t.frame) => Displaced(t.frame.of)
  /\ \A a \in Turns : turn[a].at \in {"new"} \cup Active => Displaced(a)
  /\ fence.at \in {"waiting", "draining"} => Displaced(fence.att)
  /\ Heard
  /\ \A a \in metered : Displaced(a) \/ turn[a].usage = a \/ turn[a].at = "cancelled"
  /\ \A a \in Turns : stash[a] # 0 => Displaced(a)

\* The inductive invariant of the stream.
StreamInv == /\ Typed /\ HostFence /\ PipeTidy /\ 0 \notin overtaken
             /\ IF overtaken = {} THEN Stream ELSE Mixed

-----------------------------------------------------------------------------
(* Sequences.                                                              *)

LEMMA TurnsAreNumbers == Turns \subseteq Nat \ {0}
BY AttemptAssumption DEF Turns

LEMMA ContextIsAsked == \A w \in Turns : Context(w) \in Asks /\ Context(w) # Interruption
BY DEF Context, Interruption, Asks

LEMMA ToSetTail ==
  ASSUME NEW S, NEW s \in Seq(S), s # <<>>
  PROVE  /\ Head(s) \in ToSet(s) /\ Head(s) \in S /\ Tail(s) \in Seq(S)
         /\ ToSet(Tail(s)) \subseteq ToSet(s)
         /\ \A x \in ToSet(s) : x = Head(s) \/ x \in ToSet(Tail(s))
<1>1. /\ 1 \in DOMAIN s /\ Head(s) = s[1] /\ Tail(s) \in Seq(S)
      /\ \A i \in DOMAIN Tail(s) : i + 1 \in DOMAIN s /\ Tail(s)[i] = s[i + 1]
      /\ \A i \in DOMAIN s : i # 1 => i - 1 \in DOMAIN Tail(s) /\ Tail(s)[i - 1] = s[i]
  OBVIOUS
<1>2. Head(s) \in ToSet(s) /\ Head(s) \in S /\ Tail(s) \in Seq(S)
  BY <1>1 DEF ToSet
<1>3. ToSet(Tail(s)) \subseteq ToSet(s)
  BY <1>1 DEF ToSet
<1>4. ASSUME NEW x \in ToSet(s), x # Head(s)
      PROVE  x \in ToSet(Tail(s))
  <2>1. PICK i \in DOMAIN s : x = s[i]
    BY DEF ToSet
  <2>2. i - 1 \in DOMAIN Tail(s) /\ Tail(s)[i - 1] = x
    BY <1>1, <1>4, <2>1
  <2>3. QED
    BY <2>2 DEF ToSet
<1>5. QED
  BY <1>2, <1>3, <1>4

LEMMA ToSetAppend ==
  ASSUME NEW S, NEW s \in Seq(S), NEW e \in S
  PROVE  /\ Append(s, e) \in Seq(S) /\ ToSet(Append(s, e)) = ToSet(s) \cup {e}
         /\ Append(s, e) # <<>>
<1>1. /\ DOMAIN Append(s, e) = 1..(Len(s) + 1) /\ Append(s, e)[Len(s) + 1] = e
      /\ \A i \in 1..Len(s) : Append(s, e)[i] = s[i] /\ i \in DOMAIN s
      /\ DOMAIN s = 1..Len(s) /\ Len(s) \in Nat
  OBVIOUS
<1>2. \A i \in 1..(Len(s) + 1) : i \in 1..Len(s) \/ i = Len(s) + 1
  BY <1>1
<1>3. ToSet(Append(s, e)) \subseteq ToSet(s) \cup {e}
  BY <1>1, <1>2 DEF ToSet
<1>4. ToSet(s) \subseteq ToSet(Append(s, e)) /\ e \in ToSet(Append(s, e))
  BY <1>1 DEF ToSet
<1>5. QED
  BY <1>1, <1>3, <1>4

LEMMA ToSetIn ==
  ASSUME NEW S, NEW s \in Seq(S)
  PROVE  ToSet(s) \subseteq S /\ (s = <<>> => ToSet(s) = {})
BY DEF ToSet

\* An interruption leaves every context and covers it.
LEMMA InterruptionAppended ==
  ASSUME NEW in \in Seq(Asks)
  PROVE  LET in2 == Append(in, Interruption) IN
         /\ in2 \in Seq(Asks)
         /\ OnceAsked(in) => OnceAsked(in2)
         /\ \A w : (AskedIn(in2, w) <=> AskedIn(in, w)) /\ CoveredIn(in2, w)
<1> DEFINE in2 == Append(in, Interruption)
<1>1. /\ DOMAIN in2 = 1..(Len(in) + 1) /\ in2[Len(in) + 1] = Interruption /\ in2 \in Seq(Asks)
      /\ \A i \in 1..Len(in) : in2[i] = in[i] /\ i \in DOMAIN in
      /\ DOMAIN in = 1..Len(in) /\ Len(in) \in Nat
  BY DEF Asks
<1> HIDE DEF in2
<1>2. \A i \in 1..(Len(in) + 1) : i \in 1..Len(in) \/ i = Len(in) + 1
  BY <1>1
<1>3. OnceAsked(in) => OnceAsked(in2)
  <2>1. SUFFICES ASSUME OnceAsked(in), NEW i \in DOMAIN in2, NEW j \in DOMAIN in2, i < j,
                        in2[i] # Interruption
                 PROVE  in2[i] # in2[j]
    BY DEF OnceAsked
  <2>2. i \in 1..Len(in) /\ (j \in 1..Len(in) \/ j = Len(in) + 1)
    BY <1>1, <2>1
  <2>3. QED
    BY <1>1, <2>1, <2>2 DEF OnceAsked
<1>4. \A w : AskedIn(in2, w) <=> AskedIn(in, w)
  <2>1. \A w : Context(w) # Interruption
    BY DEF Context, Interruption
  <2>2. QED
    BY <1>1, <1>2, <2>1 DEF AskedIn
<1>5. \A w : CoveredIn(in2, w)
  BY <1>1 DEF CoveredIn
<1>6. QED
  BY <1>1, <1>3, <1>4, <1>5 DEF in2

\* A new context is one more, asked for once, and no interruption covers it.
LEMMA ContextAppended ==
  ASSUME NEW in \in Seq(Asks), NEW a \in Turns, ~AskedIn(in, a)
  PROVE  LET in2 == Append(in, Context(a)) IN
         /\ in2 \in Seq(Asks)
         /\ OnceAsked(in) => OnceAsked(in2)
         /\ \A w \in Turns : AskedIn(in2, w) => AskedIn(in, w) \/ w = a
<1> DEFINE in2 == Append(in, Context(a))
<1>1. /\ DOMAIN in2 = 1..(Len(in) + 1) /\ in2[Len(in) + 1] = Context(a) /\ in2 \in Seq(Asks)
      /\ \A i \in 1..Len(in) : in2[i] = in[i] /\ i \in DOMAIN in
      /\ DOMAIN in = 1..Len(in) /\ Len(in) \in Nat
  BY ContextIsAsked
<1> HIDE DEF in2
<1>2. \A i \in 1..(Len(in) + 1) : i \in 1..Len(in) \/ i = Len(in) + 1
  BY <1>1
<1>3. OnceAsked(in) => OnceAsked(in2)
  <2>1. SUFFICES ASSUME OnceAsked(in), NEW i \in DOMAIN in2, NEW j \in DOMAIN in2, i < j,
                        in2[i] # Interruption
                 PROVE  in2[i] # in2[j]
    BY DEF OnceAsked
  <2>2. i \in 1..Len(in) /\ (j \in 1..Len(in) \/ j = Len(in) + 1)
    BY <1>1, <2>1
  <2>3. QED
    BY <1>1, <2>1, <2>2 DEF OnceAsked, AskedIn
<1>4. \A w \in Turns : AskedIn(in2, w) => AskedIn(in, w) \/ w = a
  <2>1. \A w \in Turns : Context(w) = Context(a) => w = a
    BY DEF Context
  <2>2. QED
    BY <1>1, <1>2, <2>1 DEF AskedIn
<1>5. QED
  BY <1>1, <1>3, <1>4 DEF in2

\* What is left of the line behind an entry.
LEMMA LineShortened ==
  ASSUME NEW in \in Seq(Asks), NEW k \in DOMAIN in
  PROVE  LET in2 == SubSeq(in, k + 1, Len(in)) IN
         /\ in2 \in Seq(Asks)
         /\ OnceAsked(in) => OnceAsked(in2) /\ (in[k] # Interruption => ~\E i \in DOMAIN in2 : in2[i] = in[k])
         /\ \A w : AskedIn(in2, w) => AskedIn(in, w)
         /\ \A w : CoveredIn(in, w) => CoveredIn(in2, w) \/ ~AskedIn(in2, w)
<1> DEFINE in2 == SubSeq(in, k + 1, Len(in))
<1>1. /\ in2 \in Seq(Asks) /\ DOMAIN in2 = 1..(Len(in) - k) /\ k \in 1..Len(in) /\ Len(in) \in Nat
      /\ DOMAIN in = 1..Len(in) /\ \A i \in 1..(Len(in) - k) : in2[i] = in[k + i]
  OBVIOUS
<1> HIDE DEF in2
<1>2. \A i \in DOMAIN in2 : i \in Nat /\ k + i \in DOMAIN in /\ in2[i] = in[k + i] /\ k < k + i
  BY <1>1
<1>3. \A i \in DOMAIN in : i > k => i - k \in DOMAIN in2 /\ in2[i - k] = in[i]
  BY <1>1
<1>4. OnceAsked(in) => OnceAsked(in2)
  <2>1. \A i, j \in DOMAIN in2 : i < j => k + i < k + j
    BY <1>1
  <2>2. QED
    BY <1>2, <2>1 DEF OnceAsked
<1>5. OnceAsked(in) /\ in[k] # Interruption => ~\E i \in DOMAIN in2 : in2[i] = in[k]
  BY <1>2 DEF OnceAsked
<1>6. \A w : AskedIn(in2, w) => AskedIn(in, w)
  BY <1>2 DEF AskedIn
<1>7. ASSUME NEW w, CoveredIn(in, w) PROVE CoveredIn(in2, w) \/ ~AskedIn(in2, w)
  <2>1. PICK i \in DOMAIN in : in[i] = Interruption /\ \A j \in DOMAIN in : i < j => in[j] # Context(w)
    BY <1>7 DEF CoveredIn
  <2>2. CASE i <= k
    <3>1. \A j \in DOMAIN in2 : i < k + j
      BY <1>1, <2>2
    <3>2. QED
      BY <1>2, <2>1, <3>1 DEF AskedIn
  <2>3. CASE i > k
    <3>1. \A j \in DOMAIN in2 : i - k < j => i < k + j
      BY <1>1
    <3>2. QED
      BY <1>2, <1>3, <2>1, <2>3, <3>1 DEF CoveredIn
  <2>4. QED
    BY <1>1, <2>2, <2>3
<1>8. QED
  BY <1>1, <1>4, <1>5, <1>6, <1>7 DEF in2

LEMMA TailIsSubSeq ==
  ASSUME NEW in \in Seq(Asks), in # <<>>
  PROVE  1 \in DOMAIN in /\ Head(in) = in[1] /\ Tail(in) = SubSeq(in, 1 + 1, Len(in))
OBVIOUS

\* The first context of the line is taken.
LEMMA ContextTaken ==
  ASSUME NEW in \in Seq(Asks), in # <<>>, Head(in).kind = "context", OnceAsked(in)
  PROVE  /\ Tail(in) \in Seq(Asks) /\ Head(in).att \in Turns /\ AskedIn(in, Head(in).att)
         /\ OnceAsked(Tail(in)) /\ ~AskedIn(Tail(in), Head(in).att)
         /\ \A w : AskedIn(Tail(in), w) => AskedIn(in, w)
         /\ \A w : CoveredIn(in, w) => CoveredIn(Tail(in), w)
<1>1. in[1] = Head(in) /\ 1 \in DOMAIN in /\ Tail(in) = SubSeq(in, 1 + 1, Len(in))
  BY TailIsSubSeq
<1>2. Head(in) \in Asks /\ Interruption.kind # "context"
  BY <1>1 DEF Interruption
<1>3. Head(in) = Context(Head(in).att) /\ Head(in).att \in Turns /\ Head(in) # Interruption
  BY <1>2 DEF Asks, Context
<1>4. /\ \A i \in DOMAIN in : i # 1 => i - 1 \in DOMAIN Tail(in) /\ Tail(in)[i - 1] = in[i]
      /\ \A j \in DOMAIN Tail(in) : j + 1 \in DOMAIN in /\ Tail(in)[j] = in[j + 1]
  OBVIOUS
<1>5. ASSUME NEW w, CoveredIn(in, w)
      PROVE  CoveredIn(Tail(in), w)
  <2>1. PICK i \in DOMAIN in : in[i] = Interruption /\ \A j \in DOMAIN in : i < j => in[j] # Context(w)
    BY <1>5 DEF CoveredIn
  <2>2. i - 1 \in DOMAIN Tail(in) /\ Tail(in)[i - 1] = Interruption
    BY <1>1, <1>3, <1>4, <2>1
  <2>3. \A j \in DOMAIN Tail(in) : i - 1 < j => i < j + 1
    OBVIOUS
  <2>4. QED
    BY <1>4, <2>1, <2>2, <2>3 DEF CoveredIn
<1>6. /\ Tail(in) \in Seq(Asks) /\ OnceAsked(Tail(in)) /\ ~\E i \in DOMAIN Tail(in) : Tail(in)[i] = in[1]
      /\ \A w : AskedIn(Tail(in), w) => AskedIn(in, w)
  BY <1>1, <1>3, LineShortened
<1>7. AskedIn(in, Head(in).att) /\ ~AskedIn(Tail(in), Head(in).att)
  BY <1>1, <1>3, <1>6 DEF AskedIn
<1>8. QED
  BY <1>3, <1>5, <1>6, <1>7

LEMMA LeastElement ==
  ASSUME NEW T \in SUBSET Nat, T # {}
  PROVE  \E n \in T : \A m \in T : n <= m
<1> DEFINE R == OpToRel(<, Nat)
<1>1. IsWellFoundedOn(R, Nat)
  BY NatLessThanWellFounded
<1>2. \A x, y \in Nat : y < x => <<y, x>> \in R
  BY DEF OpToRel
<1> HIDE DEF R
<1>3. PICK n \in T : \A m \in T : ~(<<m, n>> \in R)
  BY <1>1, WFMin
<1>4. ASSUME NEW m \in T PROVE n <= m
  <2>1. n \in Nat /\ m \in Nat
    OBVIOUS
  <2>2. ~(m < n)
    BY <1>2, <1>3, <2>1
  <2>3. QED
    BY <2>1, <2>2
<1>5. QED
  BY <1>3, <1>4

LEMMA FirstOf ==
  ASSUME NEW S, NEW s \in Seq(S), NEW e, \E i \in DOMAIN s : s[i] = e
  PROVE  LET k == SelectInSeq(s, LAMBDA x : x = e) IN
         /\ k \in DOMAIN s /\ s[k] = e /\ \A j \in DOMAIN s : j < k => s[j] # e
<1> DEFINE I == {i \in 1..Len(s) : s[i] = e}
<1>1. I # {} /\ I \in SUBSET Nat /\ DOMAIN s = 1..Len(s)
  OBVIOUS
<1>2. PICK n \in I : \A m \in I : n <= m
  BY <1>1, LeastElement
<1>3. SelectInSeq(s, LAMBDA x : x = e) = Min(I)
  BY <1>1 DEF SelectInSeq
<1>4. Min(I) \in I /\ \A m \in I : Min(I) <= m
  BY <1>2 DEF Min
<1>5. \A j \in DOMAIN s : s[j] = e => j \in I
  BY <1>1
<1>6. \A j \in DOMAIN s : j < Min(I) => s[j] # e
  BY <1>1, <1>4, <1>5
<1>7. QED
  BY <1>1, <1>3, <1>4, <1>6

\* Who leaves the line of the lock leaves the one in front where it is.
LEMMA LeftTheLine ==
  ASSUME NEW S, NEW s \in Seq(S), NEW e
  PROVE  /\ RemoveFirst(s, e) \in Seq(S)
         /\ s # <<>> /\ Head(s) # e => RemoveFirst(s, e) # <<>> /\ Head(RemoveFirst(s, e)) = Head(s)
<1> DEFINE k == SelectInSeq(s, LAMBDA x : x = e)
<1>0. DOMAIN s = 1..Len(s) /\ Len(s) \in Nat
  OBVIOUS
<1>1. CASE \E i \in 1..Len(s) : s[i] = e
  <2>1. k \in 1..Len(s) /\ s[k] = e
    BY <1>0, <1>1, FirstOf
  <2>2. RemoveFirst(s, e) = SubSeq(s, 1, k - 1) \o SubSeq(s, k + 1, Len(s))
    BY <1>1 DEF RemoveFirst, RemoveAt
  <2> HIDE DEF k
  <2>3. SubSeq(s, 1, k - 1) \in Seq(S) /\ SubSeq(s, k + 1, Len(s)) \in Seq(S)
    BY <1>0, <2>1
  <2>4. SubSeq(s, 1, k - 1) \o SubSeq(s, k + 1, Len(s)) \in Seq(S)
    BY <2>3
  <2>5. ASSUME s # <<>>, Head(s) # e
        PROVE  RemoveFirst(s, e) # <<>> /\ Head(RemoveFirst(s, e)) = Head(s)
    <3>1. k # 1 /\ k - 1 >= 1
      BY <2>1, <2>5
    <3>2. Len(SubSeq(s, 1, k - 1)) = k - 1 /\ SubSeq(s, 1, k - 1)[1] = s[1]
      BY <1>0, <2>1, <3>1
    <3>3. (SubSeq(s, 1, k - 1) \o SubSeq(s, k + 1, Len(s)))[1] = s[1]
          /\ Len(SubSeq(s, 1, k - 1) \o SubSeq(s, k + 1, Len(s))) >= 1
      BY <2>1, <2>3, <3>1, <3>2
    <3>4. QED
      BY <2>2, <2>4, <2>5, <3>3
  <2>6. QED
    BY <2>2, <2>4, <2>5
<1>2. CASE ~\E i \in 1..Len(s) : s[i] = e
  BY <1>2 DEF RemoveFirst
<1>3. QED
  BY <1>1, <1>2

-----------------------------------------------------------------------------
(* Types.                                                                  *)

LEMMA TagsTyped ==
  /\ \A k \in {"text", "usage", "end", "error", "cancelled"}, w \in Turns, n \in Nat : Frame(k, w, n) \in Frames
  /\ \A g \in Nat, w \in Turns : CancelledTag(g, w) \in Tags
  /\ \A q \in Seq(Tags), t \in Tags : Offered(q, t) \in Seq(Tags)
  /\ Context(0).kind = "context" /\ Interruption \in Asks
<1>1. \A k \in {"text", "usage", "end", "error", "cancelled"}, w \in Turns, n \in Nat : Frame(k, w, n) \in Frames
  BY DEF Frame, Frames
<1>2. \A g \in Nat, w \in Turns : CancelledTag(g, w) \in Tags
  BY <1>1, TurnsAreNumbers DEF CancelledTag, Tagged, Tags
<1>3. QED
  BY <1>1, <1>2 DEF Offered, Context, Asks

LEMMA TurnRecord ==
  ASSUME NEW s \in TurnStates
  PROVE  /\ s.at \in Ats /\ s.gen \in Nat /\ s.words \subseteq Nat /\ s.usage \in Nat
         /\ \A x \in Ats : [s EXCEPT !.at = x] \in TurnStates
         /\ \A x \in Nat : [s EXCEPT !.usage = x] \in TurnStates
         /\ \A x \in Ats, g \in Nat : [s EXCEPT !.at = x, !.gen = g] \in TurnStates
         /\ \A x \in Ats, n \in Nat :
              [s EXCEPT !.at = x, !.words = @ \cup {n}] \in TurnStates
<1>1. /\ s.at \in Ats /\ s.gen \in Nat /\ s.words \in SUBSET Nat
      /\ s.usage \in Nat
  BY DEF TurnStates
<1>2. ASSUME NEW x \in Ats PROVE [s EXCEPT !.at = x] \in TurnStates
  BY DEF TurnStates
<1>3. ASSUME NEW x \in Nat PROVE [s EXCEPT !.usage = x] \in TurnStates
  BY DEF TurnStates
<1>4. ASSUME NEW x \in Ats, NEW n \in Nat
      PROVE  [s EXCEPT !.at = x, !.gen = n] \in TurnStates
  BY DEF TurnStates
<1>5. ASSUME NEW x \in Ats, NEW n \in Nat
      PROVE  [s EXCEPT !.at = x, !.words = @ \cup {n}] \in TurnStates
  <2>1. s.words \cup {n} \in SUBSET Nat
    BY <1>1
  <2>2. \A v \in SUBSET Nat : [s EXCEPT !.at = x, !.words = v] \in TurnStates
    BY DEF TurnStates
  <2>3. QED
    BY <2>1, <2>2
<1>6. QED
  BY <1>1, <1>2, <1>3, <1>4, <1>5

LEMMA TurnMoves ==
  ASSUME turn \in [Turns -> TurnStates], NEW a \in Turns,
         \/ turn' = turn
         \/ \E x \in Ats : turn' = [turn EXCEPT ![a].at = x]
         \/ \E n \in Nat : turn' = [turn EXCEPT ![a].usage = n]
         \/ \E x \in Ats, n \in Nat : turn' = [turn EXCEPT ![a].at = x, ![a].gen = n]
         \/ \E x \in Ats, n \in Nat : turn' = [turn EXCEPT ![a].at = x, ![a].words = @ \union {n}]
  PROVE  turn' \in [Turns -> TurnStates]
<1>1. ASSUME NEW x \in Ats, turn' = [turn EXCEPT ![a].at = x]
      PROVE  turn' \in [Turns -> TurnStates]
  BY <1>1 DEF TurnStates
<1>2. ASSUME NEW n \in Nat, turn' = [turn EXCEPT ![a].usage = n]
      PROVE  turn' \in [Turns -> TurnStates]
  BY <1>2 DEF TurnStates
<1>3. ASSUME NEW x \in Ats, NEW n \in Nat, turn' = [turn EXCEPT ![a].at = x, ![a].gen = n]
      PROVE  turn' \in [Turns -> TurnStates]
  <2>1. turn[a] \in TurnStates
    OBVIOUS
  <2>2. [turn[a] EXCEPT !.at = x, !.gen = n] \in TurnStates
    BY <2>1, TurnRecord
  <2>3. turn' = [turn EXCEPT ![a] = [turn[a] EXCEPT !.at = x, !.gen = n]]
    BY <1>3
  <2>4. QED
    BY <2>2, <2>3
<1>4. ASSUME NEW x \in Ats, NEW n \in Nat,
             turn' = [turn EXCEPT ![a].at = x, ![a].words = @ \union {n}]
      PROVE  turn' \in [Turns -> TurnStates]
  <2>1. turn[a] \in TurnStates
    OBVIOUS
  <2>2. [turn[a] EXCEPT !.at = x, !.words = @ \union {n}] \in TurnStates
    BY <2>1, TurnRecord
  <2>3. turn' = [turn EXCEPT ![a] = [turn[a] EXCEPT !.at = x, !.words = @ \union {n}]]
    BY <1>4
  <2>4. QED
    BY <2>2, <2>3
<1>5. QED
  BY <1>1, <1>2, <1>3, <1>4

LEMMA ReadCases ==
  ASSUME NEW a, Read(a)
  PROVE  LET t == Head(prov.queue) IN
         /\ turn[a].at = "reading" /\ prov.queue # <<>>
         /\ UNCHANGED <<life, gen, fence, stash, svc, host, wk, stalled, overtaken, metered, faults>>
         /\ \/ /\ ~Belongs(t, a) /\ UNCHANGED <<turn, pipe>>
               /\ prov' = [prov EXCEPT !.queue = Tail(@)]
            \/ /\ Belongs(t, a) /\ turn[a].gen # gen
               /\ turn' = [turn EXCEPT ![a].at = "draining"]
               /\ Interrupts(turn[a].gen, a, Tail(prov.queue))
            \/ /\ Belongs(t, a) /\ turn[a].gen = gen /\ t.frame.kind = "text" /\ UNCHANGED pipe
               /\ prov' = [prov EXCEPT !.queue = Tail(@)]
               /\ \E at \in {"reading", "emitting"} :
                   turn' = [turn EXCEPT ![a].at = at, ![a].words = @ \union {t.frame.of}]
            \/ /\ Belongs(t, a) /\ turn[a].gen = gen /\ t.frame.kind = "usage" /\ UNCHANGED pipe
               /\ prov' = [prov EXCEPT !.queue = Tail(@)]
               /\ turn' = [turn EXCEPT ![a].usage = t.frame.of]
            \/ /\ Belongs(t, a) /\ turn[a].gen = gen /\ Terminal(t.frame) /\ UNCHANGED pipe
               /\ prov' = [prov EXCEPT !.queue = Tail(@), !.finished = TRUE]
               /\ \E at \in {"last", "failed"} : turn' = [turn EXCEPT ![a].at = at]
BY Zenon DEF Read, Ends, Terminal

LEMMA TypedTurns ==
  ASSUME Typed, NEW a \in Turns, Begin(a) \/ TurnRuns(a) \/ Stall(a)
  PROVE  Typed'
<1> DEFINE t == Head(prov.queue)
<1>0. /\ gen \in Nat /\ turn \in [Turns -> TurnStates] /\ stalled \subseteq Turns
      /\ overtaken \subseteq {0} \cup Turns
      /\ fence \in [at : {"idle", "stages", "waiting", "draining"}, prev : Nat, att : Nat, usage : Nat]
      /\ prov \in [att : {0} \cup Turns, gen : Nat, queue : Seq(Tags), finished : BOOLEAN]
      /\ pipe \in [in : Seq(Asks), out : Seq(Frames)]
  BY DEF Typed
<1>1. UNCHANGED <<gen, metered, stash, svc, host, wk>>
  BY DEF Begin, TurnRuns, Stall, Read, EmitReturns, LastEmit, DrainTakes, DrainEnds
<1>2. prov.queue \in Seq(Tags) /\ turn[a] \in TurnStates /\ turn[a].gen \in Nat
  BY <1>0 DEF TurnStates
<1>3. prov.queue # <<>> => /\ t \in Tags /\ Tail(prov.queue) \in Seq(Tags) /\ t.frame.of \in Nat
  <2>1. prov.queue # <<>> => t \in Tags /\ Tail(prov.queue) \in Seq(Tags)
    BY <1>2
  <2>2. QED
    BY <2>1 DEF Tags, Frames
<1>4. ASSUME NEW q \in Seq(Tags), Interrupts(turn[a].gen, a, q)
      PROVE  /\ prov' \in [att : {0} \cup Turns, gen : Nat, queue : Seq(Tags), finished : BOOLEAN]
             /\ pipe' \in [in : Seq(Asks), out : Seq(Frames)]
  <2>1. CancelledTag(turn[a].gen, a) \in Tags /\ Interruption \in Asks
    BY <1>2, TagsTyped
  <2>2. Offered(q, CancelledTag(turn[a].gen, a)) \in Seq(Tags) /\ Append(pipe.in, Interruption) \in Seq(Asks)
    BY <1>0, <2>1, TagsTyped
  <2>3. QED
    BY <1>0, <1>4, <2>2 DEF Interrupts
<1>5. /\ prov' \in [att : {0} \cup Turns, gen : Nat, queue : Seq(Tags), finished : BOOLEAN]
      /\ pipe' \in [in : Seq(Asks), out : Seq(Frames)]
  <2>1. CASE Begin(a)
    <3>1. prov' = [att |-> a, gen |-> gen, queue |-> <<>>, finished |-> FALSE]
      BY <2>1 DEF Begin, LiveAttempt
    <3>2. Append(pipe.in, Context(a)) \in Seq(Asks)
      BY <1>0, ContextIsAsked
    <3>3. pipe' = [pipe EXCEPT !.in = Append(@, Context(a))]
      BY <2>1 DEF Begin
    <3>4. pipe' \in [in : Seq(Asks), out : Seq(Frames)]
      BY <1>0, <3>2, <3>3
    <3>5. QED
      BY <1>0, <3>1, <3>4
  <2>2. CASE Read(a)
    <3>1. prov.queue # <<>>
      BY <2>2 DEF Read
    <3>2. \/ Interrupts(turn[a].gen, a, Tail(prov.queue))
          \/ pipe' = pipe /\ prov' = [prov EXCEPT !.queue = Tail(@)]
          \/ pipe' = pipe /\ prov' = [prov EXCEPT !.queue = Tail(@), !.finished = TRUE]
      BY <2>2, ReadCases, Zenon
    <3>3. QED
      BY <1>0, <1>3, <1>4, <3>1, <3>2
  <2>3. CASE EmitReturns(a)
    BY <1>0, <1>2, <1>4, <2>3 DEF EmitReturns
  <2>4. CASE DrainTakes(a)
    BY <1>0, <1>3, <2>4 DEF DrainTakes
  <2>5. CASE LastEmit(a) \/ DrainEnds(a)
    BY <1>0, <2>5 DEF LastEmit, DrainEnds
  <2>6. CASE Stall(a)
    <3>1. \/ pipe' = pipe /\ prov' = [prov EXCEPT !.finished = TRUE]
          \/ Interrupts(turn[a].gen, a, <<>>)
      BY <2>6 DEF Stall
    <3>2. <<>> \in Seq(Tags)
      OBVIOUS
    <3>3. QED
      BY <1>0, <1>4, <3>1, <3>2
  <2>7. QED
    BY <2>1, <2>2, <2>3, <2>4, <2>5, <2>6 DEF TurnRuns
<1>6. turn' \in [Turns -> TurnStates]
  <2>1. {"new", "reading", "emitting", "draining", "last", "completed", "failed", "cancelled"}
          = Ats
    BY DEF Ats, Active, Finals, Settled
  <2>2. CASE Begin(a)
    <3>1. "reading" \in Ats /\ turn' = [turn EXCEPT ![a].at = "reading", ![a].gen = gen]
      BY <2>1, <2>2 DEF Begin
    <3>2. QED
      BY <1>0, <3>1, TurnMoves
  <2>3. CASE EmitReturns(a) \/ LastEmit(a) \/ DrainEnds(a) \/ Stall(a)
    <3>1. \E x \in Ats : turn' = [turn EXCEPT ![a].at = x]
      BY <2>1, <2>3, Zenon DEF EmitReturns, LastEmit, DrainEnds, Stall
    <3>2. QED
      BY <1>0, <3>1, TurnMoves
  <2>4. CASE DrainTakes(a)
    <3>1. prov.queue # <<>>
      BY <2>4 DEF DrainTakes
    <3>2. turn' = turn \/ turn' = [turn EXCEPT ![a].usage = t.frame.of]
      BY <2>4, Zenon DEF DrainTakes
    <3>3. QED
      BY <1>0, <1>3, <3>1, <3>2, TurnMoves
  <2>5. CASE Read(a)
    <3>1. prov.queue # <<>> /\ t.frame.of \in Nat
      BY <1>3, <2>5 DEF Read
    <3>2. \/ turn' = turn \/ turn' = [turn EXCEPT ![a].usage = t.frame.of]
          \/ \E at \in {"draining", "last", "failed"} : turn' = [turn EXCEPT ![a].at = at]
          \/ \E at \in {"reading", "emitting"} :
                turn' = [turn EXCEPT ![a].at = at, ![a].words = @ \union {t.frame.of}]
      BY <2>5, ReadCases, Zenon
    <3>3. {"draining", "last", "failed"} \subseteq Ats /\ {"reading", "emitting"} \subseteq Ats
      BY <2>1
    <3>4. CASE \E at \in {"draining", "last", "failed"} : turn' = [turn EXCEPT ![a].at = at]
      <4>1. \E x \in Ats : turn' = [turn EXCEPT ![a].at = x]
        BY <3>3, <3>4
      <4>2. QED
        BY <1>0, <4>1, TurnMoves
    <3>5. CASE \E at \in {"reading", "emitting"} :
                turn' = [turn EXCEPT ![a].at = at, ![a].words = @ \union {t.frame.of}]
      <4>1. \E x \in Ats : turn' = [turn EXCEPT ![a].at = x, ![a].words = @ \union {t.frame.of}]
        BY <3>3, <3>5
      <4>2. QED
        BY <1>0, <3>1, <4>1, TurnMoves
    <3>6. CASE turn' = turn \/ turn' = [turn EXCEPT ![a].usage = t.frame.of]
      BY <1>0, <3>1, <3>6, TurnMoves
    <3>7. QED
      BY <3>2, <3>4, <3>5, <3>6
  <2>6. QED
    BY <2>2, <2>3, <2>4, <2>5 DEF TurnRuns
<1>7. stalled' \subseteq Turns /\ overtaken' \subseteq {0} \cup Turns
  <2>1. stalled' = stalled \/ stalled' = stalled \cup {a}
    BY Zenon DEF Begin, TurnRuns, Stall, Read, EmitReturns, LastEmit, DrainTakes, DrainEnds
  <2>2. overtaken' = overtaken \/ overtaken' = overtaken \cup {prov.att}
    BY Zenon DEF Begin, TurnRuns, Stall, Read, EmitReturns, LastEmit, DrainTakes, DrainEnds
  <2>3. prov.att \in {0} \cup Turns
    BY <1>0
  <2>4. QED
    BY <1>0, <2>1, <2>2, <2>3
<1>8. fence' \in [at : {"idle", "stages", "waiting", "draining"}, prev : Nat, att : Nat, usage : Nat]
  <2>1. fence' = fence \/ fence' = [fence EXCEPT !.at = "draining"]
    BY Zenon DEF Begin, TurnRuns, Stall, Read, EmitReturns, LastEmit, DrainTakes, DrainEnds
  <2>2. QED
    BY <1>0, <2>1
<1>9. QED
  BY <1>1, <1>5, <1>6, <1>7, <1>8 DEF Typed

LEMMA TypedFences ==
  ASSUME Typed, FenceMoves \/ CloseBegins \/ HookRuns \/ Gathers
  PROVE  Typed'
<1>0. /\ gen \in Nat /\ fence \in [at : {"idle", "stages", "waiting", "draining"}, prev : Nat, att : Nat, usage : Nat]
      /\ prov \in [att : {0} \cup Turns, gen : Nat, queue : Seq(Tags), finished : BOOLEAN]
      /\ pipe \in [in : Seq(Asks), out : Seq(Frames)] /\ stash \in [Turns -> Nat] /\ metered \subseteq Turns
  BY DEF Typed
<1>1. UNCHANGED <<stalled, overtaken, turn, svc, host, wk>>
  BY
    DEF FenceMoves, CloseBegins, HookRuns, HookStarts, HookWakes, HookTimesOut, HookTakes,
        HookEnds, Gathers
<1>2. Turns \subseteq Nat /\ NoFence \in [at : {"idle", "stages", "waiting", "draining"}, prev : Nat, att : Nat, usage : Nat]
  BY TurnsAreNumbers DEF NoFence
<1>3. CASE FenceMoves \/ CloseBegins
  <2>1. gen' \in Nat /\ UNCHANGED <<prov, stash, pipe, metered>>
    BY <1>0, <1>3 DEF FenceMoves, CloseBegins
  <2>2. fence' \in [at : {"idle", "stages", "waiting", "draining"}, prev : Nat, att : Nat, usage : Nat]
    BY <1>0, <1>3, Zenon DEF FenceMoves, CloseBegins, NoFence
  <2>3. QED
    BY <1>1, <2>1, <2>2 DEF Typed
<1>4. CASE HookStarts
  <2>1. UNCHANGED <<gen, stash, metered>>
    BY <1>4 DEF HookStarts
  <2>2. CASE fence' = NoFence /\ UNCHANGED <<pipe, prov>>
    BY <1>1, <1>2, <2>1, <2>2 DEF Typed
  <2>3. CASE /\ prov.att # 0 /\ Interrupts(prov.gen, prov.att, prov.queue)
             /\ fence' = [fence EXCEPT !.at = WaitsForStream, !.att = prov.att]
    <3>1. CancelledTag(prov.gen, prov.att) \in Tags /\ Interruption \in Asks
      BY <1>0, <2>3, TagsTyped
    <3>2. Offered(prov.queue, CancelledTag(prov.gen, prov.att)) \in Seq(Tags)
          /\ Append(pipe.in, Interruption) \in Seq(Asks)
      BY <1>0, <3>1, TagsTyped
    <3>3. fence' \in [at : {"idle", "stages", "waiting", "draining"}, prev : Nat, att : Nat, usage : Nat]
      BY <1>0, <1>2, <2>3 DEF WaitsForStream
    <3>4. /\ prov' \in [att : {0} \cup Turns, gen : Nat, queue : Seq(Tags), finished : BOOLEAN]
          /\ pipe' \in [in : Seq(Asks), out : Seq(Frames)]
      BY <1>0, <2>3, <3>2 DEF Interrupts
    <3>5. QED
      BY <1>1, <2>1, <3>3, <3>4 DEF Typed
  <2>4. QED
    BY <1>4, <2>2, <2>3 DEF HookStarts
<1>5. CASE HookWakes \/ HookTimesOut
  <2>1. fence' \in [at : {"idle", "stages", "waiting", "draining"}, prev : Nat, att : Nat, usage : Nat]
    BY <1>0, <1>2, <1>5 DEF HookWakes, HookTimesOut
  <2>2. QED
    BY <1>1, <1>5, <2>1 DEF HookWakes, HookTimesOut, Typed
<1>6. CASE HookTakes
  <2>1. Head(prov.queue) \in Tags /\ Tail(prov.queue) \in Seq(Tags)
    BY <1>0, <1>6 DEF HookTakes
  <2>2. Head(prov.queue).frame.of \in Nat
    BY <2>1 DEF Tags, Frames
  <2>3. fence' \in [at : {"idle", "stages", "waiting", "draining"}, prev : Nat, att : Nat, usage : Nat]
    BY <1>0, <1>6, <2>2 DEF HookTakes
  <2>4. prov' \in [att : {0} \cup Turns, gen : Nat, queue : Seq(Tags), finished : BOOLEAN]
    BY <1>0, <1>6, <2>1 DEF HookTakes
  <2>5. QED
    BY <1>1, <1>6, <2>3, <2>4 DEF HookTakes, Typed
<1>7. CASE HookEnds
  <2>1. stash' \in [Turns -> Nat] /\ fence' = NoFence /\ UNCHANGED <<gen, prov, pipe, metered>>
    BY <1>0, <1>7 DEF HookEnds
  <2>2. QED
    BY <1>1, <1>2, <2>1 DEF Typed
<1>8. CASE Gathers
  <2> DEFINE t == Tagged(prov.gen, prov.att, Head(pipe.out))
  <2>1. /\ pipe.out # <<>> /\ pipe' = [pipe EXCEPT !.out = Tail(@)]
        /\ prov' = [prov EXCEPT !.queue = Offered(@, t)]
        /\ (metered' = metered \/ (metered' = metered \cup {t.att} /\ Offered(prov.queue, t) # prov.queue))
        /\ UNCHANGED <<gen, fence, stash>>
    <3>1. /\ pipe.out # <<>> /\ pipe' = [pipe EXCEPT !.out = Tail(@)]
          /\ prov' = [prov EXCEPT !.queue = Offered(@, t)]
          /\ (metered' = metered \/ (metered' = metered \cup {t.att} /\ prov'.queue # prov.queue))
          /\ UNCHANGED <<gen, fence, stash>>
      <4>1. /\ pipe.out # <<>> /\ pipe' = [pipe EXCEPT !.out = Tail(@)]
            /\ prov' = [prov EXCEPT !.queue = Offered(@, t)]
            /\ metered' = IF /\ t.frame.kind = "usage" /\ prov'.queue # prov.queue
                             /\ turn[t.att].at \notin Settled
                          THEN metered \union {t.att} ELSE metered
            /\ UNCHANGED <<gen, fence, stash>>
        BY <1>8, Zenon DEF Gathers
      <4>2. (metered' = metered \/ (metered' = metered \cup {t.att} /\ prov'.queue # prov.queue))
        BY <4>1
      <4>3. QED
        BY <4>1, <4>2
    <3>2. prov'.queue = Offered(prov.queue, t)
      BY <1>0, <3>1
    <3>3. QED
      BY <3>1, <3>2
  <2>2. Head(pipe.out) \in Frames /\ Tail(pipe.out) \in Seq(Frames)
    BY <1>0, <2>1
  <2>3. t.att = prov.att /\ (prov.att # 0 => t \in Tags)
    BY <1>0, <2>2 DEF Tagged, Tags
  <2>4. Offered(prov.queue, t) \in Seq(Tags)
    BY <1>0, <2>3, TagsTyped DEF Offered
  <2>5. metered' \subseteq Turns
    BY <1>0, <2>1, <2>3 DEF Offered
  <2>6. /\ prov' \in [att : {0} \cup Turns, gen : Nat, queue : Seq(Tags), finished : BOOLEAN]
        /\ pipe' \in [in : Seq(Asks), out : Seq(Frames)]
    BY <1>0, <2>1, <2>2, <2>4
  <2>7. QED
    BY <1>1, <2>1, <2>5, <2>6 DEF Typed
<1>9. QED
  BY <1>3, <1>4, <1>5, <1>6, <1>7, <1>8 DEF HookRuns

\* What is sent, cancelled or spawned leaves a worker.
LEMMA SentTyped ==
  ASSUME NEW worker \in Workers, NEW command \in Commands
  PROVE  Sent(worker, command) \in Workers
<1>1. Append(worker.in, command) \in Seq(Commands)
  BY DEF Workers
<1>2. \A l \in Seq(Commands) : [worker EXCEPT !.in = l] \in Workers
  BY DEF Workers
<1>3. QED
  BY <1>1, <1>2 DEF Sent

LEMMA CommandsTyped ==
  /\ \A n \in Nat, w \in Nat : Generate(n, w) \in Commands
  /\ \A n \in Nat : Cancel(n) \in Commands
  /\ Close \in Commands /\ NoMoreJobs \in Jobs /\ \A n, w \in Nat : Job(n, w) \in Jobs
  /\ Spawned \in Workers
BY DEF Generate, Cancel, Close, NoMoreJobs, Job, Jobs, Commands, Spawned, Workers

LEMMA CancelTyped ==
  ASSUME wk \in Workers, host \in [n : Nat, active : Nat, back : Nat],
         CancelsActive \/ UNCHANGED wk
  PROVE  wk' \in Workers /\ (wk' = wk \/ wk' = Sent(wk, Cancel(host.active)))
<1>1. wk' = wk \/ wk' = Sent(wk, Cancel(host.active))
  BY DEF CancelsActive, Sends
<1>2. Cancel(host.active) \in Commands
  BY CommandsTyped
<1>3. QED
  BY <1>1, <1>2, SentTyped

\* The service as it moves.
LEMMA ServiceMoves ==
  ASSUME svc \in Services
  PROVE  /\ [svc EXCEPT !.turn = "idle", !.att = 0, !.lock = RemoveFirst(@, "turn")] \in Services
         /\ [svc EXCEPT !.title = "idle", !.lock = RemoveFirst(@, "title")] \in Services
         /\ svc.lock # <<>> => /\ [svc EXCEPT !.turn = "idle", !.att = 0, !.lock = Tail(@)] \in Services
                               /\ [svc EXCEPT !.title = "idle", !.lock = Tail(@)] \in Services
         /\ \A w \in Turns : [svc EXCEPT !.turn = "lock", !.att = w, !.lock = Append(@, "turn")] \in Services
         /\ [svc EXCEPT !.title = "lock", !.titles = @ + 1, !.name = {}, !.lock = Append(@, "title")] \in Services
         /\ [svc EXCEPT !.turn = "asking", !.started = TRUE] \in Services
         /\ [svc EXCEPT !.title = "asking", !.started = TRUE] \in Services
         /\ \A s \in BOOLEAN : [svc EXCEPT !.started = s] \in Services
         /\ \A n \in Nat : [svc EXCEPT !.name = @ \union {n}] \in Services
<1>1. /\ svc.lock \in Seq({"turn", "title"}) /\ svc.name \in SUBSET Nat /\ svc.titles \in Nat
  BY DEF Services
<1>2. /\ RemoveFirst(svc.lock, "turn") \in Seq({"turn", "title"})
      /\ RemoveFirst(svc.lock, "title") \in Seq({"turn", "title"})
      /\ Append(svc.lock, "turn") \in Seq({"turn", "title"})
      /\ Append(svc.lock, "title") \in Seq({"turn", "title"})
      /\ svc.lock # <<>> => Tail(svc.lock) \in Seq({"turn", "title"})
  BY <1>1, LeftTheLine
<1>3. ASSUME NEW l \in Seq({"turn", "title"})
      PROVE  /\ [svc EXCEPT !.turn = "idle", !.att = 0, !.lock = l] \in Services
             /\ [svc EXCEPT !.title = "idle", !.lock = l] \in Services
  BY DEF Services, Phases
<1>4. ASSUME NEW l \in Seq({"turn", "title"}), NEW w \in Turns
      PROVE  [svc EXCEPT !.turn = "lock", !.att = w, !.lock = l] \in Services
  BY DEF Services, Phases
<1>5. ASSUME NEW l \in Seq({"turn", "title"}), NEW n \in Nat
      PROVE  [svc EXCEPT !.title = "lock", !.titles = n, !.name = {}, !.lock = l] \in Services
  BY DEF Services, Phases
<1>6. /\ [svc EXCEPT !.turn = "asking", !.started = TRUE] \in Services
      /\ [svc EXCEPT !.title = "asking", !.started = TRUE] \in Services
  BY DEF Services, Phases
<1>7. ASSUME NEW s \in BOOLEAN PROVE [svc EXCEPT !.started = s] \in Services
  BY DEF Services
<1>8. ASSUME NEW n \in Nat PROVE [svc EXCEPT !.name = @ \union {n}] \in Services
  <2>1. svc.name \cup {n} \in SUBSET Nat
    BY <1>1
  <2>2. \A v \in SUBSET Nat : [svc EXCEPT !.name = v] \in Services
    BY DEF Services
  <2>3. QED
    BY <2>1, <2>2
<1>9. svc.titles + 1 \in Nat
  BY <1>1
<1>10. QED
  BY <1>2, <1>3, <1>4, <1>5, <1>6, <1>7, <1>8, <1>9

Lines == [in : Seq(Asks), out : Seq(Frames)]
Hosts == [n : Nat, active : Nat, back : Nat]

\* What the typed state consists of, for the steps of the pipeline.
LEMMA TypedParts ==
  ASSUME Typed
  PROVE  /\ pipe \in Lines /\ svc \in Services /\ host \in Hosts /\ wk \in Workers
         /\ svc.turn # "idle" => svc.att \in Turns /\ svc.att \in Nat
         /\ wk.in # <<>> => Head(wk.in) \in Commands /\ Tail(wk.in) \in Seq(Commands)
         /\ wk.jobs # <<>> => Head(wk.jobs) \in Jobs /\ Tail(wk.jobs) \in Seq(Jobs)
         /\ wk.out # <<>> => Head(wk.out) \in Outputs /\ Tail(wk.out) \in Seq(Outputs)
<1>1. /\ pipe \in Lines /\ svc \in Services /\ host \in Hosts /\ wk \in Workers
      /\ svc.turn # "idle" => svc.att \in Turns
  BY DEF Typed, Lines, Hosts
<1>2. wk.in \in Seq(Commands) /\ wk.jobs \in Seq(Jobs) /\ wk.out \in Seq(Outputs)
  BY <1>1 DEF Workers
<1>3. /\ wk.in # <<>> => Head(wk.in) \in Commands /\ Tail(wk.in) \in Seq(Commands)
      /\ wk.jobs # <<>> => Head(wk.jobs) \in Jobs /\ Tail(wk.jobs) \in Seq(Jobs)
      /\ wk.out # <<>> => Head(wk.out) \in Outputs /\ Tail(wk.out) \in Seq(Outputs)
  BY <1>2, ToSetTail
<1>4. QED
  BY <1>1, <1>3, TurnsAreNumbers

LEMMA TypedKept ==
  ASSUME Typed, UNCHANGED <<gen, fence, turn, prov, stash, stalled, overtaken, metered>>,
         pipe' \in Lines, svc' \in Services, host' \in Hosts, wk' \in Workers,
         svc'.turn # "idle" => svc'.att \in Turns
  PROVE  Typed'
BY DEF Typed, Lines, Hosts

\* What a frame of the worker becomes.
LEMMA CollectCases ==
  ASSUME TurnCollects
  PROVE  LET f == Head(wk.out) a == svc.att IN
         /\ svc.turn = "asking" /\ wk.out # <<>> /\ wk' = [wk EXCEPT !.out = Tail(@)]
         /\ \/ UNCHANGED <<svc, host, pipe>>
            \/ f.n = host.n /\ UNCHANGED <<svc, host>> /\ Pushes(<<Frame("text", a, f.of)>>)
            \/ f.n = host.n /\ TurnReturns /\ Pushes(<<Frame("error", a, f.of)>>)
            \/ f.n = host.n /\ TurnReturns /\ Pushes(<<Frame("usage", a, f.of), Frame("end", a, f.of)>>)
BY Zenon DEF TurnCollects, Current

LEMMA Pushed ==
  ASSUME pipe \in Lines, NEW frames \in Seq(Frames), Pushes(frames)
  PROVE  pipe' \in Lines /\ pipe'.in = pipe.in /\ pipe'.out = pipe.out \o frames
<1>1. pipe.out \o frames \in Seq(Frames)
  BY DEF Lines
<1>2. QED
  BY <1>1 DEF Lines, Pushes

\* A completion that returns gives the lock back.
LEMMA Returned ==
  ASSUME svc \in Services, host \in Hosts, svc.lock # <<>>, TurnReturns \/ TitleReturns
  PROVE  /\ svc' \in Services /\ host' \in Hosts /\ host'.n = host.n
         /\ svc'.name = svc.name /\ svc'.lock = Tail(svc.lock)
         /\ TurnReturns => svc'.turn = "idle" /\ svc'.title = svc.title
         /\ TitleReturns => svc'.title = "idle" /\ svc'.turn = svc.turn /\ svc'.att = svc.att
<1>1. CASE TurnReturns
  <2>1. svc' = [svc EXCEPT !.turn = "idle", !.att = 0, !.lock = Tail(@)] /\ host' = [host EXCEPT !.active = 0]
    BY <1>1 DEF TurnReturns
  <2>2. svc' \in Services
    BY <2>1, ServiceMoves
  <2>3. host' \in Hosts /\ host'.n = host.n
    BY <2>1 DEF Hosts
  <2>4. svc'.name = svc.name /\ svc'.lock = Tail(svc.lock) /\ svc'.turn = "idle" /\ svc'.title = svc.title
    BY <2>1 DEF Services
  <2>5. TitleReturns => svc'.title = "idle" /\ svc'.turn = svc.turn /\ svc'.att = svc.att
    BY DEF TitleReturns, Services
  <2>6. QED
    BY <2>2, <2>3, <2>4, <2>5
<1>2. CASE TitleReturns
  <2>1. svc' = [svc EXCEPT !.title = "idle", !.lock = Tail(@)] /\ host' = [host EXCEPT !.active = 0, !.back = 0]
    BY <1>2 DEF TitleReturns
  <2>2. svc' \in Services
    BY <2>1, ServiceMoves
  <2>3. host' \in Hosts /\ host'.n = host.n
    BY <2>1 DEF Hosts
  <2>4. /\ svc'.name = svc.name /\ svc'.lock = Tail(svc.lock) /\ svc'.title = "idle"
        /\ svc'.turn = svc.turn /\ svc'.att = svc.att
    BY <2>1 DEF Services
  <2>5. TurnReturns => svc'.turn = "idle" /\ svc'.title = svc.title
    BY DEF TurnReturns, Services
  <2>6. QED
    BY <2>2, <2>3, <2>4, <2>5
<1>3. QED
  BY <1>1, <1>2

LEMMA TypedPipeline ==
  ASSUME Typed, HostFence, \/ Interrupted \/ ProviderCloses \/ (TakesContext /\ OnceAsked(pipe.in))
                           \/ TurnAsks \/ TurnCollects \/ Eof
  PROVE  Typed'
<1>0. /\ pipe \in Lines /\ svc \in Services /\ host \in Hosts /\ wk \in Workers
      /\ svc.turn # "idle" => svc.att \in Turns /\ svc.att \in Nat
      /\ pipe.in \in Seq(Asks) /\ pipe.out \in Seq(Frames) /\ host.n \in Nat
  BY TypedParts DEF Lines, Hosts
<1>1. UNCHANGED <<gen, fence, turn, prov, stash, stalled, overtaken, metered>>
  BY DEF Interrupted, ProviderCloses, TakesContext, TurnAsks, TurnCollects, Eof
<1>2. CASE Interrupted \/ ProviderCloses
  <2>1. /\ CancelsActive \/ UNCHANGED wk
        /\ svc' = [svc EXCEPT !.turn = "idle", !.att = 0, !.lock = RemoveFirst(@, "turn")]
        /\ host' = host \/ host' = [host EXCEPT !.active = 0]
    BY <1>2 DEF Interrupted, ProviderCloses
  <2>2. wk' \in Workers /\ svc' \in Services /\ host' \in Hosts /\ svc'.turn = "idle"
    <3>1. wk' \in Workers
      BY <1>0, <2>1, CancelTyped DEF Hosts
    <3>2. svc' \in Services
      BY <1>0, <2>1, ServiceMoves
    <3>3. host' \in Hosts
      BY <1>0, <2>1 DEF Hosts
    <3>4. svc'.turn = "idle"
      BY <1>0, <2>1 DEF Services
    <3>5. QED
      BY <3>1, <3>2, <3>3, <3>4
  <2>3. pipe' \in Lines
    <3>1. CASE Interrupted
      <4>1. /\ pipe' = [in |-> SubSeq(pipe.in, SelectInSeq(pipe.in, LAMBDA x : x = Interruption) + 1, Len(pipe.in)),
                        out |-> <<>>]
            /\ \E i \in DOMAIN pipe.in : pipe.in[i] = Interruption
        BY <3>1 DEF Interrupted, Quiet
      <4>2. PICK k \in DOMAIN pipe.in : k = SelectInSeq(pipe.in, LAMBDA x : x = Interruption)
        BY <1>0, <4>1, FirstOf
      <4>3. SubSeq(pipe.in, k + 1, Len(pipe.in)) \in Seq(Asks)
        BY <1>0
      <4>4. pipe' = [in |-> SubSeq(pipe.in, k + 1, Len(pipe.in)), out |-> <<>>]
        BY <4>1, <4>2
      <4>5. QED
        BY <4>3, <4>4 DEF Lines
    <3>2. CASE ProviderCloses
      BY <3>2 DEF ProviderCloses, Lines
    <3>3. QED
      BY <1>2, <3>1, <3>2
  <2>4. QED
    BY <1>1, <2>2, <2>3, TypedKept
<1>3. CASE TakesContext /\ OnceAsked(pipe.in)
  <2>1. /\ pipe.in # <<>> /\ Head(pipe.in).kind = "context"
        /\ CancelsActive \/ UNCHANGED wk
        /\ UNCHANGED host
        /\ svc' = [svc EXCEPT !.turn = "lock", !.att = Head(pipe.in).att, !.lock = Append(@, "turn")]
        /\ pipe' = [pipe EXCEPT !.in = Tail(@)]
    BY <1>3 DEF TakesContext, Preempts
  <2>2. Tail(pipe.in) \in Seq(Asks) /\ Head(pipe.in).att \in Turns
    BY <1>0, <1>3, <2>1, ContextTaken
  <2>3. wk' \in Workers
    BY <1>0, <2>1, CancelTyped DEF Hosts
  <2>4. svc' \in Services
    BY <1>0, <2>1, <2>2, ServiceMoves
  <2>5. pipe' \in Lines
    BY <1>0, <2>1, <2>2 DEF Lines
  <2>6. svc'.att \in Turns
    BY <1>0, <2>1, <2>2 DEF Services
  <2>7. QED
    BY <1>0, <1>1, <2>1, <2>3, <2>4, <2>5, <2>6, TypedKept
<1>4. CASE TurnAsks
  <2>1. /\ svc.turn = "lock" /\ UNCHANGED pipe
        /\ svc' = [svc EXCEPT !.turn = "asking", !.started = TRUE]
        /\ host' = [host EXCEPT !.n = @ + 1, !.active = host.n + 1]
        /\ wk' = Sent(Preloaded, Generate(host.n + 1, svc.att))
    BY <1>4 DEF TurnAsks
  <2>2. Preloaded \in Workers /\ Generate(host.n + 1, svc.att) \in Commands
    <3>1. host.n + 1 \in Nat /\ svc.att \in Nat
      BY <1>0, <2>1
    <3>2. QED
      BY <1>0, <3>1, CommandsTyped DEF Preloaded
  <2>3. wk' \in Workers
    BY <2>1, <2>2, SentTyped
  <2>4. svc' \in Services
    BY <1>0, <2>1, ServiceMoves
  <2>5. host' \in Hosts
    <3>1. host.n + 1 \in Nat
      BY <1>0
    <3>2. \A n \in Nat : [host EXCEPT !.n = n, !.active = n] \in Hosts
      BY <1>0 DEF Hosts
    <3>3. QED
      BY <2>1, <3>1, <3>2
  <2>6. svc'.att \in Turns
    BY <1>0, <2>1 DEF Services
  <2>7. QED
    BY <1>0, <1>1, <2>1, <2>3, <2>4, <2>5, <2>6, TypedKept
<1>5. CASE TurnCollects \/ Eof
  <2>1. (UNCHANGED <<svc, host>> \/ TurnReturns \/ TitleReturns) /\ (svc.turn = "asking" \/ svc.title = "asking")
    BY <1>5, CollectCases DEF Eof
  <2>2. svc.lock # <<>>
    BY <2>1 DEF HostFence, Holds
  <2>3. svc' \in Services /\ host' \in Hosts /\ (svc'.turn # "idle" => svc'.att \in Turns)
    BY <1>0, <2>1, <2>2, Returned
  <2>4. wk' \in Workers
    <3>1. wk' = wk \/ (wk.out # <<>> /\ wk' = [wk EXCEPT !.out = Tail(@)])
      BY <1>5 DEF TurnCollects, Eof
    <3>2. QED
      BY <1>0, <3>1, TypedParts DEF Workers
  <2>5. pipe' \in Lines
    <3>1. CASE TurnCollects
      <4>1. svc.att \in Turns /\ Head(wk.out).of \in Nat
        <5>1. svc.turn = "asking" /\ wk.out # <<>>
          BY <3>1, CollectCases
        <5>2. Head(wk.out) \in Outputs
          BY <5>1, TypedParts
        <5>3. QED
          BY <1>0, <5>1, <5>2 DEF Outputs
      <4>2. /\ <<Frame("text", svc.att, Head(wk.out).of)>> \in Seq(Frames)
            /\ <<Frame("error", svc.att, Head(wk.out).of)>> \in Seq(Frames)
            /\ <<Frame("usage", svc.att, Head(wk.out).of), Frame("end", svc.att, Head(wk.out).of)>> \in Seq(Frames)
        BY <4>1, TagsTyped
      <4>3. QED
        BY <1>0, <3>1, <4>2, CollectCases, Pushed
    <3>2. CASE Eof
      <4>1. UNCHANGED pipe \/ (svc.turn = "asking" /\ Pushes(<<Frame("error", svc.att, svc.att)>>))
        BY <3>2 DEF Eof
      <4>2. svc.turn = "asking" => <<Frame("error", svc.att, svc.att)>> \in Seq(Frames)
        BY <1>0, TagsTyped
      <4>3. QED
        BY <1>0, <4>1, <4>2, Pushed
    <3>3. QED
      BY <1>5, <3>1, <3>2
  <2>6. QED
    BY <1>1, <2>3, <2>4, <2>5, TypedKept
<1>6. QED
  BY <1>2, <1>3, <1>4, <1>5

LEMMA WorkerMoves ==
  ASSUME NEW worker \in Workers
  PROVE  /\ \A l \in Seq(Commands), c \in SUBSET Nat :
              [worker EXCEPT !.in = l, !.cancelled = c] \in Workers
         /\ \A l \in Seq(Commands), j \in Seq(Jobs) : [worker EXCEPT !.in = l, !.jobs = j] \in Workers
         /\ \A j \in Seq(Jobs), o \in Seq(Outputs) : [worker EXCEPT !.jobs = j, !.out = o] \in Workers
         /\ [worker EXCEPT !.alive = FALSE, !.in = <<>>, !.jobs = <<>>] \in Workers
         /\ \A b \in BOOLEAN : [worker EXCEPT !.alive = b] \in Workers
<1>1. ASSUME NEW l \in Seq(Commands), NEW c \in SUBSET Nat
      PROVE  [worker EXCEPT !.in = l, !.cancelled = c] \in Workers
  BY DEF Workers
<1>2. ASSUME NEW l \in Seq(Commands), NEW j \in Seq(Jobs)
      PROVE  [worker EXCEPT !.in = l, !.jobs = j] \in Workers
  BY DEF Workers
<1>3. ASSUME NEW j \in Seq(Jobs), NEW o \in Seq(Outputs)
      PROVE  [worker EXCEPT !.jobs = j, !.out = o] \in Workers
  BY DEF Workers
<1>4. [worker EXCEPT !.alive = FALSE, !.in = <<>>, !.jobs = <<>>] \in Workers
  <2>1. <<>> \in Seq(Commands) /\ <<>> \in Seq(Jobs)
    OBVIOUS
  <2>2. \A l \in Seq(Commands), j \in Seq(Jobs) :
          [worker EXCEPT !.alive = FALSE, !.in = l, !.jobs = j] \in Workers
    BY DEF Workers
  <2>3. QED
    BY <2>1, <2>2
<1>5. ASSUME NEW b \in BOOLEAN PROVE [worker EXCEPT !.alive = b] \in Workers
  BY DEF Workers
<1>6. QED
  BY <1>1, <1>2, <1>3, <1>4, <1>5

\* What the worker's threads do to its lines.
WorkerReadCases ==
  \/ \E c \in SUBSET Nat : wk' = [wk EXCEPT !.in = Tail(wk.in), !.cancelled = c]
  \/ /\ Head(wk.in).kind = "generate"
     /\ wk' = [wk EXCEPT !.in = Tail(wk.in), !.jobs = Append(wk.jobs, Job(Head(wk.in).n, Head(wk.in).of))]
  \/ wk' = [wk EXCEPT !.in = <<>>, !.jobs = Append(wk.jobs, NoMoreJobs)]
LEMMA WorkerReadsCases ==
  ASSUME wk \in Workers, WorkerReads
  PROVE  wk.in # <<>> /\ WorkerReadCases
<1>1. wk.in \in Seq(Commands) /\ wk.cancelled \in SUBSET Nat /\ wk.in # <<>>
  BY DEF Workers, WorkerReads
<1>2. Head(wk.in) \in Commands
  BY <1>1, ToSetTail
<1>3. wk.cancelled \cup {Head(wk.in).n} \in SUBSET Nat
  BY <1>1, <1>2 DEF Commands
<1>4. \/ wk' = [wk EXCEPT !.in = Tail(wk.in), !.cancelled = wk.cancelled \union {Head(wk.in).n}]
      \/ /\ Head(wk.in).kind = "generate"
         /\ wk' = [wk EXCEPT !.in = Tail(wk.in), !.jobs = Append(wk.jobs, Job(Head(wk.in).n, Head(wk.in).of))]
      \/ wk' = [wk EXCEPT !.in = <<>>, !.jobs = Append(wk.jobs, NoMoreJobs)]
  BY DEF WorkerReads
<1>5. QED
  BY <1>1, <1>3, <1>4 DEF WorkerReadCases

WorkerWriteCases ==
  \/ wk' = [wk EXCEPT !.alive = FALSE, !.in = <<>>, !.jobs = <<>>]
  \/ \E k \in {"cancelled", "token", "completed", "error"} :
       /\ wk.jobs # <<>>
       /\ \/ wk' = [wk EXCEPT !.jobs = Tail(wk.jobs), !.out = Append(wk.out, Said(k))]
          \/ wk' = [wk EXCEPT !.jobs = [wk.jobs EXCEPT ![1].made = @ + 1], !.out = Append(wk.out, Said(k))]
LEMMA WorkerWritesCases ==
  ASSUME wk \in Workers, WorkerWrites \/ WorkerFails
  PROVE  WorkerWriteCases
<1>1. [wk EXCEPT !.jobs[1].made = @ + 1, !.out = Append(@, Said("token"))]
        = [wk EXCEPT !.jobs = [wk.jobs EXCEPT ![1].made = @ + 1], !.out = Append(wk.out, Said("token"))]
  OBVIOUS
<1>2. CASE WorkerWrites
  <2>1. /\ wk.jobs # <<>>
        /\ \/ wk' = [wk EXCEPT !.alive = FALSE, !.in = <<>>, !.jobs = <<>>]
           \/ wk' = [wk EXCEPT !.jobs = Tail(@), !.out = Append(@, Said("cancelled"))]
           \/ wk' = [wk EXCEPT !.jobs[1].made = @ + 1, !.out = Append(@, Said("token"))]
           \/ wk' = [wk EXCEPT !.jobs = Tail(@), !.out = Append(@, Said("completed"))]
    BY <1>2, Zenon DEF WorkerWrites
  <2>2. QED
    BY <1>1, <2>1 DEF WorkerWriteCases
<1>3. CASE WorkerFails
  <2>1. \/ wk' = [wk EXCEPT !.alive = FALSE, !.in = <<>>, !.jobs = <<>>]
        \/ (wk.jobs # <<>> /\ wk' = [wk EXCEPT !.jobs = Tail(@), !.out = Append(@, Said("error"))])
    BY <1>3, Zenon DEF WorkerFails
  <2>2. QED
    BY <2>1 DEF WorkerWriteCases
<1>4. QED
  BY <1>2, <1>3

LEMMA SaidTyped ==
  ASSUME wk \in Workers, wk.jobs # <<>>
  PROVE  /\ \A k \in {"cancelled", "token", "completed", "error"} :
              Said(k) \in Outputs /\ Append(wk.out, Said(k)) \in Seq(Outputs)
         /\ [wk.jobs EXCEPT ![1].made = @ + 1] \in Seq(Jobs) /\ Tail(wk.jobs) \in Seq(Jobs)
<1>1. wk.jobs \in Seq(Jobs) /\ wk.out \in Seq(Outputs)
  BY DEF Workers
<1>2. Head(wk.jobs) \in Jobs /\ Tail(wk.jobs) \in Seq(Jobs) /\ 1 \in DOMAIN wk.jobs /\ wk.jobs[1] \in Jobs
  BY <1>1
<1>3. \A k \in {"cancelled", "token", "completed", "error"} : Said(k) \in Outputs
  BY <1>2 DEF Said, Jobs, Outputs
<1>4. [wk.jobs[1] EXCEPT !.made = @ + 1] \in Jobs
  BY <1>2 DEF Jobs
<1>5. [wk.jobs EXCEPT ![1] = [wk.jobs[1] EXCEPT !.made = @ + 1]] \in Seq(Jobs)
  BY <1>1, <1>2, <1>4
<1>6. QED
  BY <1>1, <1>2, <1>3, <1>5

LEMMA TypedWorker ==
  ASSUME Typed, WorkerReads \/ WorkerWrites \/ WorkerFails
  PROVE  Typed'
<1>0. /\ pipe \in Lines /\ svc \in Services /\ host \in Hosts /\ wk \in Workers
      /\ svc.turn # "idle" => svc.att \in Turns
  BY TypedParts
<1>1. UNCHANGED <<gen, fence, turn, prov, stash, stalled, overtaken, metered, pipe, svc, host>>
  BY DEF WorkerReads, WorkerWrites, WorkerFails, Outside
<1>2. wk' \in Workers
  <2>1. wk.jobs \in Seq(Jobs) /\ wk.in \in Seq(Commands)
    BY <1>0 DEF Workers
  <2>2. CASE WorkerReads
    <3>1. wk.in # <<>> /\ WorkerReadCases
      BY <1>0, <2>2, WorkerReadsCases
    <3>2. Head(wk.in) \in Commands /\ Tail(wk.in) \in Seq(Commands)
      BY <2>1, <3>1
    <3>3. Job(Head(wk.in).n, Head(wk.in).of) \in Jobs /\ NoMoreJobs \in Jobs
      BY <3>2, CommandsTyped DEF Commands
    <3>4. Append(wk.jobs, Job(Head(wk.in).n, Head(wk.in).of)) \in Seq(Jobs)
          /\ Append(wk.jobs, NoMoreJobs) \in Seq(Jobs) /\ <<>> \in Seq(Commands)
      BY <2>1, <3>3
    <3>5. ASSUME NEW c \in SUBSET Nat, wk' = [wk EXCEPT !.in = Tail(wk.in), !.cancelled = c]
          PROVE  wk' \in Workers
      BY <1>0, <3>2, <3>5, WorkerMoves
    <3>6. ASSUME wk' = [wk EXCEPT !.in = Tail(wk.in), !.jobs = Append(wk.jobs, Job(Head(wk.in).n, Head(wk.in).of))]
          PROVE  wk' \in Workers
      BY <1>0, <3>2, <3>4, <3>6, WorkerMoves, ZenonT(40)
    <3>7. ASSUME wk' = [wk EXCEPT !.in = <<>>, !.jobs = Append(wk.jobs, NoMoreJobs)]
          PROVE  wk' \in Workers
      BY <1>0, <3>4, <3>7, WorkerMoves
    <3>8. QED
      BY <3>1, <3>5, <3>6, <3>7 DEF WorkerReadCases
  <2>3. CASE WorkerWrites \/ WorkerFails
    <3>1. WorkerWriteCases
      BY <1>0, <2>3, WorkerWritesCases
    <3>2. ASSUME NEW k \in {"cancelled", "token", "completed", "error"}, wk.jobs # <<>>,
                 NEW j \in Seq(Jobs), wk' = [wk EXCEPT !.jobs = j, !.out = Append(wk.out, Said(k))]
          PROVE  wk' \in Workers
      BY <1>0, <3>2, SaidTyped, WorkerMoves, ZenonT(40)
    <3>3. wk' = [wk EXCEPT !.alive = FALSE, !.in = <<>>, !.jobs = <<>>] => wk' \in Workers
      BY <1>0, WorkerMoves
    <3>4. QED
      BY <1>0, <3>1, <3>2, <3>3, SaidTyped, ZenonT(40) DEF WorkerWriteCases
  <2>4. QED
    BY <2>2, <2>3
<1>3. QED
  BY <1>0, <1>1, <1>2, TypedKept

LEMMA TypedTitles ==
  ASSUME Typed, HostFence, TitleWanted \/ TitleAsks \/ TitleCollects
  PROVE  Typed'
<1>0. /\ pipe \in Lines /\ svc \in Services /\ host \in Hosts /\ wk \in Workers
      /\ svc.turn # "idle" => svc.att \in Turns /\ svc.att \in Nat
      /\ host.n \in Nat
  BY TypedParts DEF Hosts
<1>1. UNCHANGED <<gen, fence, turn, prov, stash, stalled, overtaken, metered, pipe>>
  BY DEF TitleWanted, TitleAsks, TitleCollects
<1>2. CASE TitleWanted
  <2>1. /\ UNCHANGED <<host, wk>>
        /\ svc' = [svc EXCEPT !.title = "lock", !.titles = @ + 1, !.name = {}, !.lock = Append(@, "title")]
    BY <1>2 DEF TitleWanted
  <2>2. svc' \in Services
    BY <1>0, <2>1, ServiceMoves
  <2>3. svc'.turn = svc.turn /\ svc'.att = svc.att
    BY <1>0, <2>1 DEF Services
  <2>4. QED
    BY <1>0, <1>1, <2>1, <2>2, <2>3, TypedKept
<1>3. CASE TitleAsks
  <2>1. /\ svc' = [svc EXCEPT !.title = "asking", !.started = TRUE]
        /\ host' = [n |-> host.n + 1, active |-> host.n + 1, back |-> host.n + 1]
        /\ wk' = Sent(Preloaded, Generate(host.n + 1, 0))
    BY <1>3 DEF TitleAsks
  <2>2. svc' \in Services
    BY <1>0, <2>1, ServiceMoves
  <2>3. svc'.turn = svc.turn /\ svc'.att = svc.att
    BY <1>0, <2>1 DEF Services
  <2>4. Preloaded \in Workers /\ Generate(host.n + 1, 0) \in Commands /\ host.n + 1 \in Nat
    BY <1>0, CommandsTyped DEF Preloaded
  <2>5. wk' \in Workers /\ host' \in Hosts
    BY <2>1, <2>4, SentTyped DEF Hosts
  <2>6. QED
    BY <1>0, <1>1, <2>2, <2>3, <2>5, TypedKept
<1>4. CASE TitleCollects
  <2>1. /\ svc.title = "asking" /\ wk.out # <<>> /\ wk' = [wk EXCEPT !.out = Tail(@)]
        /\ \/ UNCHANGED <<svc, host>> \/ TitleReturns
           \/ (UNCHANGED host /\ svc' = [svc EXCEPT !.name = @ \union {Head(wk.out).of}])
    BY <1>4, Zenon DEF TitleCollects
  <2>2. svc.lock # <<>>
    BY <2>1 DEF HostFence, Holds
  <2>3. Head(wk.out).of \in Nat /\ wk' \in Workers
    <3>1. Head(wk.out) \in Outputs /\ Tail(wk.out) \in Seq(Outputs)
      BY <2>1, TypedParts
    <3>2. QED
      BY <1>0, <2>1, <3>1 DEF Outputs, Workers
  <2>4. svc' \in Services /\ host' \in Hosts /\ (svc'.turn = svc.turn /\ svc'.att = svc.att)
    <3>1. CASE UNCHANGED <<svc, host>>
      BY <1>0, <3>1
    <3>2. CASE TitleReturns
      BY <1>0, <2>2, <3>2, Returned
    <3>3. CASE UNCHANGED host /\ svc' = [svc EXCEPT !.name = @ \union {Head(wk.out).of}]
      <4>1. svc' \in Services
        BY <1>0, <2>3, <3>3, ServiceMoves
      <4>2. svc'.turn = svc.turn /\ svc'.att = svc.att
        BY <1>0, <3>3 DEF Services
      <4>3. QED
        BY <1>0, <3>3, <4>1, <4>2
    <3>4. QED
      BY <2>1, <3>1, <3>2, <3>3
  <2>5. QED
    BY <1>0, <1>1, <2>3, <2>4, TypedKept
<1>5. QED
  BY <1>2, <1>3, <1>4

\* The session cancels the turns that are not over.
LEMMA TurnsCut ==
  ASSUME Typed, SessionCloses
  PROVE  /\ turn' \in [Turns -> TurnStates]
         /\ \A a \in Turns : /\ turn'[a].gen = turn[a].gen /\ turn'[a].words = turn[a].words
                              /\ turn'[a].usage = turn[a].usage
                              /\ turn'[a].at = IF turn[a].at \in Settled \union {"new"} THEN turn[a].at
                                              ELSE "cancelled"
<1>1. turn \in [Turns -> TurnStates] /\ "cancelled" \in Ats
  BY DEF Typed, Ats, Finals, Settled
<1>2. turn' = [a \in Turns |-> IF turn[a].at \in Settled \union {"new"} THEN turn[a]
                              ELSE [turn[a] EXCEPT !.at = "cancelled"]]
  BY DEF SessionCloses
<1>3. ASSUME NEW a \in Turns
      PROVE  /\ turn'[a] \in TurnStates
             /\ turn'[a].gen = turn[a].gen /\ turn'[a].words = turn[a].words
             /\ turn'[a].usage = turn[a].usage
             /\ turn'[a].at = IF turn[a].at \in Settled \union {"new"} THEN turn[a].at ELSE "cancelled"
  <2>1. turn[a] \in TurnStates /\ [turn[a] EXCEPT !.at = "cancelled"] \in TurnStates
    BY <1>1, TurnRecord
  <2>2. CASE turn[a].at \in Settled \union {"new"}
    BY <1>2, <2>1, <2>2
  <2>3. CASE turn[a].at \notin Settled \union {"new"}
    <3>1. turn'[a] = [turn[a] EXCEPT !.at = "cancelled"]
      BY <1>2, <2>3
    <3>2. QED
      BY <2>1, <2>3, <3>1 DEF TurnStates
  <2>4. QED
    BY <2>2, <2>3
<1>4. QED
  BY <1>2, <1>3

LEMMA TypedEngine ==
  ASSUME Typed, Loads \/ SessionCloses \/ ServiceCloses \/ WorkerEnded \/ Closed
  PROVE  Typed'
<1>0. /\ pipe \in Lines /\ svc \in Services /\ host \in Hosts /\ wk \in Workers
      /\ svc.turn # "idle" => svc.att \in Turns
      /\ prov \in [att : {0} \cup Turns, gen : Nat, queue : Seq(Tags), finished : BOOLEAN]
  BY TypedParts DEF Typed
<1>1. UNCHANGED <<gen, fence, stash, stalled, overtaken, metered, pipe>>
  BY DEF Loads, SessionCloses, ServiceCloses, WorkerEnded, Closed
<1>2. CASE Loads \/ ServiceCloses \/ WorkerEnded \/ Closed
  <2>1. /\ UNCHANGED <<turn, prov, host>>
        /\ UNCHANGED svc \/ \E s \in BOOLEAN : svc' = [svc EXCEPT !.started = s]
        /\ \/ UNCHANGED wk \/ wk' = Sent(wk, Close)
           \/ wk' = [wk EXCEPT !.alive = FALSE, !.in = <<>>, !.jobs = <<>>]
           \/ \E b \in BOOLEAN : wk' = [wk EXCEPT !.alive = b]
    BY <1>2 DEF Loads, ServiceCloses, WorkerEnded, Closed, Sends
  <2>2. wk' \in Workers
    BY <1>0, <2>1, WorkerMoves, SentTyped, CommandsTyped, ZenonT(40)
  <2>3. svc' \in Services
    BY <1>0, <2>1, ServiceMoves
  <2>4. svc'.turn = svc.turn /\ svc'.att = svc.att
    BY <1>0, <2>1 DEF Services
  <2>5. QED
    BY <1>0, <1>1, <2>1, <2>2, <2>3, <2>4, TypedKept
<1>3. CASE SessionCloses
  <2>1. /\ prov' = [prov EXCEPT !.finished = TRUE]
        /\ CancelsActive \/ UNCHANGED wk
        /\ svc' = [svc EXCEPT !.title = "idle", !.lock = RemoveFirst(@, "title")]
        /\ host' = host \/ host' = [host EXCEPT !.active = 0, !.back = 0]
    BY <1>3 DEF SessionCloses
  <2>2. wk' \in Workers
    BY <1>0, <2>1, CancelTyped DEF Hosts
  <2>3. svc' \in Services
    BY <1>0, <2>1, ServiceMoves
  <2>4. svc'.turn = svc.turn /\ svc'.att = svc.att
    BY <1>0, <2>1 DEF Services
  <2>5. host' \in Hosts
    <3>1. [host EXCEPT !.active = 0, !.back = 0] \in Hosts
      BY <1>0 DEF Hosts
    <3>2. QED
      BY <1>0, <2>1, <3>1
  <2>6. prov' \in [att : {0} \cup Turns, gen : Nat, queue : Seq(Tags), finished : BOOLEAN]
    BY <1>0, <2>1
  <2>7. turn' \in [Turns -> TurnStates]
    BY <1>3, TurnsCut
  <2>8. QED
    BY <1>0, <1>1, <2>2, <2>3, <2>4, <2>5, <2>6, <2>7 DEF Typed, Hosts, Lines
<1>4. QED
  BY <1>2, <1>3

LEMMA TypedStep ==
  ASSUME Typed, HostFence, OnceAsked(pipe.in), Next
  PROVE  Typed'
BY TypedTurns, TypedFences, TypedPipeline, TypedWorker, TypedTitles, TypedEngine
  DEF Next, EngineRuns

-----------------------------------------------------------------------------
(* The generations of the host.                                            *)

\* The second worker knows of nothing the first was not asked for.
Descends(old, new) ==
  /\ \A c \in ToSet(new.in) : c.kind = "generate" => c \in ToSet(old.in)
  /\ \A j \in ToSet(new.jobs) :
       \/ j = NoMoreJobs
       \/ \E k \in ToSet(old.jobs) : j.n = k.n /\ j.of = k.of
       \/ \E c \in ToSet(old.in) : c.kind = "generate" /\ j.n = c.n /\ j.of = c.of
  /\ \A o \in ToSet(new.out) :
       \/ o \in ToSet(old.out)
       \/ \E k \in ToSet(old.jobs) : o.n = k.n /\ o.of = k.of

LEMMA Inherited ==
  ASSUME NEW old, NEW new, Descends(old, new), NEW n \in Nat
  PROVE  /\ Numbered(old, n) => Numbered(new, n)
         /\ \A w : Answers(old, n, w) /\ n >= 1 => Answers(new, n, w)
<1>1. NoMoreJobs.n = 0
  BY DEF NoMoreJobs, Job
<1>2. Numbered(old, n) => Numbered(new, n)
  BY <1>1 DEF Numbered, Descends
<1>3. ASSUME NEW w, Answers(old, n, w), n >= 1
      PROVE  Answers(new, n, w)
  <2>1. NoMoreJobs.n # n
    BY <1>1, <1>3
  <2>2. \A c \in ToSet(new.in) : c.kind = "generate" /\ c.n = n => c.of = w
    BY <1>3 DEF Answers, Descends
  <2>3. \A j \in ToSet(new.jobs) : j.n = n => j.of = w
    BY <1>3, <2>1 DEF Answers, Descends
  <2>4. \A o \in ToSet(new.out) : o.n = n => o.of = w
    BY <1>3 DEF Answers, Descends
  <2>5. QED
    BY <2>2, <2>3, <2>4 DEF Answers
<1>4. QED
  BY <1>2, <1>3

LEMMA HostKept ==
  ASSUME Typed, HostFence, Descends(wk, wk'), host'.n = host.n, svc'.name \subseteq svc.name,
         svc'.turn = "asking" => svc.turn = "asking" /\ svc'.att = svc.att /\ Holds("turn")',
         svc'.title = "asking" => svc.title = "asking" /\ Holds("title")'
  PROVE  HostFence'
<1>1. host.n \in Nat
  BY TypedParts DEF Hosts
<1>2. QED
  BY <1>1, Inherited DEF HostFence

\* What a command other than a request, a thread of the worker or the end of it adds.
LEMMA SentDescends ==
  ASSUME NEW worker \in Workers, NEW command \in Commands, command.kind # "generate"
  PROVE  Descends(worker, Sent(worker, command))
<1>1. worker.in \in Seq(Commands)
  BY DEF Workers
<1>2. ToSet(Append(worker.in, command)) = ToSet(worker.in) \cup {command}
  BY <1>1, ToSetAppend
<1>3. CASE worker.alive
  <2>1. Sent(worker, command) = [worker EXCEPT !.in = Append(@, command)]
    BY <1>3 DEF Sent
  <2>2. /\ Sent(worker, command).in = Append(worker.in, command)
        /\ Sent(worker, command).jobs = worker.jobs /\ Sent(worker, command).out = worker.out
    BY <2>1 DEF Workers
  <2>3. QED
    BY <1>2, <2>2 DEF Descends
<1>4. CASE ~worker.alive
  BY <1>4 DEF Sent, Descends
<1>5. QED
  BY <1>3, <1>4

LEMMA CancelDescends ==
  ASSUME Typed, CancelsActive \/ UNCHANGED wk
  PROVE  Descends(wk, wk')
<1>1. wk \in Workers /\ host.active \in Nat /\ host \in Hosts
  BY TypedParts DEF Hosts
<1>2. wk' = wk \/ wk' = Sent(wk, Cancel(host.active))
  BY <1>1, CancelTyped DEF Hosts
<1>3. Cancel(host.active) \in Commands /\ Cancel(host.active).kind # "generate"
  BY <1>1, CommandsTyped DEF Cancel
<1>4. Descends(wk, wk)
  BY DEF Descends
<1>5. QED
  BY <1>1, <1>2, <1>3, <1>4, SentDescends

LEMMA Drops ==
  ASSUME NEW worker \in Workers
  PROVE  /\ worker.out # <<>> => Descends(worker, [worker EXCEPT !.out = Tail(@)])
         /\ Descends(worker, [worker EXCEPT !.alive = FALSE, !.in = <<>>, !.jobs = <<>>])
         /\ \A b \in BOOLEAN : Descends(worker, [worker EXCEPT !.alive = b])
         /\ Descends(worker, worker)
<1>1. worker.in \in Seq(Commands) /\ worker.jobs \in Seq(Jobs) /\ worker.out \in Seq(Outputs)
  BY DEF Workers
<1>2. worker.out # <<>> => ToSet(Tail(worker.out)) \subseteq ToSet(worker.out)
  BY <1>1, ToSetTail
<1>3. /\ [worker EXCEPT !.out = Tail(@)].in = worker.in
      /\ [worker EXCEPT !.out = Tail(@)].jobs = worker.jobs
      /\ [worker EXCEPT !.out = Tail(@)].out = Tail(worker.out)
  BY DEF Workers
<1>4. /\ [worker EXCEPT !.alive = FALSE, !.in = <<>>, !.jobs = <<>>].in = <<>>
      /\ [worker EXCEPT !.alive = FALSE, !.in = <<>>, !.jobs = <<>>].jobs = <<>>
      /\ [worker EXCEPT !.alive = FALSE, !.in = <<>>, !.jobs = <<>>].out = worker.out
  BY DEF Workers
<1>5. \A b \in BOOLEAN : /\ [worker EXCEPT !.alive = b].in = worker.in
                         /\ [worker EXCEPT !.alive = b].jobs = worker.jobs
                         /\ [worker EXCEPT !.alive = b].out = worker.out
  BY DEF Workers
<1>6. ToSet(<<>>) = {}
  BY DEF ToSet
<1>7. Descends(worker, worker)
  BY DEF Descends
<1>8. worker.out # <<>> => Descends(worker, [worker EXCEPT !.out = Tail(@)])
  BY <1>2, <1>3 DEF Descends
<1>9. Descends(worker, [worker EXCEPT !.alive = FALSE, !.in = <<>>, !.jobs = <<>>])
  BY <1>4, <1>6 DEF Descends
<1>10. \A b \in BOOLEAN : Descends(worker, [worker EXCEPT !.alive = b])
  BY <1>5, <1>7 DEF Descends
<1>11. QED
  BY <1>7, <1>8, <1>9, <1>10

LEMMA ReadsDescends ==
  ASSUME Typed, WorkerReads
  PROVE  Descends(wk, wk')
<1>1. wk \in Workers /\ wk.in \in Seq(Commands) /\ wk.jobs \in Seq(Jobs) /\ wk.in # <<>> /\ WorkerReadCases
  BY TypedParts, WorkerReadsCases DEF Workers
<1>2. /\ Head(wk.in) \in ToSet(wk.in) /\ Head(wk.in) \in Commands /\ ToSet(Tail(wk.in)) \subseteq ToSet(wk.in)
      /\ ToSet(<<>>) = {}
  BY <1>1, ToSetTail DEF ToSet
<1> DEFINE job == Job(Head(wk.in).n, Head(wk.in).of)
<1>3. job \in Jobs /\ NoMoreJobs \in Jobs /\ job.n = Head(wk.in).n /\ job.of = Head(wk.in).of
  BY <1>2, CommandsTyped DEF Commands, Job
<1> HIDE DEF job
<1>4. /\ ToSet(Append(wk.jobs, job)) = ToSet(wk.jobs) \cup {job}
      /\ ToSet(Append(wk.jobs, NoMoreJobs)) = ToSet(wk.jobs) \cup {NoMoreJobs}
  BY <1>1, <1>3, ToSetAppend
<1>5. ASSUME NEW c \in SUBSET Nat, wk' = [wk EXCEPT !.in = Tail(wk.in), !.cancelled = c]
      PROVE  Descends(wk, wk')
  <2>1. wk'.in = Tail(wk.in) /\ wk'.jobs = wk.jobs /\ wk'.out = wk.out
    BY <1>1, <1>5 DEF Workers
  <2>2. QED
    BY <1>2, <2>1 DEF Descends
<1>6. ASSUME Head(wk.in).kind = "generate", wk' = [wk EXCEPT !.in = Tail(wk.in), !.jobs = Append(wk.jobs, job)]
      PROVE  Descends(wk, wk')
  <2>1. wk'.in = Tail(wk.in) /\ wk'.jobs = Append(wk.jobs, job) /\ wk'.out = wk.out
    BY <1>1, <1>6 DEF Workers
  <2>2. QED
    BY <1>2, <1>3, <1>4, <1>6, <2>1 DEF Descends
<1>7. ASSUME wk' = [wk EXCEPT !.in = <<>>, !.jobs = Append(wk.jobs, NoMoreJobs)]
      PROVE  Descends(wk, wk')
  <2>1. wk'.in = <<>> /\ wk'.jobs = Append(wk.jobs, NoMoreJobs) /\ wk'.out = wk.out
    BY <1>1, <1>7 DEF Workers
  <2>2. QED
    BY <1>2, <1>4, <2>1 DEF Descends
<1>8. QED
  BY <1>1, <1>5, <1>6, <1>7 DEF WorkerReadCases, job

LEMMA WritesDescends ==
  ASSUME Typed, WorkerWrites \/ WorkerFails
  PROVE  Descends(wk, wk')
<1>1. wk \in Workers /\ wk.jobs \in Seq(Jobs) /\ wk.out \in Seq(Outputs) /\ WorkerWriteCases
  BY TypedParts, WorkerWritesCases DEF Workers
<1>2. CASE wk' = [wk EXCEPT !.alive = FALSE, !.in = <<>>, !.jobs = <<>>]
  BY <1>1, <1>2, Drops
<1>3. ASSUME NEW k \in {"cancelled", "token", "completed", "error"}, wk.jobs # <<>>,
             NEW j \in Seq(Jobs), wk' = [wk EXCEPT !.jobs = j, !.out = Append(wk.out, Said(k))],
             \A x \in ToSet(j) : \E y \in ToSet(wk.jobs) : x.n = y.n /\ x.of = y.of
      PROVE  Descends(wk, wk')
  <2>1. wk'.in = wk.in /\ wk'.jobs = j /\ wk'.out = Append(wk.out, Said(k))
    BY <1>1, <1>3 DEF Workers
  <2>2. Said(k) \in Outputs /\ ToSet(Append(wk.out, Said(k))) = ToSet(wk.out) \cup {Said(k)}
    BY <1>1, <1>3, SaidTyped, ToSetAppend
  <2>3. Head(wk.jobs) \in ToSet(wk.jobs) /\ Said(k).n = Head(wk.jobs).n /\ Said(k).of = Head(wk.jobs).of
    BY <1>1, <1>3, ToSetTail DEF Said
  <2>4. QED
    BY <1>3, <2>1, <2>2, <2>3 DEF Descends
<1>4. ASSUME wk.jobs # <<>>
      PROVE  /\ \A x \in ToSet(Tail(wk.jobs)) : \E y \in ToSet(wk.jobs) : x.n = y.n /\ x.of = y.of
             /\ \A x \in ToSet([wk.jobs EXCEPT ![1].made = @ + 1]) :
                  \E y \in ToSet(wk.jobs) : x.n = y.n /\ x.of = y.of
  <2>1. ToSet(Tail(wk.jobs)) \subseteq ToSet(wk.jobs)
    BY <1>1, <1>4, ToSetTail
  <2>2. /\ 1 \in DOMAIN wk.jobs /\ wk.jobs[1] \in Jobs
        /\ [wk.jobs EXCEPT ![1].made = @ + 1] = [wk.jobs EXCEPT ![1] = [wk.jobs[1] EXCEPT !.made = @ + 1]]
    BY <1>1, <1>4
  <2>3. [wk.jobs[1] EXCEPT !.made = @ + 1].n = wk.jobs[1].n /\ [wk.jobs[1] EXCEPT !.made = @ + 1].of = wk.jobs[1].of
    BY <2>2 DEF Jobs
  <2>4. \A i \in DOMAIN wk.jobs : /\ [wk.jobs EXCEPT ![1].made = @ + 1][i].n = wk.jobs[i].n
                                  /\ [wk.jobs EXCEPT ![1].made = @ + 1][i].of = wk.jobs[i].of
    BY <2>2, <2>3
  <2>5. DOMAIN [wk.jobs EXCEPT ![1].made = @ + 1] = DOMAIN wk.jobs
    OBVIOUS
  <2>6. ASSUME NEW x \in ToSet([wk.jobs EXCEPT ![1].made = @ + 1])
        PROVE  \E y \in ToSet(wk.jobs) : x.n = y.n /\ x.of = y.of
    <3>1. PICK i \in DOMAIN wk.jobs : x = [wk.jobs EXCEPT ![1].made = @ + 1][i]
      BY <2>5 DEF ToSet
    <3>2. wk.jobs[i] \in ToSet(wk.jobs)
      BY DEF ToSet
    <3>3. QED
      BY <2>4, <3>1, <3>2
  <2>7. QED
    BY <2>1, <2>6
<1>5. QED
  BY <1>1, <1>2, <1>3, <1>4, SaidTyped, ZenonT(40) DEF WorkerWriteCases

\* A request takes the next generation, under which nothing has been said yet.
LEMMA Requested ==
  ASSUME Typed, Numbered(wk, host.n), NEW w \in Nat
  PROVE  LET worker == Sent(Preloaded, Generate(host.n + 1, w)) IN
         Numbered(worker, host.n + 1) /\ Answers(worker, host.n + 1, w)
<1> DEFINE c == Generate(host.n + 1, w)
           worker == Sent(Preloaded, c)
<1>1. host.n \in Nat /\ wk \in Workers /\ Preloaded \in Workers /\ host.n + 1 \in Nat
  BY TypedParts, CommandsTyped DEF Hosts, Preloaded
<1>2. Numbered(Preloaded, host.n)
  BY <1>1 DEF Preloaded, Spawned, Numbered, ToSet
<1>3. c \in Commands /\ c.n = host.n + 1 /\ c.of = w
  BY <1>1, CommandsTyped DEF Generate
<1> HIDE DEF c
<1>4. Preloaded.in \in Seq(Commands) /\ Preloaded.jobs \in Seq(Jobs) /\ Preloaded.out \in Seq(Outputs)
  BY <1>1 DEF Workers
<1>5. ToSet(worker.in) \subseteq ToSet(Preloaded.in) \cup {c} /\ worker.jobs = Preloaded.jobs
      /\ worker.out = Preloaded.out
  <2>1. CASE Preloaded.alive
    <3>1. worker = [Preloaded EXCEPT !.in = Append(@, c)]
      BY <2>1 DEF Sent
    <3>2. worker.in = Append(Preloaded.in, c) /\ worker.jobs = Preloaded.jobs /\ worker.out = Preloaded.out
      BY <1>1, <3>1 DEF Workers
    <3>3. QED
      BY <1>3, <1>4, <3>2, ToSetAppend
  <2>2. CASE ~Preloaded.alive
    BY <2>2 DEF Sent
  <2>3. QED
    BY <2>1, <2>2
<1> HIDE DEF worker
<1>6. /\ \A x \in ToSet(Preloaded.in) : x \in Commands
      /\ \A x \in ToSet(Preloaded.jobs) : x \in Jobs
      /\ \A x \in ToSet(Preloaded.out) : x \in Outputs
  BY <1>4, ToSetIn
<1>7. /\ \A x \in Commands \cup Jobs \cup Outputs : x.n \in Nat
  BY DEF Commands, Jobs, Outputs
<1>8. /\ \A x \in ToSet(Preloaded.in) : x.kind = "generate" => x.n <= host.n + 1 /\ x.n # host.n + 1
      /\ \A x \in ToSet(Preloaded.jobs) : x.n <= host.n + 1 /\ x.n # host.n + 1
      /\ \A x \in ToSet(Preloaded.out) : x.n <= host.n + 1 /\ x.n # host.n + 1
  BY <1>1, <1>2, <1>6, <1>7 DEF Numbered
<1>9. Numbered(worker, host.n + 1)
  BY <1>1, <1>3, <1>5, <1>8 DEF Numbered
<1>10. Answers(worker, host.n + 1, w)
  BY <1>3, <1>5, <1>8 DEF Answers
<1>11. QED
  BY <1>9, <1>10 DEF worker, c

LEMMA Waits ==
  ASSUME NEW S, NEW s \in Seq(S), NEW e \in S, s # <<>>
  PROVE  Append(s, e) # <<>> /\ Head(Append(s, e)) = Head(s)
OBVIOUS

LEMMA HostTurns ==
  ASSUME Typed, HostFence,
         \/ Interrupted \/ ProviderCloses \/ TakesContext \/ TurnAsks \/ TurnCollects \/ Eof
  PROVE  HostFence'
<1>0. /\ svc \in Services /\ host \in Hosts /\ wk \in Workers /\ host.n \in Nat
      /\ svc.lock \in Seq({"turn", "title"})
      /\ svc.turn # "idle" => svc.att \in Nat
  BY TypedParts DEF Hosts, Services
<1>1. CASE Interrupted \/ ProviderCloses
  <2>1. /\ CancelsActive \/ UNCHANGED wk
        /\ svc' = [svc EXCEPT !.turn = "idle", !.att = 0, !.lock = RemoveFirst(@, "turn")]
        /\ host' = host \/ host' = [host EXCEPT !.active = 0]
    BY <1>1 DEF Interrupted, ProviderCloses
  <2>2. host'.n = host.n
    BY <1>0, <2>1 DEF Hosts
  <2>3. /\ svc'.turn = "idle" /\ svc'.title = svc.title /\ svc'.name = svc.name
        /\ svc'.lock = RemoveFirst(svc.lock, "turn")
    BY <1>0, <2>1 DEF Services
  <2>4. svc.title = "asking" => Holds("title")'
    BY <1>0, <2>3, LeftTheLine DEF HostFence, Holds
  <2>5. QED
    BY <2>1, <2>2, <2>3, <2>4, CancelDescends, HostKept
<1>2. CASE TakesContext
  <2>1. /\ CancelsActive \/ UNCHANGED wk
        /\ host' = host
        /\ svc' = [svc EXCEPT !.turn = "lock", !.att = Head(pipe.in).att, !.lock = Append(@, "turn")]
    BY <1>2 DEF TakesContext, Preempts
  <2>2. /\ svc'.turn = "lock" /\ svc'.title = svc.title /\ svc'.name = svc.name
        /\ svc'.lock = Append(svc.lock, "turn")
    BY <1>0, <2>1 DEF Services
  <2>3. svc.title = "asking" => Holds("title")'
    BY <1>0, <2>2, Waits DEF HostFence, Holds
  <2>4. QED
    BY <2>1, <2>2, <2>3, CancelDescends, HostKept
<1>3. CASE TurnAsks
  <2>1. /\ svc.turn = "lock" /\ Holds("turn")
        /\ svc' = [svc EXCEPT !.turn = "asking", !.started = TRUE]
        /\ host' = [host EXCEPT !.n = @ + 1, !.active = host.n + 1]
        /\ wk' = Sent(Preloaded, Generate(host.n + 1, svc.att))
    BY <1>3 DEF TurnAsks
  <2>2. /\ svc'.turn = "asking" /\ svc'.title = svc.title /\ svc'.name = svc.name
        /\ svc'.lock = svc.lock /\ svc'.att = svc.att
    BY <1>0, <2>1 DEF Services
  <2>3. host'.n = host.n + 1
    BY <1>0, <2>1 DEF Hosts
  <2>4. svc.title # "asking"
    BY <2>1 DEF HostFence, Holds
  <2>5. Numbered(wk', host.n + 1) /\ Answers(wk', host.n + 1, svc.att)
    BY <1>0, <2>1, Requested DEF HostFence
  <2>6. QED
    BY <1>0, <2>1, <2>2, <2>3, <2>4, <2>5 DEF HostFence, Holds
<1>4. CASE TurnCollects \/ Eof
  <2>1. /\ svc.turn = "asking" \/ svc.title = "asking"
        /\ UNCHANGED <<svc, host>> \/ (TurnReturns /\ svc.turn = "asking") \/ (TitleReturns /\ svc.title = "asking")
        /\ wk' = wk \/ (wk.out # <<>> /\ wk' = [wk EXCEPT !.out = Tail(@)])
    BY <1>4, CollectCases DEF Eof
  <2>2. svc.lock # <<>> /\ ~(svc.turn = "asking" /\ svc.title = "asking")
    BY <2>1 DEF HostFence, Holds
  <2>3. Descends(wk, wk')
    BY <1>0, <2>1, Drops
  <2>4. CASE UNCHANGED <<svc, host>>
    BY <2>3, <2>4, HostKept DEF Holds, HostFence
  <2>5. CASE (TurnReturns /\ svc.turn = "asking") \/ (TitleReturns /\ svc.title = "asking")
    <3>1. host'.n = host.n /\ svc'.name = svc.name /\ svc'.turn # "asking" /\ svc'.title # "asking"
      BY <1>0, <2>2, <2>5, Returned
    <3>2. QED
      BY <2>3, <3>1, HostKept
  <2>6. QED
    BY <2>1, <2>4, <2>5
<1>5. QED
  BY <1>1, <1>2, <1>3, <1>4

LEMMA HostTitles ==
  ASSUME Typed, HostFence, TitleWanted \/ TitleAsks \/ TitleCollects
  PROVE  HostFence'
<1>0. /\ svc \in Services /\ host \in Hosts /\ wk \in Workers /\ host.n \in Nat
      /\ svc.lock \in Seq({"turn", "title"})
  BY TypedParts DEF Hosts, Services
<1>1. CASE TitleWanted
  <2>1. /\ UNCHANGED <<host, wk>>
        /\ svc' = [svc EXCEPT !.title = "lock", !.titles = @ + 1, !.name = {}, !.lock = Append(@, "title")]
    BY <1>1 DEF TitleWanted
  <2>2. /\ svc'.turn = svc.turn /\ svc'.att = svc.att /\ svc'.title = "lock" /\ svc'.name = {}
        /\ svc'.lock = Append(svc.lock, "title")
    BY <1>0, <2>1 DEF Services
  <2>3. svc.turn = "asking" => Holds("turn")'
    BY <1>0, <2>2, Waits DEF HostFence, Holds
  <2>4. Descends(wk, wk')
    BY <2>1 DEF Descends
  <2>5. QED
    BY <2>1, <2>2, <2>3, <2>4, HostKept
<1>2. CASE TitleAsks
  <2>1. /\ svc.title = "lock" /\ Holds("title")
        /\ svc' = [svc EXCEPT !.title = "asking", !.started = TRUE]
        /\ host' = [n |-> host.n + 1, active |-> host.n + 1, back |-> host.n + 1]
        /\ wk' = Sent(Preloaded, Generate(host.n + 1, 0))
    BY <1>2 DEF TitleAsks
  <2>2. /\ svc'.title = "asking" /\ svc'.turn = svc.turn /\ svc'.name = svc.name
        /\ svc'.lock = svc.lock
    BY <1>0, <2>1 DEF Services
  <2>3. host'.n = host.n + 1
    BY <2>1
  <2>4. svc.turn # "asking"
    BY <2>1 DEF HostFence, Holds
  <2>5. Numbered(wk', host.n + 1) /\ Answers(wk', host.n + 1, 0)
    BY <2>1, Requested DEF HostFence
  <2>6. QED
    BY <1>0, <2>1, <2>2, <2>3, <2>4, <2>5 DEF HostFence, Holds
<1>3. CASE TitleCollects
  <2> DEFINE f == Head(wk.out)
  <2>1. /\ svc.title = "asking" /\ wk.out # <<>> /\ wk' = [wk EXCEPT !.out = Tail(@)]
        /\ \/ UNCHANGED <<svc, host>> \/ TitleReturns
           \/ (f.n = host.n /\ UNCHANGED host /\ svc' = [svc EXCEPT !.name = @ \union {f.of}])
    BY <1>3, Zenon DEF TitleCollects, Current
  <2>2. svc.lock # <<>> /\ svc.turn # "asking"
    BY <2>1 DEF HostFence, Holds
  <2>3. Descends(wk, wk')
    BY <1>0, <2>1, Drops
  <2>4. CASE UNCHANGED <<svc, host>>
    BY <2>3, <2>4, HostKept DEF Holds, HostFence
  <2>5. CASE TitleReturns
    <3>1. host'.n = host.n /\ svc'.name = svc.name /\ svc'.turn # "asking" /\ svc'.title # "asking"
      BY <1>0, <2>2, <2>5, Returned
    <3>2. QED
      BY <2>3, <3>1, HostKept
  <2>6. CASE f.n = host.n /\ UNCHANGED host /\ svc' = [svc EXCEPT !.name = @ \union {f.of}]
    <3>1. /\ svc'.turn = svc.turn /\ svc'.title = svc.title /\ svc'.lock = svc.lock
          /\ svc'.name = svc.name \cup {f.of}
      BY <1>0, <2>6 DEF Services
    <3>2. wk.out \in Seq(Outputs)
      BY <1>0 DEF Workers
    <3>3. f \in ToSet(wk.out)
      BY <2>1, <3>2, ToSetTail
    <3>4. f.of = 0
      BY <2>1, <2>6, <3>3 DEF HostFence, Answers
    <3>5. /\ Numbered(wk', host.n) /\ Answers(wk', host.n, 0)
      BY <1>0, <2>1, <2>3, Inherited DEF HostFence
    <3>6. QED
      BY <2>1, <2>2, <2>6, <3>1, <3>4, <3>5 DEF HostFence, Holds
  <2>7. QED
    BY <2>1, <2>4, <2>5, <2>6
<1>4. QED
  BY <1>1, <1>2, <1>3

LEMMA HostStep ==
  ASSUME Typed, HostFence, Next
  PROVE  HostFence'
<1>0. /\ svc \in Services /\ host \in Hosts /\ wk \in Workers
      /\ svc.lock \in Seq({"turn", "title"})
  BY TypedParts DEF Services
<1>1. ASSUME UNCHANGED <<svc, host>>, Descends(wk, wk')
      PROVE  HostFence'
  BY <1>1, HostKept DEF Holds, HostFence
<1>2. ASSUME NEW a \in Turns, Begin(a) \/ TurnRuns(a) \/ Stall(a)
      PROVE  UNCHANGED <<svc, host, wk>>
  BY <1>2 DEF Begin, TurnRuns, Stall, Read, EmitReturns, LastEmit, DrainTakes, DrainEnds
<1>3. ASSUME FenceMoves \/ CloseBegins \/ HookRuns \/ Gathers \/ Closed
      PROVE  UNCHANGED <<svc, host, wk>>
  BY <1>3
    DEF FenceMoves, CloseBegins, HookRuns, HookStarts, HookWakes, HookTimesOut, HookTakes, HookEnds,
              Gathers, Closed
<1>4. Descends(wk, wk)
  BY <1>0, Drops
<1>5. CASE WorkerReads \/ WorkerWrites \/ WorkerFails
  BY <1>1, <1>5, ReadsDescends, WritesDescends DEF WorkerReads, WorkerWrites, WorkerFails, Outside
<1>6. CASE Loads \/ ServiceCloses \/ WorkerEnded
  <2>1. /\ UNCHANGED host
        /\ UNCHANGED svc \/ \E s \in BOOLEAN : svc' = [svc EXCEPT !.started = s]
        /\ \/ UNCHANGED wk \/ wk' = Sent(wk, Close)
           \/ wk' = [wk EXCEPT !.alive = FALSE, !.in = <<>>, !.jobs = <<>>]
           \/ \E b \in BOOLEAN : wk' = [wk EXCEPT !.alive = b]
    BY <1>6 DEF Loads, ServiceCloses, WorkerEnded, Sends
  <2>2. Close \in Commands /\ Close.kind # "generate"
    BY CommandsTyped DEF Close
  <2>3. Descends(wk, wk')
    BY <1>0, <2>1, <2>2, Drops, SentDescends
  <2>4. /\ svc'.turn = svc.turn /\ svc'.att = svc.att /\ svc'.title = svc.title
        /\ svc'.lock = svc.lock /\ svc'.name = svc.name
    BY <1>0, <2>1 DEF Services
  <2>5. QED
    BY <2>1, <2>3, <2>4, HostKept DEF HostFence, Holds
<1>7. CASE SessionCloses
  <2>1. /\ CancelsActive \/ UNCHANGED wk
        /\ svc' = [svc EXCEPT !.title = "idle", !.lock = RemoveFirst(@, "title")]
        /\ host' = host \/ host' = [host EXCEPT !.active = 0, !.back = 0]
    BY <1>7 DEF SessionCloses
  <2>2. host'.n = host.n
    BY <1>0, <2>1 DEF Hosts
  <2>3. /\ svc'.turn = svc.turn /\ svc'.att = svc.att /\ svc'.title = "idle" /\ svc'.name = svc.name
        /\ svc'.lock = RemoveFirst(svc.lock, "title")
    BY <1>0, <2>1 DEF Services
  <2>4. svc.turn = "asking" => Holds("turn")'
    BY <1>0, <2>3, LeftTheLine DEF HostFence, Holds
  <2>5. QED
    BY <2>1, <2>2, <2>3, <2>4, CancelDescends, HostKept
<1>8. QED
  BY <1>1, <1>2, <1>3, <1>4, <1>5, <1>6, <1>7, HostTurns, HostTitles DEF Next, EngineRuns

(* A frame joins the queue or leaves it; one leaves the pipeline. *)
LEMMA QueueTail ==
  ASSUME NEW q \in Seq(Tags), q # <<>>, QueueOrdered(q)
  PROVE  /\ QueueOrdered(Tail(q))
         /\ Terminal(Head(q).frame) =>
              \A t \in ToSet(Tail(q)) : Words(t.frame) => t.frame.of # Head(q).frame.of
<1>1. /\ 1 \in DOMAIN q /\ Head(q) = q[1]
      /\ \A i \in DOMAIN Tail(q) : i + 1 \in DOMAIN q /\ Tail(q)[i] = q[i + 1] /\ i \in Nat \ {0}
  OBVIOUS
<1>2. QueueOrdered(Tail(q))
  BY <1>1 DEF QueueOrdered
<1>3. ASSUME Terminal(Head(q).frame), NEW t \in ToSet(Tail(q)), Words(t.frame)
      PROVE  t.frame.of # Head(q).frame.of
  <2>1. PICK i \in DOMAIN Tail(q) : Tail(q)[i] = t
    BY DEF ToSet
  <2>2. QED
    BY <1>1, <1>3, <2>1 DEF QueueOrdered
<1>4. QED
  BY <1>2, <1>3

LEMMA QueueAppend ==
  ASSUME NEW q \in Seq(Tags), NEW t \in Tags, QueueOrdered(q),
         Words(t.frame) => \A u \in ToSet(q) : Terminal(u.frame) => u.frame.of # t.frame.of
  PROVE  QueueOrdered(Append(q, t))
<1> DEFINE r == Append(q, t)
<1>1. /\ DOMAIN r = 1..(Len(q) + 1) /\ r[Len(q) + 1] = t /\ Len(q) \in Nat /\ DOMAIN q = 1..Len(q)
      /\ \A i \in 1..Len(q) : r[i] = q[i]
  OBVIOUS
<1> HIDE DEF r
<1>2. ASSUME NEW i \in DOMAIN r, NEW j \in DOMAIN r, i < j, Terminal(r[i].frame), Words(r[j].frame)
      PROVE  r[i].frame.of # r[j].frame.of
  <2>1. i \in DOMAIN q /\ r[i] = q[i]
    BY <1>1, <1>2
  <2>2. CASE j \in DOMAIN q
    <3>1. r[j] = q[j]
      BY <1>1, <2>2
    <3>2. QED
      BY <1>2, <2>1, <2>2, <3>1 DEF QueueOrdered
  <2>3. CASE j \notin DOMAIN q
    <3>1. r[j] = t
      BY <1>1, <2>3
    <3>2. q[i] \in ToSet(q)
      BY <2>1 DEF ToSet
    <3>3. QED
      BY <1>2, <2>1, <3>1, <3>2
  <2>4. QED
    BY <2>2, <2>3
<1>3. QED
  BY <1>2 DEF QueueOrdered, r

\* What _offer does to a queue that has room for one frame at least.
LEMMA QueueOffered ==
  ASSUME NEW q \in Seq(Tags), NEW t \in Tags, QueueOrdered(q),
         Words(t.frame) => \A u \in ToSet(q) : Terminal(u.frame) => u.frame.of # t.frame.of
  PROVE  LET r == Offered(q, t) IN
         /\ r \in Seq(Tags) /\ QueueOrdered(r) /\ r # <<>>
         /\ ToSet(q) \subseteq ToSet(r) /\ ToSet(r) \subseteq ToSet(q) \cup {t}
         /\ r # q => t \in ToSet(r)
<1>1. t.att \in Turns /\ t.att # 0 /\ Capacity \in Nat \ {0}
  BY TurnsAreNumbers, AttemptAssumption DEF Tags
<1>2. CASE Len(q) = Capacity
  BY <1>1, <1>2 DEF Offered
<1>3. CASE Len(q) # Capacity
  <2>1. Offered(q, t) = Append(q, t)
    BY <1>1, <1>3 DEF Offered
  <2>2. QED
    BY <2>1, QueueAppend, ToSetAppend
<1>4. QED
  BY <1>2, <1>3

LEMMA QueueCancelled ==
  ASSUME NEW q \in Seq(Tags), NEW g \in Nat, NEW a \in Turns, QueueOrdered(q)
  PROVE  LET r == Offered(q, CancelledTag(g, a)) IN
         /\ r \in Seq(Tags) /\ QueueOrdered(r) /\ r # <<>> /\ ToSet(q) \subseteq ToSet(r)
         /\ \A t \in ToSet(r) : \/ t \in ToSet(q)
                                \/ t.att = a /\ t.gen = g /\ ~Words(t.frame) /\ ~Terminal(t.frame)
<1> DEFINE c == CancelledTag(g, a)
<1>1. c \in Tags /\ c.att = a /\ c.gen = g /\ c.frame.kind = "cancelled"
  BY TagsTyped DEF CancelledTag, Tagged, Frame
<1>2. ~Words(c.frame) /\ ~Terminal(c.frame)
  BY <1>1 DEF Words, Terminal
<1> HIDE DEF c
<1>3. QED
  BY <1>1, <1>2, QueueOffered DEF c

LEMMA OutTail ==
  ASSUME NEW out \in Seq(Frames), out # <<>>, OutOrdered(out)
  PROVE  /\ OutOrdered(Tail(out))
         /\ Terminal(Head(out)) => \A f \in ToSet(Tail(out)) : f.by # Head(out).by
<1>1. /\ 1 \in DOMAIN out /\ Head(out) = out[1]
      /\ \A i \in DOMAIN Tail(out) : i + 1 \in DOMAIN out /\ Tail(out)[i] = out[i + 1] /\ i \in Nat \ {0}
  OBVIOUS
<1>2. OutOrdered(Tail(out))
  BY <1>1 DEF OutOrdered
<1>3. ASSUME Terminal(Head(out)), NEW f \in ToSet(Tail(out))
      PROVE  f.by # Head(out).by
  <2>1. PICK i \in DOMAIN Tail(out) : Tail(out)[i] = f
    BY DEF ToSet
  <2>2. QED
    BY <1>1, <1>3, <2>1 DEF OutOrdered
<1>4. QED
  BY <1>2, <1>3

LEMMA OutAppend ==
  ASSUME NEW out \in Seq(Frames), NEW f \in Frames, OutOrdered(out),
         \A x \in ToSet(out) : Terminal(x) => x.by # f.by
  PROVE  OutOrdered(Append(out, f))
<1> DEFINE r == Append(out, f)
<1>1. /\ DOMAIN r = 1..(Len(out) + 1) /\ r[Len(out) + 1] = f /\ Len(out) \in Nat /\ DOMAIN out = 1..Len(out)
      /\ \A i \in 1..Len(out) : r[i] = out[i]
  OBVIOUS
<1> HIDE DEF r
<1>2. ASSUME NEW i \in DOMAIN r, NEW j \in DOMAIN r, i < j, Terminal(r[i])
      PROVE  r[i].by # r[j].by
  <2>1. i \in DOMAIN out /\ r[i] = out[i]
    BY <1>1, <1>2
  <2>2. out[i] \in ToSet(out)
    BY <2>1 DEF ToSet
  <2>3. CASE j \in DOMAIN out
    <3>1. r[j] = out[j]
      BY <1>1, <2>3
    <3>2. QED
      BY <1>2, <2>1, <2>3, <3>1 DEF OutOrdered
  <2>4. CASE j \notin DOMAIN out
    <3>1. r[j] = f
      BY <1>1, <2>4
    <3>2. QED
      BY <1>2, <2>1, <2>2, <3>1
  <2>5. QED
    BY <2>3, <2>4
<1>3. QED
  BY <1>2 DEF OutOrdered, r

(* The steps of the pipeline and the service: what is upstream only leaves. *)
\* What is upstream only leaves, and what an interruption will find stays so.
ThinsOut == /\ \A w \in Nat : Upstream(w)' => Upstream(w)
            /\ \A w \in Turns : Cleared(w) => Cleared(w)'

LEMMA StreamShrinks ==
  ASSUME Stream, UNCHANGED <<gen, fence, turn, prov, stash, stalled, overtaken, metered>>,
         ThinsOut, Typed,
         life'.at = "loading" => life.at = "loading",
         (TurnsMayRun' <=> TurnsMayRun) \/ (prov.att = 0 /\ fence.at = "idle")
  PROVE  Stream'
<1>0. /\ \A w \in Nat : Upstream(w)' => Upstream(w)
      /\ \A w \in Turns : Cleared(w) => Cleared(w)'
  BY DEF ThinsOut
<1>1. \A w \in Nat : Displaced(w)' <=> Displaced(w)
  BY DEF Displaced
<1>2. \A w \in Nat : Own(w)' <=> Own(w)
  BY <1>1 DEF Own, Displaced
<1>3. OwnStream'
  BY <1>0, <1>2, TurnsAreNumbers DEF Stream, OwnStream
<1>4. QueueTidy'
  <2>1. ASSUME NEW t \in ToSet(prov'.queue)
        PROVE  /\ t.att = prov'.att /\ t.gen = prov'.gen
               /\ Words(t.frame) => Own(t.frame.of)'
               /\ Terminal(t.frame) => ~Upstream(t.frame.of)'
    <3>1. t \in ToSet(prov.queue)
      BY DEF ToSet
    <3>2. t \in Tags
      BY <3>1 DEF Typed, ToSet
    <3>3. t.frame.of \in Nat
      BY <3>2 DEF Tags, Frames
    <3>4. QED
      BY <1>0, <1>2, <3>1, <3>3 DEF Stream, QueueTidy
  <2>2. QueueOrdered(prov'.queue)
    BY DEF Stream, QueueTidy
  <2>3. QED
    BY <2>1, <2>2 DEF QueueTidy
<1>5. OneByOne'
  <2>1. prov.att = 0 => \A a \in Turns : turn[a].at = "new"
    BY TurnsAreNumbers DEF Stream, OneByOne
  <2>2. QED
    BY <2>1 DEF Stream, OneByOne
<1>6. OverIsSpent'
  <2>1. prov.att # 0 => prov.att \in Turns /\ prov.att \in Nat
    BY TurnsAreNumbers DEF Typed
  <2>2. ASSUME NEW a \in Turns, Spent(a)
        PROVE  Spent(a)'
    BY <1>0, <2>2, TurnsAreNumbers DEF Spent
  <2>3. ASSUME prov.att # 0, TurnsMayRun', turn[prov.att].at \in Finals
        PROVE  Displaced(prov.att)' \/ Spent(prov.att)'
    BY <1>1, <2>1, <2>2, <2>3 DEF Stream, OverIsSpent
  <2>4. QED
    BY <1>0, <2>1, <2>3 DEF Stream, OverIsSpent
<1>7. Fencing'
  <2>1. prov.att # 0 => prov.att \in Turns /\ prov.att \in Nat
    BY TurnsAreNumbers DEF Typed
  <2>2. prov.att # 0 => (Upstream(prov.att)' => Upstream(prov.att)) /\ (Cleared(prov.att) => Cleared(prov.att)')
    BY <1>0, <2>1
  <2>3. (Passed' <=> Passed) /\ (TurnsMayRun' /\ prov.att # 0 => TurnsMayRun)
    BY DEF Passed
  <2>4. QED
    BY <2>1, <2>2, <2>3 DEF Stream, Fencing
<1>8. Heard'
  BY DEF Stream, Heard, Displaced
<1>9. Metered'
  BY DEF Stream, Metered, Displaced
<1>10. QED
  BY <1>3, <1>4, <1>5, <1>6, <1>7, <1>8, <1>9 DEF Stream

\* What leaves its place upstream goes one place down, or away.
LEMMA Thins ==
  ASSUME pipe'.in = pipe.in,
         \A w \in Nat : Served(w)' => Served(w),
         \A w \in Nat : Saying(w)' => Saying(w) \/ Served(w)
  PROVE  ThinsOut
<1>1. \A w \in Nat : AskedIn(pipe.in, w)' <=> AskedIn(pipe.in, w)
  BY DEF AskedIn
<1>2. \A w \in Nat : Upstream(w)' => Upstream(w)
  BY <1>1 DEF Upstream
<1>3. \A w \in Nat : CoveredIn(pipe.in, w)' <=> CoveredIn(pipe.in, w)
  BY DEF CoveredIn
<1>4. QED
  BY <1>2, <1>3, TurnsAreNumbers DEF Cleared, ThinsOut

LEMMA PushedOne ==
  ASSUME pipe \in Lines, NEW f \in Frames, Pushes(<<f>>)
  PROVE  pipe'.in = pipe.in /\ pipe'.out = Append(pipe.out, f)
<1>1. <<f>> \in Seq(Frames) /\ pipe.out \in Seq(Frames)
  BY DEF Lines
<1>2. pipe'.in = pipe.in /\ pipe'.out = pipe.out \o <<f>>
  BY <1>1, Pushed
<1>3. pipe.out \o <<f>> = Append(pipe.out, f)
  BY <1>1
<1>4. QED
  BY <1>2, <1>3

LEMMA PushedTwo ==
  ASSUME pipe \in Lines, NEW f \in Frames, NEW g \in Frames, Pushes(<<f, g>>)
  PROVE  pipe'.in = pipe.in /\ pipe'.out = Append(Append(pipe.out, f), g)
<1>1. <<f, g>> \in Seq(Frames) /\ pipe.out \in Seq(Frames)
  BY DEF Lines
<1>2. pipe'.in = pipe.in /\ pipe'.out = pipe.out \o <<f, g>>
  BY <1>1, Pushed
<1>3. pipe.out \o <<f, g>> = Append(Append(pipe.out, f), g)
  BY <1>1
<1>4. QED
  BY <1>2, <1>3

\* The frames of an answer, as they arrive.
LEMMA AnswerCases ==
  ASSUME Typed, HostFence, TurnCollects \/ Eof
  PROVE  LET a == svc.att IN
         \/ UNCHANGED pipe /\ svc'.turn = svc.turn /\ svc'.att = svc.att
         \/ /\ svc.turn = "asking" /\ pipe'.in = pipe.in
            /\ \/ /\ svc'.turn = svc.turn /\ svc'.att = svc.att
                  /\ pipe'.out = Append(pipe.out, Frame("text", a, a))
               \/ svc'.turn = "idle" /\ pipe'.out = Append(pipe.out, Frame("error", a, a))
               \/ /\ svc'.turn = "idle"
                  /\ pipe'.out = Append(Append(pipe.out, Frame("usage", a, a)), Frame("end", a, a))
<1> DEFINE a == svc.att
           f == Head(wk.out)
<1>0. /\ pipe \in Lines /\ svc \in Services /\ host \in Hosts /\ wk \in Workers /\ wk.out \in Seq(Outputs)
      /\ svc.turn # "idle" => svc.att \in Turns /\ svc.att \in Nat
      /\ pipe.out \in Seq(Frames)
      /\ wk.out # <<>> => f \in Outputs
  BY TypedParts DEF Workers, Lines
<1>1. CASE TurnCollects
  <2>1. svc.turn = "asking" /\ wk.out # <<>> /\ a \in Turns /\ svc.lock # <<>>
    BY <1>0, <1>1, CollectCases DEF HostFence, Holds
  <2>2. f.n = host.n => f.of = a
    <3>1. f \in ToSet(wk.out)
      BY <1>0, <2>1, ToSetTail
    <3>2. QED
      BY <2>1, <3>1 DEF HostFence, Answers
  <2>3. \A k \in {"text", "usage", "end", "error"} : Frame(k, a, a) \in Frames
    BY <2>1, TagsTyped, TurnsAreNumbers
  <2>4. CASE UNCHANGED <<svc, host, pipe>>
    BY <2>4
  <2>5. CASE UNCHANGED <<svc, host>> /\ Pushes(<<Frame("text", a, a)>>)
    BY <1>0, <2>1, <2>3, <2>5, PushedOne
  <2>6. CASE TurnReturns /\ Pushes(<<Frame("error", a, a)>>)
    <3>1. svc'.turn = "idle"
      BY <1>0, <2>1, <2>6, Returned
    <3>2. QED
      BY <1>0, <2>1, <2>3, <2>6, <3>1, PushedOne
  <2>7. CASE TurnReturns /\ Pushes(<<Frame("usage", a, a), Frame("end", a, a)>>)
    <3>1. svc'.turn = "idle"
      BY <1>0, <2>1, <2>7, Returned
    <3>2. QED
      BY <1>0, <2>1, <2>3, <2>7, <3>1, PushedTwo
  <2>8. QED
    BY <1>1, <2>2, <2>4, <2>5, <2>6, <2>7, CollectCases
<1>2. CASE Eof
  <2>1. CASE svc.turn = "asking" /\ Pushes(<<Frame("error", a, a)>>) /\ TurnReturns
    <3>1. a \in Turns /\ svc.lock # <<>> /\ Frame("error", a, a) \in Frames
      BY <1>0, <2>1, TagsTyped, TurnsAreNumbers DEF HostFence, Holds
    <3>2. svc'.turn = "idle"
      BY <1>0, <2>1, <3>1, Returned
    <3>3. QED
      BY <1>0, <2>1, <3>1, <3>2, PushedOne
  <2>2. CASE svc.title = "asking" /\ TitleReturns /\ UNCHANGED pipe
    <3>1. svc.lock # <<>>
      BY <2>2 DEF HostFence, Holds
    <3>2. QED
      BY <1>0, <2>2, <3>1, Returned
  <2>3. QED
    BY <1>2, <2>1, <2>2 DEF Eof
<1>3. QED
  BY <1>1, <1>2

LEMMA Collected ==
  ASSUME Typed, HostFence, PipeTidy, TurnCollects \/ Eof
  PROVE  PipeTidy' /\ ThinsOut
<1> DEFINE a == svc.att
           Part(k) == Frame(k, a, a)
<1>0. /\ pipe.out \in Seq(Frames)
      /\ svc.turn # "idle" => a \in Turns
      /\ \A x \in ToSet(pipe.out) : x \in Frames
  <2>1. pipe.out \in Seq(Frames) /\ (svc.turn # "idle" => a \in Turns)
    BY TypedParts DEF Lines
  <2>2. QED
    BY <2>1, ToSetIn
<1>1. CASE UNCHANGED pipe /\ svc'.turn = svc.turn /\ svc'.att = svc.att
  <2>1. PipeTidy'
    BY <1>1 DEF PipeTidy, Served, Saying
  <2>2. QED
    BY <1>1, <2>1, Thins DEF Served, Saying
<1>2. ASSUME svc.turn = "asking", pipe'.in = pipe.in,
             \A x \in ToSet(pipe'.out) :
               x \in ToSet(pipe.out) \/ \E k \in {"text", "usage", "end", "error"} : x = Part(k),
             OutOrdered(pipe'.out),
             \/ svc'.turn = "idle"
             \/ /\ svc'.turn = svc.turn /\ svc'.att = svc.att
                /\ \A x \in ToSet(pipe'.out) : Terminal(x) => x \in ToSet(pipe.out)
      PROVE  PipeTidy' /\ ThinsOut
  <2>1. \A k \in {"text", "usage", "end", "error"} : Part(k).by = a /\ Part(k).of = a /\ Words(Part(k))
    BY DEF Frame, Words
  <2>2. \A w \in Nat : Served(w)' => Served(w)
    BY <1>2 DEF Served
  <2>3. \A w \in Nat : Saying(w)' => Saying(w) \/ Served(w)
    BY <1>2, <2>1 DEF Saying, Served
  <2>4. ASSUME NEW w \in Turns, AskedIn(pipe'.in, w)
        PROVE  ~Served(w)' /\ ~Saying(w)'
    BY <1>2, <2>2, <2>3, <2>4, TurnsAreNumbers DEF PipeTidy
  <2>5. ASSUME NEW x \in ToSet(pipe'.out)
        PROVE  x.of = x.by /\ Words(x) /\ (Terminal(x) => ~Served(x.by)')
    <3>1. CASE x \in ToSet(pipe.out)
      BY <1>2, <3>1 DEF PipeTidy, Served
    <3>2. CASE x \notin ToSet(pipe.out)
      BY <1>2, <2>1, <2>5, <3>2 DEF Served
    <3>3. QED
      BY <3>1, <3>2
  <2>6. PipeTidy'
    BY <1>2, <2>4, <2>5 DEF PipeTidy
  <2>7. QED
    BY <1>2, <2>2, <2>3, <2>6, Thins
<1>3. ASSUME svc.turn = "asking"
      PROVE  /\ \A k \in {"text", "usage", "end", "error"} : Part(k) \in Frames /\ Part(k).by = a
             /\ \A k \in {"text", "usage"} : ~Terminal(Part(k))
             /\ OutOrdered(pipe.out) /\ \A x \in ToSet(pipe.out) : Terminal(x) => x.by # a
  <2>0. a \in Turns /\ a \in Nat
    BY <1>0, <1>3, TurnsAreNumbers
  <2>1. \A k \in {"text", "usage", "end", "error"} : Part(k) \in Frames /\ Part(k).by = a
    <3>1. \A k : Part(k).by = a
      BY DEF Frame
    <3> HIDE DEF Part
    <3>2. \A k \in {"text", "usage", "end", "error"} : Part(k) \in Frames
      BY <2>0, TagsTyped DEF Part
    <3>3. QED
      BY <3>1, <3>2
  <2>2. \A k \in {"text", "usage"} : ~Terminal(Part(k))
    BY DEF Frame, Terminal
  <2>3. QED
    BY <1>3, <2>1, <2>2 DEF PipeTidy, Served
<1> HIDE DEF Part
<1>4. CASE /\ svc.turn = "asking" /\ pipe'.in = pipe.in /\ svc'.turn = svc.turn /\ svc'.att = svc.att
           /\ pipe'.out = Append(pipe.out, Part("text"))
  <2>0. Part("text") \in Frames /\ Part("text").by = a
    BY <1>3, <1>4
  <2>1. /\ OutOrdered(Append(pipe.out, Part("text")))
        /\ ToSet(Append(pipe.out, Part("text"))) = ToSet(pipe.out) \cup {Part("text")}
    BY <1>0, <1>3, <1>4, <2>0, OutAppend, ToSetAppend
  <2>2. QED
    BY <1>2, <1>3, <1>4, <2>1
<1>5. CASE /\ svc.turn = "asking" /\ pipe'.in = pipe.in /\ svc'.turn = "idle"
           /\ pipe'.out = Append(pipe.out, Part("error"))
  <2>0. Part("error") \in Frames /\ Part("error").by = a
    BY <1>3, <1>5
  <2>1. /\ OutOrdered(Append(pipe.out, Part("error")))
        /\ ToSet(Append(pipe.out, Part("error"))) = ToSet(pipe.out) \cup {Part("error")}
    BY <1>0, <1>3, <1>5, <2>0, OutAppend, ToSetAppend
  <2>2. QED
    BY <1>2, <1>3, <1>5, <2>1
<1>6. CASE /\ svc.turn = "asking" /\ pipe'.in = pipe.in /\ svc'.turn = "idle"
           /\ pipe'.out = Append(Append(pipe.out, Part("usage")), Part("end"))
  <2> DEFINE mid == Append(pipe.out, Part("usage"))
  <2>0. /\ Part("usage") \in Frames /\ Part("usage").by = a
        /\ Part("end") \in Frames /\ Part("end").by = a
    BY <1>3, <1>6
  <2>1. OutOrdered(mid) /\ ToSet(mid) = ToSet(pipe.out) \cup {Part("usage")} /\ mid \in Seq(Frames)
    BY <1>0, <1>3, <1>6, <2>0, OutAppend, ToSetAppend
  <2>2. \A x \in ToSet(mid) : Terminal(x) => x.by # a
    BY <1>3, <1>6, <2>1
  <2> HIDE DEF mid
  <2>3. OutOrdered(Append(mid, Part("end"))) /\ ToSet(Append(mid, Part("end"))) = ToSet(mid) \cup {Part("end")}
    BY <1>3, <1>6, <2>0, <2>1, <2>2, OutAppend, ToSetAppend
  <2>4. pipe'.out = Append(mid, Part("end"))
    BY <1>6 DEF mid
  <2>5. QED
    BY <1>2, <1>6, <2>1, <2>3, <2>4
<1>7. QED
  BY <1>1, <1>4, <1>5, <1>6, AnswerCases DEF Part

LEMMA ContextMoves ==
  ASSUME Typed, PipeTidy, TakesContext
  PROVE  PipeTidy' /\ ThinsOut
<1> DEFINE in == pipe.in
           a  == Head(in).att
<1>1. /\ pipe \in Lines /\ svc \in Services /\ in \in Seq(Asks)
      /\ svc.turn = "idle" /\ in # <<>> /\ Head(in).kind = "context"
  BY TypedParts DEF TakesContext, Lines
<1>2. /\ pipe'.in = Tail(in) /\ pipe'.out = pipe.out /\ svc'.turn = "lock" /\ svc'.att = a
  BY <1>1 DEF TakesContext, Lines, Services
<1>3. /\ AskedIn(in, a) /\ a \in Turns
      /\ OnceAsked(Tail(in)) /\ ~AskedIn(Tail(in), a)
      /\ \A w : AskedIn(Tail(in), w) => AskedIn(in, w)
      /\ \A w : CoveredIn(in, w) => CoveredIn(Tail(in), w)
  BY <1>1, ContextTaken DEF PipeTidy
<1>4. \A w : (Served(w)' <=> w = a) /\ (Saying(w)' <=> Saying(w)) /\ ~Served(w)
  BY <1>1, <1>2 DEF Served, Saying
<1> HIDE DEF a, in
<1>5. PipeTidy'
  <2>1. \A w \in Turns : AskedIn(pipe'.in, w) => ~Served(w)' /\ ~Saying(w)'
    BY <1>2, <1>3, <1>4 DEF PipeTidy, in
  <2>2. ASSUME NEW f \in ToSet(pipe'.out)
        PROVE  f.of = f.by /\ Words(f) /\ (Terminal(f) => ~Served(f.by)')
    <3>1. f \in ToSet(pipe.out)
      BY <1>2, <2>2
    <3>2. f.by # a
      BY <1>3, <3>1 DEF PipeTidy, Saying, in
    <3>3. QED
      BY <1>4, <3>1, <3>2 DEF PipeTidy
  <2>3. QED
    BY <1>2, <1>3, <2>1, <2>2 DEF PipeTidy
<1>6. \A w : Upstream(w)' => Upstream(w)
  BY <1>2, <1>3, <1>4 DEF Upstream, in
<1>7. \A w : CoveredIn(pipe.in, w) => CoveredIn(pipe.in, w)'
  BY <1>2, <1>3 DEF in, CoveredIn
<1>8. QED
  BY <1>5, <1>6, <1>7 DEF ThinsOut, Cleared

LEMMA LineCut ==
  ASSUME Typed, PipeTidy, Interrupted \/ ProviderCloses
  PROVE  PipeTidy' /\ ThinsOut
<1> DEFINE in == pipe.in
<1>1. /\ pipe \in Lines /\ svc \in Services /\ in \in Seq(Asks)
  BY TypedParts DEF Lines
<1>2. pipe'.out = <<>> /\ svc'.turn = "idle"
  <2>1. svc' = [svc EXCEPT !.turn = "idle", !.att = 0, !.lock = RemoveFirst(@, "turn")]
    BY DEF Interrupted, ProviderCloses
  <2>2. svc'.turn = "idle"
    BY <1>1, <2>1 DEF Services
  <2>3. \E s : pipe' = [in |-> s, out |-> <<>>]
    BY Zenon DEF Interrupted, ProviderCloses
  <2>4. QED
    BY <2>2, <2>3
<1>3. /\ OnceAsked(pipe'.in)
      /\ \A w : AskedIn(pipe'.in, w) => AskedIn(in, w)
      /\ \A w : CoveredIn(in, w) => CoveredIn(pipe'.in, w) \/ ~AskedIn(pipe'.in, w)
  <2>1. CASE Interrupted
    <3> DEFINE k == SelectInSeq(in, LAMBDA x : x = Interruption)
    <3>1. k \in DOMAIN in
      BY <1>1, <2>1, FirstOf DEF Interrupted, Quiet
    <3>2. pipe'.in = SubSeq(in, k + 1, Len(in))
      BY <2>1 DEF Interrupted
    <3> HIDE DEF k
    <3>3. QED
      BY <1>1, <3>1, <3>2, LineShortened DEF PipeTidy
  <2>2. CASE ProviderCloses
    <3>1. pipe'.in = <<>>
      BY <2>2 DEF ProviderCloses
    <3>2. QED
      BY <3>1 DEF OnceAsked, AskedIn
  <2>3. QED
    BY <2>1, <2>2
<1> HIDE DEF in
<1>4. ToSet(pipe'.out) = {}
  BY <1>2 DEF ToSet
<1>5. \A w : ~Served(w)' /\ ~Saying(w)'
  BY <1>2, <1>4 DEF Served, Saying
<1>6. PipeTidy'
  <2>1. OutOrdered(pipe'.out)
    BY <1>2 DEF OutOrdered
  <2>2. QED
    BY <1>3, <1>4, <1>5, <2>1 DEF PipeTidy
<1>7. \A w : Upstream(w)' <=> AskedIn(pipe'.in, w)
  BY <1>5 DEF Upstream
<1>8. \A w : CoveredIn(pipe.in, w)' <=> CoveredIn(pipe'.in, w)
  BY DEF CoveredIn
<1>9. \A w : Upstream(w)' => Upstream(w)
  BY <1>3, <1>7 DEF Upstream, in
<1>10. \A w : Cleared(w) => Cleared(w)'
  BY <1>3, <1>7, <1>8, <1>9 DEF Cleared, in
<1>11. QED
  BY <1>6, <1>9, <1>10 DEF ThinsOut

LEMMA NothingFlows ==
  ASSUME PipeTidy, pipe' = pipe, svc'.turn = svc.turn \/ (svc.turn # "idle" /\ svc'.turn # "idle"),
         svc'.att = svc.att
  PROVE  PipeTidy' /\ ThinsOut
<1>1. \A w : (Served(w)' <=> Served(w)) /\ (Saying(w)' <=> Saying(w))
  BY DEF Served, Saying
<1>2. PipeTidy'
  BY <1>1 DEF PipeTidy
<1>3. QED
  BY <1>1, <1>2, Thins

\* What neither a turn does, nor the fence, the collector or the session that closes.
PipelineMoves ==
  \/ TakesContext \/ TurnAsks \/ TurnCollects \/ Eof \/ Interrupted \/ ProviderCloses
  \/ TitleWanted \/ TitleAsks \/ TitleCollects \/ WorkerReads \/ WorkerWrites \/ WorkerFails
  \/ Loads \/ ServiceCloses \/ WorkerEnded \/ Closed

LEMMA PipelineThins ==
  ASSUME Typed, HostFence, PipeTidy, PipelineMoves
  PROVE  /\ PipeTidy' /\ ThinsOut
         /\ UNCHANGED <<gen, fence, turn, prov, stash, stalled, overtaken, metered>>
<1>0. svc \in Services
  BY TypedParts
<1>1. PipeTidy' /\ ThinsOut
  <2>1. CASE TakesContext
    BY <2>1, ContextMoves
  <2>2. CASE TurnCollects \/ Eof
    BY <2>2, Collected
  <2>3. CASE Interrupted \/ ProviderCloses
    BY <2>3, LineCut
  <2>4. CASE TurnAsks \/ TitleWanted \/ TitleAsks
    <3>1. pipe' = pipe
      BY <2>4 DEF TurnAsks, TitleWanted, TitleAsks
    <3>2. \/ svc.turn = "lock" /\ svc' = [svc EXCEPT !.turn = "asking", !.started = TRUE]
          \/ svc' = [svc EXCEPT !.title = "lock", !.titles = @ + 1, !.name = {}, !.lock = Append(@, "title")]
          \/ svc' = [svc EXCEPT !.title = "asking", !.started = TRUE]
      BY <2>4 DEF TurnAsks, TitleWanted, TitleAsks
    <3>3. /\ svc'.turn = svc.turn \/ (svc.turn # "idle" /\ svc'.turn # "idle")
          /\ svc'.att = svc.att
      BY <1>0, <3>2 DEF Services
    <3>4. QED
      BY <3>1, <3>3, NothingFlows
  <2>5. CASE TitleCollects
    <3>1. pipe' = pipe
      BY <2>5 DEF TitleCollects
    <3>2. svc' = svc \/ TitleReturns \/ \E x : svc' = [svc EXCEPT !.name = @ \union {x}]
      BY <2>5, Zenon DEF TitleCollects
    <3>3. svc'.turn = svc.turn /\ svc'.att = svc.att
      BY <1>0, <3>2 DEF Services, TitleReturns
    <3>4. QED
      BY <3>1, <3>3, NothingFlows
  <2>6. CASE \/ WorkerReads \/ WorkerWrites \/ WorkerFails
             \/ Loads \/ ServiceCloses \/ WorkerEnded \/ Closed
    <3>1. /\ pipe' = pipe
          /\ svc' = svc \/ \E b \in BOOLEAN : svc' = [svc EXCEPT !.started = b]
      BY <2>6
        DEF WorkerReads, WorkerWrites, WorkerFails, Outside, Loads, ServiceCloses, WorkerEnded,
            Closed
    <3>2. svc'.turn = svc.turn /\ svc'.att = svc.att
      BY <1>0, <3>1 DEF Services
    <3>3. QED
      BY <3>1, <3>2, NothingFlows
  <2>7. QED
    BY <2>1, <2>2, <2>3, <2>4, <2>5, <2>6 DEF PipelineMoves
<1>2. UNCHANGED <<gen, fence, turn, prov, stash, stalled, overtaken, metered>>
  BY DEF PipelineMoves, TakesContext, TurnAsks, TurnCollects, Eof, Interrupted, ProviderCloses,
         TitleWanted, TitleAsks, TitleCollects, WorkerReads, WorkerWrites, WorkerFails, Outside,
         Loads, ServiceCloses, WorkerEnded, Closed
<1>3. QED
  BY <1>1, <1>2

LEMMA PipelineFlows ==
  ASSUME Typed, HostFence, PipeTidy, Stream, life = [at |-> life.at, left |-> life.left],
         PipelineMoves
  PROVE  PipeTidy' /\ Stream'
<1>1. PipeTidy' /\ ThinsOut
  BY PipelineThins
<1>2. UNCHANGED <<gen, fence, turn, prov, stash, stalled, overtaken, metered>>
  BY PipelineThins
<1>3. /\ life'.at = "loading" => life.at = "loading"
      /\ (TurnsMayRun' <=> TurnsMayRun) \/ (prov.att = 0 /\ fence.at = "idle")
  <2>1. CASE \/ TakesContext \/ TurnAsks \/ TurnCollects \/ Eof \/ Interrupted
             \/ TitleWanted \/ TitleAsks \/ TitleCollects \/ WorkerReads \/ WorkerWrites \/ WorkerFails
    BY <2>1 DEF TakesContext, TurnAsks, TurnCollects, Eof, Interrupted, TitleWanted, TitleAsks,
                TitleCollects, WorkerReads, WorkerWrites, WorkerFails, Outside, TurnsMayRun
  <2>2. CASE ProviderCloses \/ ServiceCloses \/ WorkerEnded \/ Closed
    <3>1. life.at \in {"closers", "waiting"} /\ life'.at \in {"closers", "waiting", "closed"}
      BY <2>2 DEF ProviderCloses, ServiceCloses, WorkerEnded, Closed
    <3>2. QED
      BY <3>1 DEF TurnsMayRun
  <2>3. CASE Loads
    <3>1. life.at = "loading" /\ life'.at \in {"up", "failed"}
      BY <2>3 DEF Loads
    <3>2. QED
      BY <3>1 DEF Stream, OneByOne, TurnsMayRun
  <2>4. QED
    BY <2>1, <2>2, <2>3 DEF PipelineMoves
<1>4. QED
  BY <1>1, <1>2, <1>3, StreamShrinks

(* One turn takes a step.                                                  *)

\* The interruption is behind whatever was asked.
LEMMA LineInterrupted ==
  ASSUME Typed, PipeTidy, svc' = svc, pipe' = [pipe EXCEPT !.in = Append(@, Interruption)]
  PROVE  PipeTidy' /\ ThinsOut /\ \A w : Cleared(w)'
<1>1. pipe \in Lines /\ pipe.in \in Seq(Asks)
  BY TypedParts DEF Lines
<1>2. pipe'.in = Append(pipe.in, Interruption) /\ pipe'.out = pipe.out
  BY <1>1 DEF Lines
<1>3. /\ OnceAsked(pipe'.in)
      /\ \A w : (AskedIn(pipe'.in, w) <=> AskedIn(pipe.in, w)) /\ CoveredIn(pipe'.in, w)
  BY <1>1, <1>2, InterruptionAppended DEF PipeTidy
<1>4. \A w : (Served(w)' <=> Served(w)) /\ (Saying(w)' <=> Saying(w))
  BY <1>2 DEF Served, Saying
<1>5. PipeTidy'
  BY <1>2, <1>3, <1>4 DEF PipeTidy
<1>6. \A w : (Upstream(w)' <=> Upstream(w)) /\ Cleared(w)'
  BY <1>3, <1>4 DEF Upstream, Cleared
<1>7. QED
  BY <1>5, <1>6 DEF ThinsOut

\* The reader that is woken finds the queue as it was, or with one frame more.
LEMMA Interrupting ==
  ASSUME Typed, PipeTidy, svc' = svc, prov.att \in Turns,
         NEW q \in Seq(Tags), QueueOrdered(q), Interrupts(prov.gen, prov.att, q)
  PROVE  /\ PipeTidy' /\ ThinsOut /\ \A w : Cleared(w)'
         /\ prov'.att = prov.att /\ prov'.gen = prov.gen /\ prov'.finished = prov.finished
         /\ QueueOrdered(prov'.queue) /\ prov'.queue # <<>> /\ ToSet(q) \subseteq ToSet(prov'.queue)
         /\ \A t \in ToSet(prov'.queue) :
              \/ t \in ToSet(q)
              \/ t.att = prov.att /\ t.gen = prov.gen /\ ~Words(t.frame) /\ ~Terminal(t.frame)
<1> DEFINE r == Offered(q, CancelledTag(prov.gen, prov.att))
<1>1. /\ prov \in [att : {0} \cup Turns, gen : Nat, queue : Seq(Tags), finished : BOOLEAN]
      /\ prov.gen \in Nat
  BY DEF Typed
<1>2. PipeTidy' /\ ThinsOut /\ \A w : Cleared(w)'
  BY LineInterrupted DEF Interrupts
<1>3. prov' = [prov EXCEPT !.queue = r]
  BY DEF Interrupts
<1>4. /\ r \in Seq(Tags) /\ QueueOrdered(r) /\ r # <<>> /\ ToSet(q) \subseteq ToSet(r)
      /\ \A t \in ToSet(r) : \/ t \in ToSet(q)
                             \/ t.att = prov.att /\ t.gen = prov.gen /\ ~Words(t.frame) /\ ~Terminal(t.frame)
  BY <1>1, QueueCancelled
<1> HIDE DEF r
<1>5. prov'.att = prov.att /\ prov'.gen = prov.gen /\ prov'.finished = prov.finished /\ prov'.queue = r
  BY <1>1, <1>3
<1>6. QED
  BY <1>2, <1>4, <1>5

\* What a step may do to the queue: take from it, or wake its reader.
QueueThins ==
  /\ prov'.att = prov.att /\ prov'.gen = prov.gen /\ QueueOrdered(prov'.queue)
  /\ \A t \in ToSet(prov'.queue) :
       \/ t \in ToSet(prov.queue)
       \/ t.att = prov.att /\ t.gen = prov.gen /\ ~Words(t.frame) /\ ~Terminal(t.frame)

LEMMA QueueKept ==
  ASSUME Typed, Stream, ThinsOut, QueueThins, stalled \subseteq stalled', overtaken' = overtaken
  PROVE  /\ OwnStream' /\ QueueTidy'
         /\ \A w \in Nat : Displaced(w) => Displaced(w)'
         /\ \A w \in Turns : Spent(w) => Spent(w)'
<1>1. \A w \in Nat : Displaced(w) => Displaced(w)'
  BY DEF Displaced
<1>2. \A w \in Nat : Own(w) => Own(w)'
  BY <1>1, TurnsAreNumbers DEF Own, QueueThins
<1>3. OwnStream'
  BY <1>2, TurnsAreNumbers DEF Stream, OwnStream, ThinsOut
<1>4. ASSUME NEW t \in ToSet(prov.queue)
      PROVE  t.frame.of \in Nat
  <2>1. t \in Tags
    BY DEF Typed, ToSet
  <2>2. QED
    BY <2>1 DEF Tags, Frames
<1>5. ASSUME NEW t \in ToSet(prov'.queue)
      PROVE  /\ t.att = prov'.att /\ t.gen = prov'.gen
             /\ Words(t.frame) => Own(t.frame.of)'
             /\ Terminal(t.frame) => ~Upstream(t.frame.of)'
  <2>1. CASE t \in ToSet(prov.queue)
    BY <1>2, <1>4, <2>1 DEF Stream, QueueTidy, QueueThins, ThinsOut
  <2>2. CASE t \notin ToSet(prov.queue)
    BY <2>2 DEF QueueThins
  <2>3. QED
    BY <2>1, <2>2
<1>6. QueueTidy'
  BY <1>5 DEF QueueTidy, QueueThins
<1>7. ASSUME NEW w \in Turns, Spent(w)
      PROVE  Spent(w)'
  BY <1>7, TurnsAreNumbers DEF Spent, QueueThins, ThinsOut
<1>8. QED
  BY <1>1, <1>3, <1>6, <1>7

\* The turn with its new state, the others as they were.
Became(a, x, ws, u) ==
  /\ turn'[a].at = x /\ turn'[a].gen = turn[a].gen /\ turn'[a].words = ws /\ turn'[a].usage = u
  /\ \A b \in Turns \ {a} : turn'[b] = turn[b]

LEMMA TurnBecomes ==
  ASSUME Typed, NEW a \in Turns
  PROVE  /\ \A x \in Ats : turn' = [turn EXCEPT ![a].at = x] => Became(a, x, turn[a].words, turn[a].usage)
         /\ \A u \in Nat : turn' = [turn EXCEPT ![a].usage = u]
              => Became(a, turn[a].at, turn[a].words, u)
         /\ \A x \in Ats, n \in Nat : turn' = [turn EXCEPT ![a].at = x, ![a].words = @ \union {n}]
              => Became(a, x, turn[a].words \cup {n}, turn[a].usage)
<1>1. turn \in [Turns -> TurnStates] /\ turn[a] \in TurnStates
  BY DEF Typed
<1>2. ASSUME NEW s, turn' = [turn EXCEPT ![a] = s]
      PROVE  turn'[a] = s /\ \A b \in Turns \ {a} : turn'[b] = turn[b]
  BY <1>1, <1>2
<1>3. ASSUME NEW x \in Ats, turn' = [turn EXCEPT ![a].at = x]
      PROVE  Became(a, x, turn[a].words, turn[a].usage)
  <2>1. turn' = [turn EXCEPT ![a] = [turn[a] EXCEPT !.at = x]]
    BY <1>3
  <2>2. QED
    BY <1>1, <1>2, <2>1 DEF Became, TurnStates
<1>4. ASSUME NEW u \in Nat, turn' = [turn EXCEPT ![a].usage = u]
      PROVE  Became(a, turn[a].at, turn[a].words, u)
  <2>1. turn' = [turn EXCEPT ![a] = [turn[a] EXCEPT !.usage = u]]
    BY <1>4
  <2>2. QED
    BY <1>1, <1>2, <2>1 DEF Became, TurnStates
<1>5. ASSUME NEW x \in Ats, NEW n \in Nat, turn' = [turn EXCEPT ![a].at = x, ![a].words = @ \union {n}]
      PROVE  Became(a, x, turn[a].words \cup {n}, turn[a].usage)
  <2>1. turn' = [turn EXCEPT ![a] = [turn[a] EXCEPT !.at = x, !.words = turn[a].words \cup {n}]]
    BY <1>5
  <2>2. QED
    BY <1>1, <1>2, <2>1 DEF Became, TurnStates
<1>6. QED
  BY <1>3, <1>4, <1>5

\* A turn that reads, speaks or drains is the live attempt's, and the session is open.
LEMMA ActiveTurn ==
  ASSUME Typed, Stream, NEW a \in Turns, turn[a].at \in Active
  PROVE  /\ a = prov.att /\ prov.att # 0 /\ turn[a].gen = prov.gen /\ TurnsMayRun /\ ~prov.finished
         /\ fence.at # "draining"
         /\ \A b \in Turns : b # a => turn[b].at \notin Active
         /\ \A t \in ToSet(prov.queue) : Belongs(t, a)
<1>1. a = prov.att /\ a # 0 /\ \A b \in Turns : b # a => turn[b].at \notin Active
  BY TurnsAreNumbers DEF Stream, OneByOne
<1>2. TurnsMayRun
  BY DEF Stream, OneByOne, Active, Settled
<1>3. turn[a].at \notin Finals
  BY DEF Active, Finals, Settled
<1>4. ~prov.finished
  BY <1>1, <1>2, <1>3 DEF Stream, OverIsSpent, Typed
<1>5. fence.at # "draining"
  BY <1>1, <1>2, <1>4 DEF Stream, Fencing
<1>6. turn[a].gen = prov.gen
  BY <1>1 DEF Stream, OneByOne
<1>7. \A t \in ToSet(prov.queue) : Belongs(t, a)
  BY <1>1, <1>6 DEF Stream, QueueTidy, Belongs
<1>8. QED
  BY <1>1, <1>2, <1>4, <1>5, <1>6, <1>7

LEMMA TurnSteps ==
  ASSUME Typed, Stream, ThinsOut, QueueThins, stalled \subseteq stalled',
         UNCHANGED <<life, gen, fence, stash, overtaken, metered>>,
         NEW a \in Turns, turn[a].at \in Active,
         NEW x \in Ats \ {"new"}, NEW ws, NEW u, Became(a, x, ws, u),
         \A w \in ws : w \in turn[a].words \/ w = a \/ Displaced(w),
         u = turn[a].usage \/ u = a \/ (u \in Nat /\ Displaced(u)),
         x = "draining" => Cleared(a)',
         x \in Finals => Displaced(a)' \/ Spent(a)',
         prov'.finished => x \in Finals,
         x \in {"reading", "emitting"} =>
           turn[a].at \in {"reading", "emitting"} /\ (prov'.queue = prov.queue \/ prov.gen = gen),
         ~Displaced(a) /\ ~Displaced(a)' /\ a \in metered =>
           \/ u = a
           \/ x = "cancelled"
           \/ x \in Active /\ (turn[a].gen # gen \/ \E t \in ToSet(prov'.queue) : t.frame.kind = "usage")
  PROVE  Stream'
<1>1. /\ a = prov.att /\ prov.att # 0 /\ turn[a].gen = prov.gen /\ TurnsMayRun /\ ~prov.finished
      /\ fence.at # "draining" /\ \A b \in Turns : b # a => turn[b].at \notin Active
  BY ActiveTurn
<1>2. TurnsMayRun' /\ prov'.att = prov.att /\ prov'.gen = prov.gen
  BY <1>1 DEF TurnsMayRun, QueueThins
<1>3. /\ turn'[a].at = x /\ turn'[a].gen = turn[a].gen /\ turn'[a].words = ws /\ turn'[a].usage = u
      /\ \A b \in Turns \ {a} : turn'[b] = turn[b]
  BY DEF Became
<1>4. /\ OwnStream' /\ QueueTidy'
      /\ \A w \in Nat : Displaced(w) => Displaced(w)'
      /\ \A w \in Turns : Spent(w) => Spent(w)'
  BY QueueKept
<1>5. turn[a].at # "new"
  BY DEF Active
<1>6. OneByOne'
  <2>1. ASSUME NEW b \in Turns
        PROVE  /\ turn'[b].at = "new" <=> b > prov'.att
               /\ turn'[b].at \in Active => b = prov'.att
               /\ turn'[b].gen <= gen
    BY <1>1, <1>2, <1>3, <1>5 DEF Stream, OneByOne
  <2>2. QED
    BY <1>1, <1>2, <1>3, <2>1 DEF Stream, OneByOne
<1>7. OverIsSpent'
  <2>1. ASSUME NEW b \in Turns, turn'[b].at = "draining"
        PROVE  Cleared(b)'
    BY <1>1, <1>3, <2>1 DEF Active
  <2>2. QED
    BY <1>1, <1>2, <1>3, <2>1 DEF OverIsSpent
<1>8. Fencing'
  <2>1. fence.at = "stages" => fence.prev < gen /\ fence.usage = 0
    BY DEF Stream, Fencing
  <2>2. Passed' <=> Passed
    BY <1>2 DEF Passed
  <2>3. /\ Upstream(prov.att)' => Upstream(prov.att)
        /\ Cleared(prov.att) => Cleared(prov.att)'
    BY <1>1, <1>2, TurnsAreNumbers DEF ThinsOut
  <2>4. ASSUME Passed'
        PROVE  ~Upstream(prov.att)' /\ x \notin {"reading", "emitting"}
    BY <1>1, <2>2, <2>3, <2>4 DEF Stream, Fencing
  <2>5. ASSUME fence.at = "waiting"
        PROVE  /\ fence.att = prov.att /\ prov.gen # gen /\ Cleared(prov.att)'
               /\ x \in {"reading", "emitting"} => prov'.queue # <<>>
    BY <1>1, <2>3, <2>5 DEF Stream, Fencing
  <2>6. QED
    BY <1>1, <1>2, <1>3, <2>1, <2>4, <2>5 DEF Fencing
<1>9. Heard'
  <2>1. ASSUME NEW b \in Turns
        PROVE  /\ \A w \in turn'[b].words : w = b \/ \E c \in stalled' \cup overtaken' : c <= w
               /\ turn'[b].usage = 0 \/ turn'[b].usage = b \/ \E c \in stalled' \cup overtaken' : c <= turn'[b].usage
    <3>1. Heard
      BY DEF Stream
    <3>2. \A w : Displaced(w) => \E c \in stalled' \cup overtaken' : c <= w
      BY DEF Displaced
    <3>3. CASE b = a
      BY <1>3, <3>1, <3>2, <3>3 DEF Heard
    <3>4. CASE b # a
      BY <1>3, <3>1, <3>2, <3>4 DEF Heard
    <3>5. QED
      BY <3>3, <3>4
  <2>2. QED
    BY <2>1 DEF Heard, Displaced
<1>10. Metered'
  <2>1. \A w : Displaced(w) => Displaced(w)'
    BY DEF Displaced
  <2>2. ASSUME NEW b \in metered, ~Displaced(b)'
        PROVE  \/ turn'[b].usage = b
               \/ turn'[b].at = "cancelled"
               \/ /\ turn'[b].at \in Active
                  /\ (turn'[b].gen # gen \/ \E t \in ToSet(prov'.queue) : t.frame.kind = "usage")
    <3>1. b \in Turns /\ ~Displaced(b)
      BY <2>1, <2>2 DEF Typed
    <3>2. CASE b = a
      BY <1>3, <2>2, <3>1, <3>2
    <3>3. CASE b # a
      <4>1. turn'[b] = turn[b] /\ turn[b].at \notin Active
        BY <1>1, <1>3, <3>1, <3>3
      <4>2. QED
        BY <3>1, <4>1 DEF Stream, Metered
    <3>4. QED
      BY <3>2, <3>3
  <2>3. \A b \in Turns : stash[b] # 0 => Displaced(b)'
    BY <2>1 DEF Stream, Metered
  <2>4. fence.usage # 0 => Displaced(fence.att)'
    BY <2>1 DEF Stream, Metered
  <2>5. QED
    BY <2>2, <2>3, <2>4 DEF Metered
<1>11. QED
  BY <1>4, <1>6, <1>7, <1>8, <1>9, <1>10 DEF Stream

LEMMA QueueTaken ==
  ASSUME Typed, Stream, prov.queue # <<>>,
         \/ prov' = [prov EXCEPT !.queue = Tail(@)]
         \/ prov' = [prov EXCEPT !.queue = Tail(@), !.finished = TRUE]
  PROVE  LET t == Head(prov.queue) IN
         /\ QueueThins /\ prov'.queue = Tail(prov.queue)
         /\ prov' = [prov EXCEPT !.queue = Tail(@)] => prov'.finished = prov.finished
         /\ t \in ToSet(prov.queue) /\ t.frame.of \in Nat
         /\ \A u \in ToSet(prov.queue) : u = t \/ u \in ToSet(prov'.queue)
         /\ ToSet(prov'.queue) \subseteq ToSet(prov.queue)
         /\ Terminal(t.frame) => \A u \in ToSet(prov'.queue) : Words(u.frame) => u.frame.of # t.frame.of
         /\ Words(t.frame) => Own(t.frame.of)
         /\ Terminal(t.frame) => Words(t.frame) /\ ~Upstream(t.frame.of)
<1> DEFINE t == Head(prov.queue)
<1>1. /\ prov \in [att : {0} \cup Turns, gen : Nat, queue : Seq(Tags), finished : BOOLEAN]
      /\ prov.queue \in Seq(Tags)
  BY DEF Typed
<1>2. /\ prov'.queue = Tail(prov.queue) /\ prov'.att = prov.att /\ prov'.gen = prov.gen
      /\ prov' = [prov EXCEPT !.queue = Tail(@)] => prov'.finished = prov.finished
  BY <1>1
<1>3. /\ t \in ToSet(prov.queue) /\ t \in Tags /\ ToSet(Tail(prov.queue)) \subseteq ToSet(prov.queue)
      /\ \A u \in ToSet(prov.queue) : u = t \/ u \in ToSet(Tail(prov.queue))
  BY <1>1, ToSetTail
<1>4. t.frame.of \in Nat
  BY <1>3 DEF Tags, Frames
<1>5. QueueTidy
  BY DEF Stream
<1>6. /\ QueueOrdered(Tail(prov.queue))
      /\ Terminal(t.frame) => \A u \in ToSet(Tail(prov.queue)) : Words(u.frame) => u.frame.of # t.frame.of
  BY <1>1, <1>5, QueueTail DEF QueueTidy
<1>7. Terminal(t.frame) => Words(t.frame)
  BY DEF Terminal, Words
<1>8. /\ Words(t.frame) => Own(t.frame.of)
      /\ Terminal(t.frame) => ~Upstream(t.frame.of)
  BY <1>3, <1>5 DEF QueueTidy
<1>9. QueueThins
  BY <1>2, <1>3, <1>6 DEF QueueThins
<1>10. QED
  BY <1>2, <1>3, <1>4, <1>6, <1>7, <1>8, <1>9

\* Unless the stream is displaced, what is the live attempt's is nobody else's.
LEMMA OwnIsLive ==
  ASSUME Typed, NEW n \in Nat, Own(n), prov.att # 0
  PROVE  /\ n = prov.att \/ (Displaced(n) /\ Displaced(prov.att))
         /\ ~Displaced(prov.att) => n = prov.att
<1>1. n \in Turns /\ n <= prov.att /\ (n = prov.att \/ Displaced(n))
  BY DEF Own
<1>2. Displaced(n) => Displaced(prov.att)
  <2>1. prov.att \in Nat /\ \A c \in stalled \cup overtaken : c \in Nat
    <3>1. /\ prov.att \in {0} \cup Turns /\ stalled \subseteq Turns
          /\ overtaken \subseteq {0} \cup Turns
      BY DEF Typed
    <3>2. \A c \in {0} \cup Turns : c \in Nat
      BY TurnsAreNumbers
    <3>3. QED
      BY <3>1, <3>2
  <2>2. QED
    BY <1>1, <2>1 DEF Displaced
<1>3. QED
  BY <1>1, <1>2

LEMMA ReadStep ==
  ASSUME Typed, PipeTidy, Stream, NEW a \in Turns, Read(a)
  PROVE  PipeTidy' /\ Stream'
<1> DEFINE t == Head(prov.queue)
           T == Tail(prov.queue)
<1>1. /\ turn[a].at = "reading" /\ prov.queue # <<>>
      /\ UNCHANGED <<life, gen, fence, stash, svc, stalled, overtaken, metered>>
  BY ReadCases
<1>2. /\ a = prov.att /\ prov.att # 0 /\ turn[a].gen = prov.gen /\ ~prov.finished
      /\ \A u \in ToSet(prov.queue) : Belongs(u, a)
  BY <1>1, ActiveTurn DEF Active
<1>3. /\ prov.queue \in Seq(Tags) /\ T \in Seq(Tags) /\ turn[a].usage \in Nat /\ turn[a] \in TurnStates
      /\ t \in ToSet(prov.queue) /\ ToSet(T) \subseteq ToSet(prov.queue) /\ QueueOrdered(T)
      /\ \A u \in ToSet(prov.queue) : u = t \/ u \in ToSet(T)
  <2>1. prov.queue \in Seq(Tags) /\ turn[a] \in TurnStates
    BY DEF Typed
  <2>2. QueueOrdered(prov.queue)
    BY DEF Stream, QueueTidy
  <2>3. QED
    BY <1>1, <2>1, <2>2, ToSetTail, QueueTail DEF TurnStates
<1> HIDE DEF T
<1>4. {"reading", "emitting", "draining", "last", "failed"} \subseteq Ats \ {"new"}
  BY DEF Ats, Active, Finals, Settled
<1>5. a \in metered => \/ turn[a].usage = a
                       \/ turn[a].gen # gen \/ Displaced(a)
                       \/ \E u \in ToSet(prov.queue) : u.frame.kind = "usage"
  BY <1>1 DEF Stream, Metered
<1>6. CASE /\ turn[a].gen # gen /\ turn' = [turn EXCEPT ![a].at = "draining"]
           /\ Interrupts(turn[a].gen, a, T)
  <2>1. /\ PipeTidy' /\ ThinsOut /\ Cleared(a)' /\ QueueThins /\ prov'.finished = prov.finished
    <3>1. Interrupts(prov.gen, prov.att, T)
      BY <1>2, <1>6
    <3>2. QED
      BY <1>1, <1>2, <1>3, <3>1, Interrupting DEF QueueThins
  <2>2. Became(a, "draining", turn[a].words, turn[a].usage)
    BY <1>4, <1>6, TurnBecomes
  <2>3. Stream'
    BY <1>1, <1>2, <1>4, <1>6, <2>1, <2>2, TurnSteps DEF Active, Finals, Settled
  <2>4. QED
    BY <2>1, <2>3
<1>7. ASSUME UNCHANGED pipe, turn[a].gen = gen
      PROVE  PipeTidy' /\ ThinsOut /\ prov.gen = gen
  BY <1>1, <1>2, <1>7, NothingFlows
<1>8. CASE /\ turn[a].gen = gen /\ t.frame.kind = "text" /\ UNCHANGED pipe
           /\ prov' = [prov EXCEPT !.queue = Tail(@)]
           /\ \E at \in {"reading", "emitting"} :
                turn' = [turn EXCEPT ![a].at = at, ![a].words = @ \union {t.frame.of}]
  <2>1. PICK at \in {"reading", "emitting"} :
          turn' = [turn EXCEPT ![a].at = at, ![a].words = @ \union {t.frame.of}]
    BY <1>8
  <2>2. /\ QueueThins /\ prov'.queue = T /\ prov'.finished = prov.finished
        /\ t.frame.of \in Nat /\ (Words(t.frame) => Own(t.frame.of))
    BY <1>1, <1>8, QueueTaken DEF T
  <2>3. Became(a, at, turn[a].words \cup {t.frame.of}, turn[a].usage)
    BY <1>4, <2>1, <2>2, TurnBecomes
  <2>4. t.frame.of = a \/ Displaced(t.frame.of)
    BY <1>2, <1>8, <2>2 DEF Own, Words
  <2>5. PipeTidy' /\ ThinsOut /\ prov.gen = gen
    BY <1>7, <1>8
  <2>6. ~Displaced(a) /\ a \in metered =>
          turn[a].usage = a \/ \E u \in ToSet(prov'.queue) : u.frame.kind = "usage"
    BY <1>3, <1>5, <1>8, <2>2
  <2>7. /\ turn[a].at \in Active /\ at \in Ats \ {"new"} /\ at \in Active
        /\ at # "draining" /\ at \notin Finals
        /\ turn[a].at \in {"reading", "emitting"}
    BY <1>1, <1>4, <2>1 DEF Active, Finals, Settled
  <2>8. \A w \in turn[a].words \cup {t.frame.of} : w \in turn[a].words \/ w = a \/ Displaced(w)
    BY <2>4
  <2>9. /\ ~prov'.finished /\ stalled \subseteq stalled'
        /\ UNCHANGED <<life, gen, fence, stash, overtaken, metered>>
        /\ ~Displaced(a) /\ a \in metered =>
             turn[a].usage = a \/ \E u \in ToSet(prov'.queue) : u.frame.kind = "usage"
    BY <1>1, <1>2, <2>2, <2>6
  <2>10. Stream'
    BY <2>1, <2>2, <2>3, <2>5, <2>7, <2>8, <2>9, TurnSteps
  <2>11. QED
    BY <2>5, <2>10
<1>9. CASE /\ turn[a].gen = gen /\ t.frame.kind = "usage" /\ UNCHANGED pipe
           /\ prov' = [prov EXCEPT !.queue = Tail(@)]
           /\ turn' = [turn EXCEPT ![a].usage = t.frame.of]
  <2>1. /\ QueueThins /\ prov'.queue = T /\ prov'.finished = prov.finished
        /\ t.frame.of \in Nat /\ (Words(t.frame) => Own(t.frame.of))
    BY <1>1, <1>9, QueueTaken DEF T
  <2>2. Became(a, "reading", turn[a].words, t.frame.of)
    BY <1>1, <1>9, <2>1, TurnBecomes
  <2>3. Own(t.frame.of)
    BY <1>9, <2>1 DEF Words
  <2>4. /\ t.frame.of = a \/ Displaced(t.frame.of)
        /\ ~Displaced(a) => t.frame.of = a
    BY <1>2, <2>1, <2>3, OwnIsLive
  <2>5. PipeTidy' /\ ThinsOut /\ prov.gen = gen
    BY <1>7, <1>9
  <2>6. /\ turn[a].at \in Active /\ "reading" \in Ats \ {"new"} /\ "reading" \notin Finals
        /\ "reading" \in Active /\ turn[a].at \in {"reading", "emitting"}
    BY <1>1, <1>4 DEF Active, Finals, Settled
  <2>7. /\ ~prov'.finished /\ stalled \subseteq stalled'
        /\ UNCHANGED <<life, gen, fence, stash, overtaken, metered>>
        /\ ~Displaced(a) => t.frame.of = a
    BY <1>1, <1>2, <2>1, <2>4
  <2>8. Stream'
    BY <2>1, <2>2, <2>4, <2>5, <2>6, <2>7, TurnSteps
  <2>9. QED
    BY <2>5, <2>8
<1>10. CASE /\ turn[a].gen = gen /\ Terminal(t.frame) /\ UNCHANGED pipe
            /\ prov' = [prov EXCEPT !.queue = Tail(@), !.finished = TRUE]
            /\ \E at \in {"last", "failed"} : turn' = [turn EXCEPT ![a].at = at]
  <2>1. PICK at \in {"last", "failed"} : turn' = [turn EXCEPT ![a].at = at]
    BY <1>10
  <2>2. /\ QueueThins /\ prov'.queue = T /\ t.frame.of \in Nat
        /\ Own(t.frame.of) /\ ~Upstream(t.frame.of)
        /\ \A u \in ToSet(prov'.queue) : Words(u.frame) => u.frame.of # t.frame.of
    BY <1>1, <1>10, QueueTaken DEF T
  <2>3. Became(a, at, turn[a].words, turn[a].usage)
    BY <1>4, <2>1, TurnBecomes
  <2>4. PipeTidy' /\ ThinsOut /\ prov.gen = gen
    BY <1>7, <1>10
  <2>5. Displaced(a)' \/ Spent(a)'
    <3>1. t.frame.of = a \/ Displaced(a)
      BY <1>2, <2>2, OwnIsLive
    <3>2. Displaced(a) => Displaced(a)'
      BY <1>1 DEF Displaced
    <3>3. ~Upstream(a) => ~Upstream(a)'
      BY <2>4, TurnsAreNumbers DEF ThinsOut
    <3>4. QED
      BY <2>2, <3>1, <3>2, <3>3 DEF Spent
  <2>6. ~Displaced(a) /\ a \in metered => turn[a].usage = a
    <3>1. SUFFICES ASSUME ~Displaced(a), NEW u \in ToSet(prov.queue), u.frame.kind = "usage"
                   PROVE  FALSE
      BY <1>5, <1>10
    <3>2. u.frame.of \in Nat /\ Own(u.frame.of) /\ Words(u.frame)
      <4>1. u \in Tags
        BY DEF Typed, ToSet
      <4>2. QED
        BY <3>1, <4>1 DEF Words, Stream, QueueTidy, Tags, Frames
    <3>3. u.frame.of = a /\ t.frame.of = a
      BY <1>2, <2>2, <3>1, <3>2, OwnIsLive
    <3>4. u \in ToSet(prov'.queue)
      BY <1>3, <1>10, <2>2, <3>1 DEF Terminal
    <3>5. QED
      BY <2>2, <3>2, <3>3, <3>4
  <2>7. Stream'
    BY <1>1, <1>2, <1>4, <1>10, <2>2, <2>3, <2>4, <2>5, <2>6, TurnSteps DEF Active, Finals, Settled
  <2>8. QED
    BY <2>4, <2>7
<1>11. QED
  BY <1>2, <1>3, <1>6, <1>8, <1>9, <1>10, ReadCases, ZenonT(40) DEF T

LEMMA EmitStep ==
  ASSUME Typed, PipeTidy, Stream, NEW a \in Turns, EmitReturns(a)
  PROVE  PipeTidy' /\ Stream'
<1>1. /\ turn[a].at = "emitting"
      /\ UNCHANGED <<life, gen, fence, stash, svc, stalled, overtaken, metered>>
  BY DEF EmitReturns
<1>2. /\ a = prov.att /\ prov.att # 0 /\ turn[a].gen = prov.gen /\ ~prov.finished
  BY <1>1, ActiveTurn DEF Active
<1>3. prov.queue \in Seq(Tags) /\ QueueOrdered(prov.queue)
  BY DEF Typed, Stream, QueueTidy
<1>4. {"reading", "draining"} \subseteq Ats \ {"new"}
  BY DEF Ats, Active
<1>5. ~Displaced(a) /\ a \in metered => \/ turn[a].usage = a
                                       \/ turn[a].gen # gen
                                       \/ \E u \in ToSet(prov.queue) : u.frame.kind = "usage"
  BY <1>1 DEF Stream, Metered
<1>6. CASE turn' = [turn EXCEPT ![a].at = "reading"] /\ UNCHANGED <<prov, pipe>>
  <2>1. PipeTidy' /\ ThinsOut
    BY <1>1, <1>6, NothingFlows
  <2>2. QueueThins /\ prov'.queue = prov.queue /\ prov'.finished = prov.finished
    BY <1>3, <1>6 DEF QueueThins
  <2>3. Became(a, "reading", turn[a].words, turn[a].usage)
    BY <1>4, <1>6, TurnBecomes
  <2>4. Stream'
    BY <1>1, <1>2, <1>4, <1>5, <2>1, <2>2, <2>3, TurnSteps DEF Active, Finals, Settled
  <2>5. QED
    BY <2>1, <2>4
<1>7. CASE /\ turn' = [turn EXCEPT ![a].at = "draining"]
           /\ Interrupts(turn[a].gen, a, prov.queue)
  <2>1. /\ PipeTidy' /\ ThinsOut /\ Cleared(a)' /\ QueueThins /\ prov'.finished = prov.finished
        /\ ToSet(prov.queue) \subseteq ToSet(prov'.queue)
    <3>1. Interrupts(prov.gen, prov.att, prov.queue)
      BY <1>2, <1>7
    <3>2. QED
      BY <1>1, <1>2, <1>3, <3>1, Interrupting DEF QueueThins
  <2>2. Became(a, "draining", turn[a].words, turn[a].usage)
    BY <1>4, <1>7, TurnBecomes
  <2>3. ~Displaced(a) /\ a \in metered => \/ turn[a].usage = a
                                         \/ turn[a].gen # gen
                                         \/ \E u \in ToSet(prov'.queue) : u.frame.kind = "usage"
    BY <1>5, <2>1
  <2>4. Stream'
    BY <1>1, <1>2, <1>4, <2>1, <2>2, <2>3, TurnSteps DEF Active, Finals, Settled
  <2>5. QED
    BY <2>1, <2>4
<1>8. QED
  BY <1>6, <1>7 DEF EmitReturns

LEMMA DrainStep ==
  ASSUME Typed, PipeTidy, Stream, NEW a \in Turns, DrainTakes(a)
  PROVE  PipeTidy' /\ Stream'
<1> DEFINE t == Head(prov.queue)
           u == IF t.frame.kind = "usage" THEN t.frame.of ELSE turn[a].usage
<1>1. /\ turn[a].at = "draining" /\ prov.queue # <<>> /\ prov' = [prov EXCEPT !.queue = Tail(@)]
      /\ UNCHANGED <<life, gen, fence, stash, pipe, svc, stalled, overtaken, metered>>
  BY DEF DrainTakes
<1>2. /\ a = prov.att /\ prov.att # 0 /\ turn[a].gen = prov.gen /\ ~prov.finished
      /\ \A f \in ToSet(prov.queue) : Belongs(f, a)
  BY <1>1, ActiveTurn DEF Active
<1>3. /\ QueueThins /\ prov'.finished = prov.finished
      /\ t \in ToSet(prov.queue) /\ t.frame.of \in Nat /\ (Words(t.frame) => Own(t.frame.of))
      /\ \A f \in ToSet(prov.queue) : f = t \/ f \in ToSet(prov'.queue)
  BY <1>1, QueueTaken
<1>4. "draining" \in Ats \ {"new"}
  BY DEF Ats, Active
<1>5. Became(a, "draining", turn[a].words, u)
  <2>1. turn' = IF t.frame.kind = "usage" THEN [turn EXCEPT ![a].usage = t.frame.of] ELSE turn
    BY <1>2, <1>3 DEF DrainTakes
  <2>2. CASE t.frame.kind = "usage"
    BY <1>1, <1>3, <2>1, <2>2, TurnBecomes
  <2>3. CASE t.frame.kind # "usage"
    BY <1>1, <2>1, <2>3 DEF Became
  <2>4. QED
    BY <2>2, <2>3
<1>6. /\ u = turn[a].usage \/ u = a \/ (u \in Nat /\ Displaced(u))
      /\ t.frame.kind = "usage" /\ ~Displaced(a) => u = a
  BY <1>2, <1>3, OwnIsLive DEF Words
<1>7. ~Displaced(a) /\ a \in metered => \/ u = a
                                       \/ turn[a].gen # gen
                                       \/ \E f \in ToSet(prov'.queue) : f.frame.kind = "usage"
  BY <1>1, <1>3, <1>6 DEF Stream, Metered
<1> HIDE DEF u
<1>8. PipeTidy' /\ ThinsOut
  BY <1>1, NothingFlows
<1>9. Cleared(a)'
  BY <1>1, <1>8 DEF Stream, OverIsSpent, ThinsOut
<1>10. Stream'
  BY <1>1, <1>2, <1>3, <1>4, <1>5, <1>6, <1>7, <1>8, <1>9, TurnSteps DEF Active, Finals, Settled
<1>11. QED
  BY <1>8, <1>10

\* Once every interruption has passed, nothing of what they covered is upstream.
LEMMA QuietIsGone ==
  ASSUME Quiet, NEW w, Cleared(w)
  PROVE  ~Upstream(w)
BY DEF Quiet, Cleared, CoveredIn

\* Where every frame queued is the attempt's, none of it means none.
LEMMA NoneQueued ==
  ASSUME Typed, NEW a, \A u \in ToSet(prov.queue) : Belongs(u, a), ~Queued(a)
  PROVE  prov.queue = <<>>
<1>1. prov.queue \in Seq(Tags)
  BY DEF Typed
<1>2. \A i \in DOMAIN prov.queue : prov.queue[i] \in ToSet(prov.queue)
  BY DEF ToSet
<1>3. DOMAIN prov.queue = {}
  BY <1>2 DEF Queued
<1>4. prov.queue # <<>> => 1 \in DOMAIN prov.queue
  BY <1>1
<1>5. QED
  BY <1>3, <1>4

LEMMA DrainEndStep ==
  ASSUME Typed, PipeTidy, Stream, NEW a \in Turns, DrainEnds(a)
  PROVE  PipeTidy' /\ Stream'
<1> DEFINE x == IF turn[a].gen = gen THEN "completed" ELSE "cancelled"
<1>0. /\ turn[a].at = "draining" /\ Quiet /\ prov' = [prov EXCEPT !.finished = TRUE]
      /\ turn' = [turn EXCEPT ![a].at = x] /\ ~Queued(a)
      /\ UNCHANGED <<life, gen, fence, stash, pipe, svc, stalled, overtaken, metered>>
  BY DEF DrainEnds, Drained
<1>1. prov.queue = <<>> /\ turn[a].at = "draining" /\ Quiet /\ prov' = [prov EXCEPT !.finished = TRUE]
      /\ turn' = [turn EXCEPT ![a].at = x]
      /\ UNCHANGED <<life, gen, fence, stash, pipe, svc, stalled, overtaken, metered>>
  BY <1>0, ActiveTurn, NoneQueued DEF Active
<1>2. /\ a = prov.att /\ prov.att # 0 /\ turn[a].gen = prov.gen
  BY <1>1, ActiveTurn DEF Active
<1>3. /\ x \in Ats \ {"new"} /\ x \in Finals
      /\ turn[a].gen # gen => x = "cancelled"
  BY DEF Ats, Finals, Settled
<1> HIDE DEF x
<1>4. prov'.att = prov.att /\ prov'.gen = prov.gen /\ prov'.queue = <<>>
  BY <1>1 DEF Typed
<1>5. ToSet(prov'.queue) = {} /\ ToSet(prov.queue) = {}
  BY <1>1, <1>4 DEF ToSet
<1>6. QueueThins
  BY <1>4, <1>5 DEF QueueThins, QueueOrdered
<1>7. Became(a, x, turn[a].words, turn[a].usage)
  BY <1>1, <1>3, TurnBecomes
<1>8. PipeTidy' /\ ThinsOut
  BY <1>1, NothingFlows
<1>9. Spent(a)'
  <2>1. ~Upstream(a)
    BY <1>1, QuietIsGone DEF Stream, OverIsSpent
  <2>2. ~Upstream(a)'
    BY <1>8, <2>1, TurnsAreNumbers DEF ThinsOut
  <2>3. QED
    BY <1>5, <2>2 DEF Spent
<1>10. ~Displaced(a) /\ a \in metered => turn[a].usage = a \/ x = "cancelled"
  BY <1>1, <1>3, <1>5 DEF Stream, Metered
<1>11. Stream'
  BY <1>1, <1>2, <1>3, <1>6, <1>7, <1>8, <1>9, <1>10, TurnSteps DEF Active, Finals, Settled
<1>12. QED
  BY <1>8, <1>11

LEMMA StallStep ==
  ASSUME Typed, PipeTidy, Stream, NEW a \in Turns, Stall(a)
  PROVE  PipeTidy' /\ Stream'
<1>1. /\ turn[a].at = "reading" /\ prov.queue = <<>>
      /\ UNCHANGED <<life, gen, fence, stash, svc, overtaken, metered>>
  BY DEF Stall
<1>2. /\ a = prov.att /\ prov.att # 0 /\ turn[a].gen = prov.gen /\ ~prov.finished
  BY <1>1, ActiveTurn DEF Active
<1>3. /\ {"failed", "draining"} \subseteq Ats \ {"new"} /\ "failed" \in Finals /\ "failed" \notin Active
      /\ "draining" \in Active /\ "draining" \notin Finals
  BY DEF Ats, Finals, Settled, Active
<1>4. CASE /\ turn' = [turn EXCEPT ![a].at = "failed"]
           /\ prov' = [prov EXCEPT !.finished = TRUE] /\ UNCHANGED pipe
           /\ stalled' = stalled \union {a}
  <2>1. prov'.att = prov.att /\ prov'.gen = prov.gen /\ prov'.queue = <<>>
    BY <1>1, <1>4 DEF Typed
  <2>2. ToSet(prov'.queue) = {}
    BY <2>1 DEF ToSet
  <2>3. QueueThins
    BY <2>1, <2>2 DEF QueueThins, QueueOrdered
  <2>4. Became(a, "failed", turn[a].words, turn[a].usage)
    BY <1>3, <1>4, TurnBecomes
  <2>5. PipeTidy' /\ ThinsOut
    BY <1>1, <1>4, NothingFlows
  <2>6. Displaced(a)' /\ stalled \subseteq stalled'
    <3>1. a <= a /\ a \in stalled' /\ stalled \subseteq stalled'
      BY <1>4, TurnsAreNumbers
    <3>2. QED
      BY <3>1 DEF Displaced
  <2>7. Stream'
    BY <1>1, <1>2, <1>3, <2>3, <2>4, <2>5, <2>6, TurnSteps DEF Active
  <2>8. QED
    BY <2>5, <2>7
<1>5. CASE /\ turn[a].gen # gen /\ turn' = [turn EXCEPT ![a].at = "draining"]
           /\ Interrupts(turn[a].gen, a, <<>>) /\ UNCHANGED stalled
  <2>1. /\ PipeTidy' /\ ThinsOut /\ Cleared(a)' /\ QueueThins /\ prov'.finished = prov.finished
    <3>1. Interrupts(prov.gen, prov.att, <<>>)
      BY <1>2, <1>5
    <3>2. <<>> \in Seq(Tags) /\ QueueOrdered(<<>>) /\ ToSet(<<>>) = {}
      BY DEF QueueOrdered, ToSet
    <3>3. QED
      BY <1>1, <1>2, <3>1, <3>2, Interrupting DEF QueueThins
  <2>2. Became(a, "draining", turn[a].words, turn[a].usage)
    BY <1>3, <1>5, TurnBecomes
  <2>3. Stream'
    BY <1>1, <1>2, <1>3, <1>5, <2>1, <2>2, TurnSteps DEF Active
  <2>4. QED
    BY <2>1, <2>3
<1>6. QED
  BY <1>4, <1>5 DEF Stall

LEMMA LastEmitStep ==
  ASSUME Typed, PipeTidy, Stream, NEW a \in Turns, LastEmit(a)
  PROVE  PipeTidy' /\ Stream'
<1>1. /\ turn[a].at = "last" /\ turn' = [turn EXCEPT ![a].at = "completed"]
      /\ UNCHANGED <<life, gen, fence, prov, stash, pipe, svc, stalled, overtaken, metered>>
  BY DEF LastEmit
<1>2. PipeTidy' /\ ThinsOut
  BY <1>1, NothingFlows
<1>3. Became(a, "completed", turn[a].words, turn[a].usage)
  BY <1>1, TurnBecomes DEF Ats, Finals, Settled
<1>4. /\ turn'[a].at = "completed" /\ turn'[a].gen = turn[a].gen /\ turn'[a].words = turn[a].words
      /\ turn'[a].usage = turn[a].usage /\ \A b \in Turns \ {a} : turn'[b] = turn[b]
  BY <1>3 DEF Became
<1>5. QueueThins
  BY <1>1 DEF QueueThins, Stream, QueueTidy
<1>6. /\ OwnStream' /\ QueueTidy'
      /\ \A w \in Nat : Displaced(w) => Displaced(w)'
      /\ \A w \in Turns : Spent(w) => Spent(w)'
  BY <1>1, <1>2, <1>5, QueueKept
<1>7. /\ TurnsMayRun' <=> TurnsMayRun
      /\ prov.att # 0 => prov.att \in Turns /\ prov.att \in Nat
  BY <1>1, TurnsAreNumbers DEF TurnsMayRun, Typed
<1>8. \A b \in Turns : /\ turn'[b].at = turn[b].at \/ (turn[b].at = "last" /\ turn'[b].at = "completed")
                       /\ turn'[b].gen = turn[b].gen /\ turn'[b].words = turn[b].words
                       /\ turn'[b].usage = turn[b].usage
  BY <1>1, <1>4
<1>9. OneByOne'
  BY <1>1, <1>7, <1>8 DEF Stream, OneByOne, Active, Settled
<1>10. OverIsSpent'
  <2>1. \A b \in Turns : turn'[b].at = "draining" => Cleared(b)'
    BY <1>2, <1>8 DEF Stream, OverIsSpent, ThinsOut
  <2>2. \A b \in Turns : turn'[b].at \in Finals <=> turn[b].at \in Finals
    BY <1>8 DEF Finals, Settled
  <2>3. QED
    BY <1>1, <1>6, <1>7, <2>1, <2>2 DEF Stream, OverIsSpent
<1>11. Fencing'
  <2>1. Passed' <=> Passed
    BY <1>1 DEF Passed
  <2>2. prov.att # 0 => (Upstream(prov.att)' => Upstream(prov.att)) /\ (Cleared(prov.att) => Cleared(prov.att)')
    BY <1>1, <1>2, <1>7 DEF ThinsOut
  <2>3. QED
    BY <1>1, <1>7, <1>8, <2>1, <2>2 DEF Stream, Fencing
<1>12. Heard'
  BY <1>1, <1>8 DEF Stream, Heard, Displaced
<1>13. Metered'
  <2>1. \A b \in metered : b \in Turns
    BY DEF Typed
  <2>2. \A w : Displaced(w)' <=> Displaced(w)
    BY <1>1 DEF Displaced
  <2>3. \A b \in Turns : turn'[b].at = turn[b].at \/ turn[b].at \notin Active \cup {"cancelled"}
    BY <1>8 DEF Active
  <2>4. QED
    BY <1>1, <1>8, <2>1, <2>2, <2>3 DEF Stream, Metered
<1>14. QED
  BY <1>2, <1>6, <1>9, <1>10, <1>11, <1>12, <1>13 DEF Stream

\* The turn that begins is the first that has not.
LEMMA InLine ==
  ASSUME Typed, Stream, NEW a \in Turns, Begin(a)
  PROVE  /\ prov.att < a
         /\ \A b \in Turns : b # a => (turn[b].at = "new" <=> b > a)
         /\ \A w \in Turns : Upstream(w) => w < a
<1>1. /\ turn[a].at = "new"
      /\ \A b \in Turns : b < a => turn[b].at # "new"
  BY DEF Begin
<1>2. \A b \in Turns : turn[b].at = "new" <=> b > prov.att
  BY DEF Stream, OneByOne
<1>3. /\ prov.att \in {0} \cup Turns /\ prov.att \in Nat /\ a \in Nat
      /\ \A b \in Turns : b \in Nat
  <2>1. prov.att \in {0} \cup Turns
    BY DEF Typed
  <2>2. \A b \in Turns : b \in Nat
    BY TurnsAreNumbers
  <2>3. QED
    BY <2>1, <2>2
<1>4. prov.att < a
  BY <1>1, <1>2, <1>3
<1>5. \A b \in Turns : b # a => (turn[b].at = "new" <=> b > a)
  <2>1. ASSUME NEW b \in Turns, b # a
        PROVE  turn[b].at = "new" <=> b > a
    <3>1. b \in Nat /\ (b < a \/ b > a)
      BY <1>3, <2>1
    <3>2. CASE b < a
      BY <1>1, <1>3, <3>1, <3>2
    <3>3. CASE b > a
      <4>1. b > prov.att
        BY <1>3, <1>4, <3>1, <3>3
      <4>2. QED
        BY <1>2, <3>3, <4>1
    <3>4. QED
      BY <3>1, <3>2, <3>3
  <2>2. QED
    BY <2>1
<1>6. ASSUME NEW w \in Turns, Upstream(w)
      PROVE  w < a
  <2>1. w <= prov.att
    BY <1>6 DEF Stream, OwnStream, Own
  <2>2. QED
    BY <1>3, <1>4, <2>1
<1>7. QED
  BY <1>4, <1>5, <1>6

\* Where a turn begins and overtakes none, what is upstream is a displaced stream.
LEMMA Vacant ==
  ASSUME Typed, Stream, NEW a \in Turns, Begin(a), ~Unvacated
  PROVE  /\ \A b \in Turns : turn[b].at \notin Active
         /\ \A w \in Turns : Upstream(w) => Displaced(w)
<1>1. TurnsMayRun /\ \A b \in Turns : turn[b].at \notin Active
  BY DEF Begin, Unvacated, Active
<1>2. \A b \in Turns : turn[b].at = "new" <=> b > prov.att
  BY DEF Stream, OneByOne
<1>3. ASSUME prov.att # 0, Upstream(prov.att)
      PROVE  Displaced(prov.att)
  <2>1. prov.att \in Turns /\ prov.att \in Nat /\ turn[prov.att].at \in Ats
    <3>1. prov.att \in Turns /\ turn \in [Turns -> TurnStates]
      BY <1>3 DEF Typed
    <3>2. turn[prov.att] \in TurnStates
      BY <3>1
    <3>3. QED
      BY <3>1, <3>2, TurnsAreNumbers DEF TurnStates
  <2>2. turn[prov.att].at # "new"
    BY <1>2, <2>1
  <2>3. turn[prov.att].at \in Finals
    BY <1>1, <2>1, <2>2 DEF Ats
  <2>4. QED
    BY <1>1, <1>3, <2>3 DEF Stream, OverIsSpent, Spent
<1>4. ASSUME NEW w \in Turns, Upstream(w)
      PROVE  Displaced(w)
  <2>1. w <= prov.att /\ (w = prov.att \/ Displaced(w))
    BY <1>4 DEF Stream, OwnStream, Own
  <2>2. w # 0
    BY TurnsAreNumbers
  <2>3. QED
    BY <1>3, <1>4, <2>1, <2>2
<1>5. QED
  BY <1>1, <1>4

LEMMA BeginStep ==
  ASSUME Typed, PipeTidy, Stream, NEW a \in Turns, Begin(a), ~Unvacated
  PROVE  PipeTidy' /\ Stream'
<1>1. /\ turn[a].at = "new" /\ fence.at \notin {"waiting", "draining"} /\ TurnsMayRun
      /\ turn' = [turn EXCEPT ![a].at = "reading", ![a].gen = gen]
      /\ prov' = [att |-> a, gen |-> gen, queue |-> <<>>, finished |-> FALSE]
      /\ pipe' = [pipe EXCEPT !.in = Append(@, Context(a))]
      /\ UNCHANGED <<life, gen, fence, stash, svc, stalled, overtaken, metered>>
  BY DEF Begin, LiveAttempt, Unvacated
<1>2. /\ prov.att < a
      /\ \A b \in Turns : b # a => (turn[b].at = "new" <=> b > a)
      /\ \A b \in Turns : turn[b].at \notin Active
      /\ \A w \in Turns : Upstream(w) => w < a /\ Displaced(w)
  BY InLine, Vacant
<1>3. /\ \A b \in Turns : b \in Nat /\ b # 0
      /\ gen \in Nat /\ pipe \in Lines /\ pipe.in \in Seq(Asks) /\ turn \in [Turns -> TurnStates]
  BY TurnsAreNumbers, TypedParts DEF Typed, Lines
<1>4. ~Upstream(a) /\ ~AskedIn(pipe.in, a) /\ ~Served(a) /\ ~Saying(a)
  BY <1>2, <1>3 DEF Upstream
<1>5. /\ turn'[a].at = "reading" /\ turn'[a].gen = gen /\ turn'[a].words = turn[a].words
      /\ turn'[a].usage = turn[a].usage /\ \A b \in Turns \ {a} : turn'[b] = turn[b]
  <2>1. turn' = [turn EXCEPT ![a] = [turn[a] EXCEPT !.at = "reading", !.gen = gen]]
    BY <1>1
  <2>2. turn'[a] = [turn[a] EXCEPT !.at = "reading", !.gen = gen] /\ \A b \in Turns \ {a} : turn'[b] = turn[b]
    BY <1>3, <2>1
  <2>3. turn[a] \in TurnStates
    BY <1>3
  <2>4. QED
    BY <2>2, <2>3 DEF TurnStates
<1>6. pipe'.in = Append(pipe.in, Context(a)) /\ pipe'.out = pipe.out
  BY <1>1, <1>3 DEF Lines
<1>7. /\ OnceAsked(pipe'.in)
      /\ \A w \in Turns : AskedIn(pipe'.in, w) => AskedIn(pipe.in, w) \/ w = a
  BY <1>3, <1>4, <1>6, ContextAppended DEF PipeTidy
<1>8. \A w : (Served(w)' <=> Served(w)) /\ (Saying(w)' <=> Saying(w))
  BY <1>1, <1>6 DEF Served, Saying
<1>9. PipeTidy'
  BY <1>4, <1>6, <1>7, <1>8 DEF PipeTidy
<1>10. \A w \in Turns : Upstream(w)' => Upstream(w) \/ w = a
  BY <1>7, <1>8 DEF Upstream
<1>11. \A w : Displaced(w)' <=> Displaced(w)
  BY <1>1 DEF Displaced
<1>12. prov'.att = a /\ prov'.gen = gen /\ prov'.queue = <<>> /\ prov'.finished = FALSE /\ ToSet(prov'.queue) = {}
  BY <1>1 DEF ToSet
<1>13. OwnStream'
  <2>1. ASSUME NEW w \in Turns, Upstream(w)'
        PROVE  w <= a /\ (w = a \/ Displaced(w)')
    <3>1. Upstream(w) \/ w = a
      BY <1>10, <2>1
    <3>2. QED
      BY <1>2, <1>3, <1>11, <3>1
  <2>2. QED
    BY <1>12, <2>1 DEF OwnStream, Own
<1>14. QueueTidy'
  BY <1>12 DEF QueueTidy, QueueOrdered
<1>15. OneByOne'
  <2>1. ASSUME NEW b \in Turns
        PROVE  /\ turn'[b].at = "new" <=> b > a
               /\ turn'[b].at \in Active => b = a
               /\ turn'[b].gen <= gen
    <3>1. CASE b = a
      BY <1>3, <1>5, <3>1
    <3>2. CASE b # a
      BY <1>2, <1>5, <3>2 DEF Stream, OneByOne
    <3>3. QED
      BY <3>1, <3>2
  <2>2. TurnsMayRun' /\ life.at # "loading"
    BY <1>1 DEF TurnsMayRun
  <2>3. QED
    BY <1>1, <1>5, <1>12, <2>1, <2>2 DEF OneByOne
<1>16. OverIsSpent'
  <2>1. turn'[a].at \notin Finals
    BY <1>5 DEF Finals, Settled
  <2>2. \A b \in Turns : turn'[b].at # "draining"
    BY <1>2, <1>5 DEF Active
  <2>3. QED
    BY <1>12, <2>1, <2>2 DEF OverIsSpent
<1>17. Fencing'
  <2>1. fence.at = "stages" => fence.prev < gen /\ fence.usage = 0
    BY DEF Stream, Fencing
  <2>2. ~Passed'
    BY <1>1, <1>12 DEF Passed
  <2>3. QED
    BY <1>1, <2>1, <2>2 DEF Fencing
<1>18. Heard'
  BY <1>1, <1>5 DEF Stream, Heard, Displaced
<1>19. Metered'
  <2>1. ASSUME NEW b \in metered, ~Displaced(b)
        PROVE  turn'[b].usage = b \/ turn'[b].at = "cancelled"
    <3>1. b \in Turns /\ turn[b].at \notin Active
      BY <1>2, <2>1 DEF Typed
    <3>2. turn[b].usage = b \/ turn[b].at = "cancelled"
      BY <2>1, <3>1 DEF Stream, Metered
    <3>3. QED
      BY <1>1, <1>5, <3>1, <3>2
  <2>2. QED
    BY <1>1, <1>11, <2>1 DEF Stream, Metered
<1>20. QED
  BY <1>9, <1>13, <1>14, <1>15, <1>16, <1>17, <1>18, <1>19 DEF Stream

(* The coordinator's fence, the hook and the collector.                    *)

\* A fence moves only the generation, so what it leaves behind has passed already or
\* is the hook's to interrupt.
LEMMA FenceStep ==
  ASSUME Typed, PipeTidy, Stream, FenceMoves \/ CloseBegins, life = [at |-> life.at, left |-> life.left]
  PROVE  PipeTidy' /\ Stream'
<1>1. /\ fence = NoFence /\ gen' = gen + 1 /\ life.at = "up"
      /\ fence' = [NoFence EXCEPT !.at = "stages", !.prev = gen]
      /\ life' = life \/ life' = [life EXCEPT !.at = "fencing"]
      /\ UNCHANGED <<turn, prov, stash, pipe, svc, stalled, overtaken, metered>>
  BY DEF FenceMoves, CloseBegins
<1>2. gen \in Nat /\ fence.at = "idle"
  BY <1>1 DEF Typed, NoFence
<1>3. fence'.at = "stages" /\ fence'.prev = gen /\ fence'.usage = 0 /\ gen' \in Nat /\ gen < gen'
  BY <1>1, <1>2 DEF NoFence
<1>4. PipeTidy' /\ ThinsOut
  BY <1>1, NothingFlows
<1>5. QueueThins
  BY <1>1 DEF QueueThins, Stream, QueueTidy
<1>6. /\ OwnStream' /\ QueueTidy' /\ \A w \in Turns : Spent(w) => Spent(w)'
  BY <1>1, <1>4, <1>5, QueueKept
<1>7. \A w : Displaced(w)' <=> Displaced(w)
  BY <1>1 DEF Displaced
<1>8. TurnsMayRun
  BY <1>1 DEF TurnsMayRun
<1>9. /\ prov.att # 0 => prov.att \in Turns /\ prov.att \in Nat
      /\ \A b \in Turns : turn[b].gen \in Nat /\ turn[b].gen <= gen
  <2>1. prov.att \in {0} \cup Turns /\ \A b \in Turns : turn[b] \in TurnStates
    BY DEF Typed
  <2>2. QED
    BY <2>1, TurnsAreNumbers DEF TurnStates, Stream, OneByOne
<1>10. OneByOne'
  <2>1. \A b \in Turns : turn[b].gen <= gen'
    BY <1>2, <1>3, <1>9
  <2>2. TurnsMayRun' /\ life'.at # "loading"
    <3>1. life'.at \in {"up", "fencing"}
      BY <1>1
    <3>2. QED
      BY <3>1 DEF TurnsMayRun
  <2>3. QED
    BY <1>1, <2>1, <2>2 DEF Stream, OneByOne
<1>11. OverIsSpent'
  <2>1. prov.att # 0 => (Displaced(prov.att) => Displaced(prov.att)') /\ (Spent(prov.att) => Spent(prov.att)')
    BY <1>1, <1>6, <1>7, <1>9
  <2>2. QED
    BY <1>1, <1>4, <1>8, <2>1 DEF Stream, OverIsSpent, ThinsOut
<1>12. Fencing'
  <2>1. Passed' => Passed
    BY <1>1, <1>2, <1>3 DEF Passed
  <2>2. prov.att # 0 => (Upstream(prov.att)' => Upstream(prov.att))
    BY <1>1, <1>4, <1>9 DEF ThinsOut
  <2>3. QED
    BY <1>1, <1>3, <1>8, <2>1, <2>2 DEF Stream, Fencing
<1>13. Heard'
  BY <1>1 DEF Stream, Heard, Displaced
<1>14. Metered'
  <2>1. ASSUME NEW b \in metered, ~Displaced(b)
        PROVE  turn[b].usage = b \/ turn[b].at = "cancelled" \/ (turn[b].at \in Active /\ turn[b].gen # gen')
    <3>1. b \in Turns /\ turn[b].gen # gen'
      BY <1>2, <1>3, <1>9 DEF Typed
    <3>2. QED
      BY <2>1, <3>1 DEF Stream, Metered
  <2>2. QED
    BY <1>1, <1>3, <1>7, <2>1 DEF Stream, Metered
<1>15. QED
  BY <1>4, <1>6, <1>10, <1>11, <1>12, <1>13, <1>14 DEF Stream

\* A step of the hook leaves the turns alone.
LEMMA HookMoves ==
  ASSUME Typed, Stream, ThinsOut, QueueThins, UNCHANGED <<life, gen, turn, stalled, overtaken, metered>>,
         fence.at # "idle", prov'.finished = prov.finished, Fencing',
         (\E b \in Turns : turn[b].at \in Active) =>
           \A t \in ToSet(prov.queue) : t.frame.kind = "usage" => t \in ToSet(prov'.queue),
         \A b \in Turns : stash'[b] # 0 => Displaced(b),
         fence'.usage # 0 => \E c \in stalled \cup overtaken : c <= fence'.att
  PROVE  Stream'
<1>1. TurnsMayRun /\ TurnsMayRun'
  BY DEF Stream, OneByOne, TurnsMayRun
<1>2. /\ OwnStream' /\ QueueTidy' /\ \A w \in Turns : Spent(w) => Spent(w)'
  BY QueueKept
<1>3. \A w : Displaced(w)' <=> Displaced(w)
  BY DEF Displaced
<1>4. prov.att # 0 => prov.att \in Turns /\ prov.att \in Nat
  BY TurnsAreNumbers DEF Typed
<1>5. prov'.att = prov.att /\ prov'.gen = prov.gen
  BY DEF QueueThins
<1>6. OneByOne'
  BY <1>1, <1>5 DEF Stream, OneByOne
<1>7. OverIsSpent'
  <2>1. prov.att # 0 => (Displaced(prov.att) => Displaced(prov.att)') /\ (Spent(prov.att) => Spent(prov.att)')
    BY <1>2, <1>3, <1>4, <1>5
  <2>2. QED
    BY <1>1, <1>5, <2>1 DEF Stream, OverIsSpent, ThinsOut
<1>8. Heard'
  BY DEF Stream, Heard, Displaced
<1>9. Metered'
  <2>1. ASSUME NEW b \in metered, ~Displaced(b)
        PROVE  \/ turn[b].usage = b
               \/ turn[b].at = "cancelled"
               \/ /\ turn[b].at \in Active
                  /\ (turn[b].gen # gen \/ \E t \in ToSet(prov'.queue) : t.frame.kind = "usage")
    <3>1. b \in Turns
      BY <2>1 DEF Typed
    <3>2. QED
      BY <2>1, <3>1 DEF Stream, Metered
  <2>2. QED
    BY <2>1 DEF Metered, Displaced
<1>10. QED
  BY <1>2, <1>6, <1>7, <1>8, <1>9 DEF Stream

LEMMA HookStartStep ==
  ASSUME Typed, PipeTidy, Stream, HookStarts
  PROVE  PipeTidy' /\ Stream'
<1>1. /\ fence.at = "stages"
      /\ UNCHANGED <<life, gen, turn, stash, svc, stalled, overtaken, metered>>
  BY DEF HookStarts
<1>2. /\ fence.prev < gen /\ fence.usage = 0
      /\ fence \in [at : {"idle", "stages", "waiting", "draining"}, prev : Nat, att : Nat, usage : Nat]
      /\ gen \in Nat /\ TurnsMayRun /\ TurnsMayRun'
  BY <1>1 DEF Stream, Fencing, Typed, OneByOne, TurnsMayRun
<1>3. \A b \in Turns : stash'[b] # 0 => Displaced(b)
  BY <1>1 DEF Stream, Metered
<1>4. CASE /\ prov.att = 0 \/ prov.gen # fence.prev
           /\ fence' = NoFence /\ UNCHANGED <<pipe, prov>>
  <2>1. PipeTidy' /\ ThinsOut
    BY <1>1, <1>4, NothingFlows
  <2>2. QueueThins
    BY <1>4 DEF QueueThins, Stream, QueueTidy
  <2>3. fence'.at = "idle" /\ fence'.usage = 0
    BY <1>4 DEF NoFence
  <2>4. Fencing'
    <3>1. prov.att # 0 /\ prov.gen # gen =>
            ~Upstream(prov.att) /\ turn[prov.att].at \notin {"reading", "emitting"}
      BY <1>1, <1>2, <1>4 DEF Stream, Fencing, Passed
    <3>2. prov.att # 0 /\ prov.gen # gen => ~Upstream(prov.att)'
      <4>1. prov.att # 0 => prov.att \in Nat
        BY TurnsAreNumbers DEF Typed
      <4>2. QED
        BY <1>4, <2>1, <3>1, <4>1 DEF ThinsOut
    <3>3. QED
      BY <1>1, <1>4, <2>3, <3>1, <3>2 DEF Fencing, Passed
  <2>5. Stream'
    BY <1>1, <1>3, <1>4, <2>1, <2>2, <2>3, <2>4, HookMoves
  <2>6. QED
    BY <2>1, <2>5
<1>5. CASE /\ prov.att # 0 /\ prov.gen = fence.prev
           /\ Interrupts(prov.gen, prov.att, prov.queue)
           /\ fence' = [fence EXCEPT !.at = WaitsForStream, !.att = prov.att]
  <2>1. prov.att \in Turns /\ prov.queue \in Seq(Tags) /\ QueueOrdered(prov.queue)
    BY <1>5 DEF Typed, Stream, QueueTidy
  <2>2. /\ PipeTidy' /\ ThinsOut /\ \A w : Cleared(w)'
        /\ QueueThins /\ prov'.finished = prov.finished /\ prov'.att = prov.att /\ prov'.gen = prov.gen
        /\ prov'.queue # <<>> /\ ToSet(prov.queue) \subseteq ToSet(prov'.queue)
    BY <1>1, <1>5, <2>1, Interrupting DEF QueueThins
  <2>3. /\ fence'.at \in {"waiting", "draining"} /\ fence'.att = prov.att /\ fence'.usage = 0
        /\ fence'.at = "draining" => prov.finished
    BY <1>2, <1>5 DEF WaitsForStream
  <2>4. Fencing'
    <3>1. Cleared(prov.att)'
      BY <2>2
    <3>2. ~Passed'
      BY <2>3 DEF Passed
    <3>3. prov.gen # gen
      BY <1>2, <1>5
    <3>4. QED
      BY <1>1, <1>5, <2>2, <2>3, <3>1, <3>2, <3>3 DEF Fencing
  <2>5. Stream'
    BY <1>1, <1>3, <2>2, <2>3, <2>4, HookMoves
  <2>6. QED
    BY <2>2, <2>5
<1>6. QED
  BY <1>4, <1>5 DEF HookStarts

\* The hook gives up waiting only when nothing of the attempt is upstream any more.
LEMMA HookWaitStep ==
  ASSUME Typed, PipeTidy, Stream, HookWakes \/ HookTimesOut
  PROVE  PipeTidy' /\ Stream'
<1>1. /\ fence.at = "waiting"
      /\ UNCHANGED <<life, gen, turn, prov, stash, pipe, svc, stalled, overtaken, metered>>
  BY DEF HookWakes, HookTimesOut
<1>2. /\ fence \in [at : {"idle", "stages", "waiting", "draining"}, prev : Nat, att : Nat, usage : Nat]
      /\ TurnsMayRun
      /\ prov.att # 0 => prov.att \in Nat
  BY <1>1, TurnsAreNumbers DEF Stream, Typed, OneByOne
<1>3. PipeTidy' /\ ThinsOut
  BY <1>1, NothingFlows
<1>4. QueueThins
  BY <1>1 DEF QueueThins, Stream, QueueTidy
<1>5. prov.att # 0 => /\ fence.att = prov.att /\ prov.gen # gen /\ Cleared(prov.att) /\ Cleared(prov.att)'
                      /\ turn[prov.att].at \in {"reading", "emitting"} => prov.queue # <<>>
  <2>1. prov.att # 0 => prov.att \in Turns
    BY DEF Typed
  <2>2. prov.att # 0 => Cleared(prov.att)'
    BY <1>1, <1>2, <1>3, <2>1 DEF Stream, Fencing, ThinsOut
  <2>3. QED
    BY <1>1, <1>2, <2>2 DEF Stream, Fencing
<1>6. \A b \in Turns : stash'[b] # 0 => Displaced(b)
  BY <1>1 DEF Stream, Metered
<1>7. CASE HookWakes
  <2>1. /\ prov.finished /\ fence'.at = "draining" /\ fence'.att = fence.att /\ fence'.usage = fence.usage
    BY <1>2, <1>7 DEF HookWakes
  <2>2. fence'.usage # 0 => \E c \in stalled \cup overtaken : c <= fence'.att
    BY <2>1 DEF Stream, Metered, Displaced
  <2>3. Fencing'
    <3>1. prov'.att # 0
      BY <1>1 DEF Stream, Fencing
    <3>2. QED
      BY <1>1, <1>5, <2>1, <3>1 DEF Fencing, Passed
  <2>4. QED
    BY <1>1, <1>3, <1>4, <1>6, <2>2, <2>3, HookMoves
<1>8. CASE HookTimesOut
  <2>0. /\ Quiet /\ turn[fence.att].at # "emitting" /\ (turn[fence.att].at = "reading" => ~Queued(fence.att))
        /\ fence'.at = "idle" /\ fence'.usage = 0
    BY <1>8 DEF HookTimesOut, NoFence
  <2>1. prov.att # 0 /\ turn[prov.att].at = "reading" => prov.queue = <<>>
    <3>1. SUFFICES ASSUME prov.att # 0, turn[prov.att].at = "reading"
                   PROVE  prov.queue = <<>>
      OBVIOUS
    <3>2. prov.att \in Turns /\ ~Queued(prov.att)
      BY <1>5, <2>0, <3>1 DEF Typed
    <3>3. QED
      BY <3>1, <3>2, ActiveTurn, NoneQueued DEF Active
  <2>2. prov.att # 0 => ~Upstream(prov.att) /\ turn[prov.att].at \notin {"reading", "emitting"}
    BY <1>5, <2>0, <2>1, QuietIsGone
  <2>3. prov.att # 0 => ~Upstream(prov.att)'
    BY <1>1, <1>2, <1>3, <2>2 DEF ThinsOut
  <2>4. Fencing'
    BY <1>1, <2>0, <2>2, <2>3 DEF Fencing
  <2>5. QED
    BY <1>1, <1>3, <1>4, <1>6, <2>0, <2>4, HookMoves
<1>9. QED
  BY <1>7, <1>8

LEMMA HookDrainStep ==
  ASSUME Typed, PipeTidy, Stream, HookTakes \/ HookEnds
  PROVE  PipeTidy' /\ Stream'
<1>1. /\ fence.at = "draining"
      /\ UNCHANGED <<life, gen, turn, pipe, svc, stalled, overtaken, metered>>
  BY DEF HookTakes, HookEnds
<1>2. /\ fence \in [at : {"idle", "stages", "waiting", "draining"}, prev : Nat, att : Nat, usage : Nat]
      /\ TurnsMayRun
      /\ prov.att # 0 => prov.att \in Nat /\ prov.att \in Turns
  BY <1>1, TurnsAreNumbers DEF Stream, Typed, OneByOne
<1>3. PipeTidy' /\ ThinsOut
  BY <1>1, NothingFlows
<1>4. prov.att # 0 => /\ fence.att = prov.att /\ prov.gen # gen /\ Cleared(prov.att)
                      /\ prov.finished /\ turn[prov.att].at \in Finals
                      /\ Displaced(prov.att) \/ Spent(prov.att)
  <2>1. prov.att # 0 => fence.att = prov.att /\ prov.gen # gen /\ Cleared(prov.att) /\ prov.finished
    BY <1>1, <1>2 DEF Stream, Fencing
  <2>2. prov.att # 0 => turn[prov.att].at \in Finals /\ (Displaced(prov.att) \/ Spent(prov.att))
    BY <1>2, <2>1 DEF Stream, OverIsSpent
  <2>3. QED
    BY <2>1, <2>2
<1>5. \A b \in Turns : turn[b].at \notin Active
  <2>1. ASSUME NEW b \in Turns, turn[b].at \in Active
        PROVE  FALSE
    <3>1. b = prov.att /\ prov.att # 0
      BY <2>1, ActiveTurn
    <3>2. QED
      BY <1>4, <2>1, <3>1 DEF Finals, Settled, Active
  <2>2. QED
    BY <2>1
<1>6. \A b \in Turns : stash[b] # 0 => Displaced(b)
  BY DEF Stream, Metered
<1>7. fence.usage # 0 => \E c \in stalled \cup overtaken : c <= fence.att
  BY DEF Stream, Metered, Displaced
<1>8. CASE HookTakes
  <2> DEFINE t == Head(prov.queue)
  <2>1. /\ prov.queue # <<>> /\ prov' = [prov EXCEPT !.queue = Tail(@)] /\ stash' = stash
        /\ \/ fence' = fence
           \/ t.frame.kind = "usage" /\ fence' = [fence EXCEPT !.usage = t.frame.of]
    BY <1>8 DEF HookTakes
  <2>2. /\ QueueThins /\ prov'.finished = prov.finished /\ t \in ToSet(prov.queue)
        /\ t.frame.of \in Nat /\ (Words(t.frame) => Own(t.frame.of))
    BY <2>1, QueueTaken
  <2>3. prov'.att = prov.att /\ prov'.gen = prov.gen
    BY <2>2 DEF QueueThins
  <2>4. /\ fence'.at = "draining" /\ fence'.att = fence.att
        /\ fence'.usage = fence.usage \/ (t.frame.kind = "usage" /\ fence'.usage = t.frame.of)
    BY <1>1, <1>2, <2>1
  <2>5. prov.att # 0
    <3>1. t.att = prov.att /\ t \in Tags
      BY <2>2 DEF Stream, QueueTidy, Typed, ToSet
    <3>2. QED
      BY <3>1, TurnsAreNumbers DEF Tags
  <2>6. t.frame.kind = "usage" => \E c \in stalled \cup overtaken : c <= prov.att
    <3>1. SUFFICES ASSUME t.frame.kind = "usage"
                   PROVE  Displaced(prov.att)
      BY DEF Displaced
    <3>2. Words(t.frame)
      BY <3>1 DEF Words
    <3>3. Own(t.frame.of)
      BY <2>2, <3>2
    <3>4. t.frame.of = prov.att => Displaced(prov.att)
      BY <1>4, <2>2, <2>5, <3>2 DEF Spent
    <3>5. QED
      BY <2>2, <2>5, <3>3, <3>4, OwnIsLive
  <2>7. fence'.usage # 0 => \E c \in stalled \cup overtaken : c <= fence'.att
    BY <1>4, <1>7, <2>4, <2>5, <2>6
  <2>8. Fencing'
    <3>1. Cleared(prov.att)'
      BY <1>2, <1>3, <1>4, <2>3, <2>5 DEF ThinsOut
    <3>2. ~Passed'
      BY <2>4 DEF Passed
    <3>3. turn[prov.att].at \notin {"reading", "emitting"}
      BY <1>2, <1>5, <2>5 DEF Active
    <3>4. QED
      BY <1>1, <1>4, <2>2, <2>3, <2>4, <2>5, <3>1, <3>2, <3>3 DEF Fencing
  <2>9. Stream'
    BY <1>1, <1>3, <1>5, <1>6, <2>1, <2>2, <2>7, <2>8, HookMoves
  <2>10. QED
    BY <1>3, <2>9
<1>9. CASE HookEnds
  <2>1. /\ Quiet /\ prov' = prov /\ stash' = [stash EXCEPT ![fence.att] = fence.usage]
        /\ fence'.at = "idle" /\ fence'.usage = 0
    BY <1>9 DEF HookEnds, Drained, NoFence
  <2>2. QueueThins
    BY <2>1 DEF QueueThins, Stream, QueueTidy
  <2>3. ASSUME NEW b \in Turns, stash'[b] # 0
        PROVE  Displaced(b)
    <3>1. stash \in [Turns -> Nat]
      BY DEF Typed
    <3>2. stash'[b] = IF b = fence.att THEN fence.usage ELSE stash[b]
      BY <2>1, <3>1
    <3>3. QED
      BY <1>6, <1>7, <2>3, <3>2 DEF Displaced
  <2>4. Fencing'
    <3>1. prov.att # 0 => ~Upstream(prov.att)
      BY <1>4, <2>1, QuietIsGone
    <3>2. prov.att # 0 => ~Upstream(prov.att)'
      BY <1>2, <1>3, <2>1, <3>1 DEF ThinsOut
    <3>3. prov.att # 0 => turn[prov.att].at \notin {"reading", "emitting"}
      BY <1>2, <1>5 DEF Active
    <3>4. QED
      BY <1>1, <2>1, <3>2, <3>3 DEF Fencing
  <2>5. Stream'
    BY <1>1, <1>3, <1>5, <2>1, <2>2, <2>3, <2>4, HookMoves
  <2>6. QED
    BY <1>3, <2>5
<1>10. QED
  BY <1>8, <1>9

\* The frame that leaves the line is of one answer, and the last of it if it ends it.
LEMMA Gathered ==
  ASSUME Typed, PipeTidy, Gathers
  PROVE  LET f == Head(pipe.out) IN
         /\ PipeTidy' /\ ThinsOut
         /\ f \in Frames /\ f.of \in Turns /\ Saying(f.of)
<1> DEFINE f == Head(pipe.out)
<1>1. /\ pipe.out # <<>> /\ pipe' = [pipe EXCEPT !.out = Tail(@)] /\ svc' = svc
      /\ pipe \in Lines /\ pipe.out \in Seq(Frames)
  BY TypedParts DEF Gathers, Lines
<1>2. f \in ToSet(pipe.out) /\ f \in Frames /\ ToSet(Tail(pipe.out)) \subseteq ToSet(pipe.out)
  BY <1>1, ToSetTail
<1>3. f.of = f.by /\ f.by \in Turns /\ Saying(f.by)
  BY <1>2 DEF PipeTidy, Frames, Saying
<1>4. pipe'.in = pipe.in /\ pipe'.out = Tail(pipe.out) /\ OutOrdered(Tail(pipe.out))
  BY <1>1, OutTail DEF Lines, PipeTidy
<1>5. \A v : (Served(v)' <=> Served(v)) /\ (Saying(v)' => Saying(v))
  BY <1>1, <1>2, <1>4 DEF Served, Saying
<1>6. ThinsOut
  BY <1>4, <1>5, Thins
<1>7. PipeTidy'
  BY <1>2, <1>4, <1>5 DEF PipeTidy
<1>8. QED
  BY <1>2, <1>3, <1>6, <1>7

\* The frame the collector gathers is the live attempt's, or of a displaced stream.
LEMMA GatherStep ==
  ASSUME Typed, PipeTidy, Stream, Gathers
  PROVE  PipeTidy' /\ Stream'
<1> DEFINE f == Head(pipe.out)
           t == Tagged(prov.gen, prov.att, f)
<1>1. /\ pipe.out # <<>> /\ prov' = [prov EXCEPT !.queue = Offered(@, t)]
      /\ pipe' = [pipe EXCEPT !.out = Tail(@)]
      /\ UNCHANGED <<life, gen, fence, turn, stash, svc, stalled, overtaken>>
      /\ \/ metered' = metered
         \/ /\ f.kind = "usage" /\ prov'.queue # prov.queue /\ turn[prov.att].at \notin Settled
            /\ metered' = metered \cup {prov.att}
  BY DEF Gathers, Tagged
<1>2. /\ pipe \in Lines /\ pipe.out \in Seq(Frames) /\ prov.queue \in Seq(Tags) /\ prov.gen \in Nat
      /\ prov \in [att : {0} \cup Turns, gen : Nat, queue : Seq(Tags), finished : BOOLEAN]
      /\ \A b \in Turns : b \in Nat
  BY TypedParts, TurnsAreNumbers DEF Lines, Typed
<1>a. /\ f \in ToSet(pipe.out) /\ f \in Frames
      /\ ToSet(Tail(pipe.out)) \subseteq ToSet(pipe.out)
  BY <1>1, <1>2, ToSetTail
<1>b. PICK w \in Turns : f.by = w
  BY <1>a DEF Frames
<1>3. /\ f \in ToSet(pipe.out) /\ f \in Frames /\ f.by = w /\ w \in Turns /\ w \in Nat /\ w # 0
      /\ ToSet(Tail(pipe.out)) \subseteq ToSet(pipe.out)
  BY <1>a, <1>b, TurnsAreNumbers
<1>4. /\ f.of = w /\ Words(f) /\ (Terminal(f) => ~Served(w)) /\ OutOrdered(pipe.out)
      /\ AskedIn(pipe.in, w) => ~Saying(w)
  BY <1>3 DEF PipeTidy
<1>5. Saying(w) /\ Upstream(w) /\ Own(w)
  BY <1>3 DEF Saying, Upstream, Stream, OwnStream
<1>6. prov.att \in Turns /\ prov.att # 0 /\ prov.att \in Nat
  <2>1. w <= prov.att /\ prov.att \in {0} \cup Turns
    BY <1>2, <1>5 DEF Own
  <2>2. prov.att # 0
    BY <1>3, <2>1
  <2>3. prov.att \in Turns
    BY <2>1, <2>2
  <2>4. QED
    BY <1>2, <2>2, <2>3
<1>7. /\ OutOrdered(Tail(pipe.out))
      /\ Terminal(f) => \A g \in ToSet(Tail(pipe.out)) : g.by # w
  BY <1>1, <1>2, <1>3, <1>4, OutTail
<1> HIDE DEF t
<1>8. pipe'.in = pipe.in /\ pipe'.out = Tail(pipe.out)
  BY <1>1, <1>2 DEF Lines
<1>9. \A v : (Served(v)' <=> Served(v)) /\ (Saying(v)' => Saying(v))
  BY <1>1, <1>3, <1>8 DEF Served, Saying
<1>10. ThinsOut
  BY Gathered
<1>11. PipeTidy'
  BY Gathered
<1>12. /\ t \in Tags /\ t.att = prov.att /\ t.gen = prov.gen /\ t.frame = f
  BY <1>2, <1>3, <1>6 DEF t, Tagged, Tags
<1>13. \A u \in ToSet(prov.queue) : Terminal(u.frame) => u.frame.of # w
  BY <1>5 DEF Stream, QueueTidy
<1>14. QueueTidy
  BY DEF Stream
<1>15. /\ prov'.att = prov.att /\ prov'.gen = prov.gen /\ prov'.finished = prov.finished
       /\ QueueOrdered(prov'.queue) /\ prov'.queue # <<>> /\ ToSet(prov.queue) \subseteq ToSet(prov'.queue)
       /\ ToSet(prov'.queue) \subseteq ToSet(prov.queue) \cup {t}
       /\ prov'.queue # prov.queue => t \in ToSet(prov'.queue)
  <2>1. prov'.queue = Offered(prov.queue, t) /\ prov'.att = prov.att /\ prov'.gen = prov.gen
        /\ prov'.finished = prov.finished
    BY <1>1, <1>2
  <2>2. QED
    BY <1>2, <1>4, <1>12, <1>13, <1>14, <2>1, QueueOffered DEF QueueTidy
<1>16. \A v : (Displaced(v)' <=> Displaced(v)) /\ (Own(v)' <=> Own(v))
  BY <1>1, <1>15 DEF Displaced, Own
<1>17. OwnStream'
  BY <1>2, <1>10, <1>16 DEF Stream, OwnStream, ThinsOut
<1>18. QueueTidy'
  <2>1. Terminal(f) => ~Upstream(w)'
    BY <1>4, <1>5, <1>7, <1>8, <1>9 DEF Upstream, Saying
  <2>2. ASSUME NEW u \in ToSet(prov'.queue)
        PROVE  /\ u.att = prov'.att /\ u.gen = prov'.gen
               /\ Words(u.frame) => Own(u.frame.of)'
               /\ Terminal(u.frame) => ~Upstream(u.frame.of)'
    <3>1. CASE u = t
      BY <1>4, <1>5, <1>12, <1>15, <1>16, <2>1, <3>1
    <3>2. CASE u \in ToSet(prov.queue)
      <4>1. u.frame.of \in Nat
        <5>1. u \in Tags
          BY <3>2 DEF Typed, ToSet
        <5>2. QED
          BY <5>1 DEF Tags, Frames
      <4>2. QED
        BY <1>10, <1>14, <1>15, <1>16, <3>2, <4>1 DEF QueueTidy, ThinsOut
    <3>3. QED
      BY <1>15, <2>2, <3>1, <3>2
  <2>3. QED
    BY <1>15, <2>2 DEF QueueTidy
<1>19. TurnsMayRun' <=> TurnsMayRun
  BY <1>1 DEF TurnsMayRun
<1>20. OneByOne'
  BY <1>1, <1>15, <1>19 DEF Stream, OneByOne
<1>21. TurnsMayRun /\ turn[prov.att].at \in Finals => Displaced(prov.att) \/ (Spent(prov.att) /\ w # prov.att)
  BY <1>5, <1>6 DEF Stream, OverIsSpent, Spent
<1>22. OverIsSpent'
  <2>1. Spent(prov.att) /\ w # prov.att => Spent(prov.att)'
    BY <1>4, <1>6, <1>10, <1>12, <1>15 DEF Spent, ThinsOut
  <2>2. TurnsMayRun => (turn[prov.att].at \in Finals => Displaced(prov.att)' \/ Spent(prov.att)')
    BY <1>15, <1>16, <1>21, <2>1
  <2>3. \A b \in Turns : turn[b].at = "draining" => Cleared(b)'
    BY <1>10 DEF Stream, OverIsSpent, ThinsOut
  <2>4. TurnsMayRun => (prov.finished => turn[prov.att].at \in Finals)
    BY <1>6 DEF Stream, OverIsSpent
  <2>5. QED
    BY <1>1, <1>15, <1>19, <2>2, <2>3, <2>4 DEF OverIsSpent
<1>23. Fencing'
  <2>1. Passed' <=> Passed
    BY <1>1, <1>15 DEF Passed
  <2>2. (Upstream(prov.att)' => Upstream(prov.att)) /\ (Cleared(prov.att) => Cleared(prov.att)')
    BY <1>6, <1>10, <1>15 DEF ThinsOut
  <2>3. QED
    BY <1>1, <1>15, <1>19, <2>1, <2>2 DEF Stream, Fencing
<1>24. Heard'
  BY <1>1 DEF Stream, Heard, Displaced
<1>25. Metered'
  <2>1. ASSUME NEW b \in metered', ~Displaced(b)
        PROVE  \/ turn[b].usage = b
               \/ turn[b].at = "cancelled"
               \/ /\ turn[b].at \in Active
                  /\ (turn[b].gen # gen \/ \E u \in ToSet(prov'.queue) : u.frame.kind = "usage")
    <3>1. CASE b \in metered
      BY <1>15, <2>1, <3>1 DEF Stream, Metered
    <3>2. CASE b \notin metered
      <4>1. f.kind = "usage" /\ prov'.queue # prov.queue /\ turn[prov.att].at \notin Settled /\ b = prov.att
        BY <1>1, <2>1, <3>2
      <4>2. w = prov.att
        BY <1>3, <1>5, <1>6, <2>1, <4>1, OwnIsLive
      <4>3. turn[b].at \in Ats /\ turn[b].at # "new"
        <5>1. turn[b] \in TurnStates
          BY <1>6, <4>1 DEF Typed
        <5>2. turn[b].at # "new"
          BY <1>6, <4>1 DEF Stream, OneByOne
        <5>3. QED
          BY <5>1, <5>2 DEF TurnStates
      <4>4. TurnsMayRun
        BY <1>6, <4>1, <4>3 DEF Stream, OneByOne
      <4>5. ~Displaced(prov.att)
        BY <2>1, <4>1
      <4>6. turn[b].at \in Active
        BY <1>21, <4>1, <4>2, <4>3, <4>4, <4>5 DEF Ats, Finals
      <4>7. t \in ToSet(prov'.queue) /\ t.frame.kind = "usage"
        BY <1>12, <1>15, <4>1
      <4>8. QED
        BY <4>6, <4>7
    <3>3. QED
      BY <3>1, <3>2
  <2>2. QED
    BY <1>1, <2>1 DEF Stream, Metered, Displaced
<1>26. QED
  BY <1>11, <1>17, <1>18, <1>20, <1>22, <1>23, <1>24, <1>25 DEF Stream

\* The session that closes leaves no turn on its way.
LEMMA SessionStep ==
  ASSUME Typed, PipeTidy, Stream, SessionCloses
  PROVE  PipeTidy' /\ Stream'
<1>1. /\ fence = NoFence /\ life'.at = "closers" /\ prov' = [prov EXCEPT !.finished = TRUE]
      /\ svc' = [svc EXCEPT !.title = "idle", !.lock = RemoveFirst(@, "title")]
      /\ turn' = [a \in Turns |-> IF turn[a].at \in Settled \cup {"new"} THEN turn[a]
                                 ELSE [turn[a] EXCEPT !.at = "cancelled"]]
      /\ UNCHANGED <<gen, fence, stash, pipe, stalled, overtaken, metered>>
  BY DEF SessionCloses
<1>2. svc'.turn = svc.turn /\ svc'.att = svc.att
  BY <1>1, TypedParts DEF Services
<1>3. PipeTidy' /\ ThinsOut
  BY <1>1, <1>2, NothingFlows
<1>4. prov'.att = prov.att /\ prov'.gen = prov.gen /\ prov'.queue = prov.queue
  BY <1>1 DEF Typed
<1>5. QueueThins
  BY <1>4 DEF QueueThins, Stream, QueueTidy
<1>6. OwnStream' /\ QueueTidy'
  BY <1>1, <1>3, <1>5, QueueKept
<1>7. \A b \in Turns : /\ turn'[b].gen = turn[b].gen /\ turn'[b].words = turn[b].words
                       /\ turn'[b].usage = turn[b].usage /\ turn'[b].at \in Settled \cup {"new"}
                       /\ turn'[b].at = "new" <=> turn[b].at = "new"
                       /\ turn'[b].at = turn[b].at \/ turn'[b].at = "cancelled"
  <2>1. ASSUME NEW b \in Turns
        PROVE  /\ turn'[b].gen = turn[b].gen /\ turn'[b].words = turn[b].words
               /\ turn'[b].usage = turn[b].usage /\ turn'[b].at \in Settled \cup {"new"}
               /\ turn'[b].at = "new" <=> turn[b].at = "new"
               /\ turn'[b].at = turn[b].at \/ turn'[b].at = "cancelled"
    <3>1. turn[b] \in TurnStates
      BY DEF Typed
    <3>2. CASE turn[b].at \in Settled \cup {"new"}
      BY <1>1, <3>2
    <3>3. CASE turn[b].at \notin Settled \cup {"new"}
      <4>1. turn'[b] = [turn[b] EXCEPT !.at = "cancelled"]
        BY <1>1, <3>3
      <4>2. QED
        BY <3>1, <3>3, <4>1 DEF TurnStates, Settled
    <3>4. QED
      BY <3>2, <3>3
  <2>2. QED
    BY <2>1
<1>8. ~TurnsMayRun' /\ \A b \in Turns : turn'[b].at \notin Active
  BY <1>1, <1>7 DEF TurnsMayRun, Settled, Active
<1>9. OneByOne'
  <2>1. prov.att # 0 => prov.att \in Turns
    BY DEF Typed
  <2>2. prov.att # 0 => prov.gen = turn'[prov.att].gen
    BY <1>7, <2>1 DEF Stream, OneByOne
  <2>3. fence'.at = "idle"
    BY <1>1 DEF NoFence
  <2>4. QED
    BY <1>1, <1>4, <1>7, <1>8, <2>2, <2>3 DEF Stream, OneByOne
<1>10. OverIsSpent'
  BY <1>8 DEF OverIsSpent, Active
<1>11. Fencing'
  BY <1>1, <1>8 DEF Fencing, NoFence
<1>12. Heard'
  BY <1>1, <1>7 DEF Stream, Heard, Displaced
<1>13. Metered'
  <2>1. ASSUME NEW b \in metered, ~Displaced(b)
        PROVE  turn'[b].usage = b \/ turn'[b].at = "cancelled"
    <3>1. b \in Turns
      BY <2>1 DEF Typed
    <3>2. turn[b].usage = b \/ turn[b].at = "cancelled" \/ turn[b].at \in Active
      BY <2>1 DEF Stream, Metered
    <3>3. QED
      BY <1>7, <1>8, <3>1, <3>2
  <2>2. QED
    BY <1>1, <2>1 DEF Stream, Metered, Displaced
<1>14. QED
  BY <1>3, <1>6, <1>9, <1>10, <1>11, <1>12, <1>13 DEF Stream

-----------------------------------------------------------------------------
(* Once an attempt has overtaken another.                                  *)

\* Whatever was displaced stays so.
LEMMA StillDisplaced ==
  ASSUME stalled \subseteq stalled', overtaken \subseteq overtaken'
  PROVE  \A w : Displaced(w) => Displaced(w)'
BY DEF Displaced

\* A step that adds nothing but the displaced stream's to what is queued, heard, fenced
\* or metered leaves it as it is.
LEMMA MixedKept ==
  ASSUME Typed, Mixed, ThinsOut, prov'.att = prov.att,
         stalled \subseteq stalled', UNCHANGED overtaken,
         \A t \in ToSet(prov'.queue) :
           t \in ToSet(prov.queue) \/ ~Words(t.frame) \/ Displaced(t.frame.of),
         \A b \in Turns : /\ turn'[b].at = "new" <=> turn[b].at = "new"
                          /\ turn'[b].at \in Active => turn[b].at \in Active
                          /\ \A w \in turn'[b].words : w \in turn[b].words \/ Displaced(w)
                          /\ turn'[b].usage = turn[b].usage \/ Displaced(turn'[b].usage)
                          /\ \/ Displaced(b)
                             \/ /\ turn'[b].usage = turn[b].usage
                                /\ turn[b].at = "cancelled" => turn'[b].at = "cancelled",
         fence'.at \in {"waiting", "draining"} => Displaced(fence'.att),
         \A b \in Turns : stash'[b] # 0 => Displaced(b),
         \A b \in metered' : b \in metered \/ Displaced(b)
  PROVE  Mixed'
<1>1. \A w : Displaced(w) => Displaced(w)'
  BY StillDisplaced
<1>2. \A b \in metered : b \in Turns
  BY DEF Typed
<1>3. prov'.att # 0 /\ Displaced(prov.att)'
  BY <1>1 DEF Mixed
<1>4. \A w \in Turns : Upstream(w)' => Displaced(w)' /\ turn'[w].at # "new"
  BY <1>1, TurnsAreNumbers DEF Mixed, ThinsOut
<1>5. \A t \in ToSet(prov'.queue) : Words(t.frame) => Displaced(t.frame.of)'
  BY <1>1 DEF Mixed
<1>6. \A a \in Turns : turn'[a].at \in {"new"} \cup Active => Displaced(a)'
  BY <1>1 DEF Mixed
<1>7. fence'.at \in {"waiting", "draining"} => Displaced(fence.att)'
  BY <1>1
<1>8. Heard'
  <2>1. ASSUME NEW a \in Turns
        PROVE  /\ \A w \in turn'[a].words : w = a \/ Displaced(w)'
               /\ turn'[a].usage = 0 \/ turn'[a].usage = a \/ Displaced(turn[a].usage)'
    BY <1>1 DEF Mixed, Heard
  <2>2. QED
    BY <2>1 DEF Heard
<1>9. \A a \in metered' : Displaced(a)' \/ turn'[a].usage = a \/ turn'[a].at = "cancelled"
  BY <1>1, <1>2 DEF Mixed
<1>10. \A a \in Turns : stash'[a] # 0 => Displaced(a)'
  BY <1>1
<1>11. QED
  BY <1>3, <1>4, <1>5, <1>6, <1>7, <1>8, <1>9, <1>10 DEF Mixed

\* A turn of the displaced stream takes a step.
LEMMA MixedTurn ==
  ASSUME Typed, Mixed, PipeTidy', ThinsOut, prov'.att = prov.att,
         UNCHANGED <<fence, stash, overtaken, metered>>, stalled \subseteq stalled',
         NEW a \in Turns, turn[a].at \in Active \cup {"last"},
         NEW x \in Ats \ {"new"}, NEW ws, NEW u, Became(a, x, ws, u),
         x \in Active => turn[a].at \in Active,
         turn[a].at = "last" => u = turn[a].usage,
         \A w \in ws : w \in turn[a].words \/ Displaced(w),
         u = turn[a].usage \/ Displaced(u),
         \A t \in ToSet(prov'.queue) : t \in ToSet(prov.queue) \/ ~Words(t.frame)
  PROVE  PipeTidy' /\ Mixed'
<1>1. turn[a].at \in Active => Displaced(a)
  BY DEF Mixed
<1>2. /\ turn'[a].at = x /\ turn'[a].words = ws /\ turn'[a].usage = u
      /\ \A b \in Turns : b # a => turn'[b] = turn[b]
  BY DEF Became
<1>3. turn[a].at # "new" /\ turn[a].at # "cancelled" /\ x # "new"
  BY DEF Active
<1>4. ASSUME NEW b \in Turns
      PROVE  /\ turn'[b].at = "new" <=> turn[b].at = "new"
             /\ turn'[b].at \in Active => turn[b].at \in Active
             /\ \A w \in turn'[b].words : w \in turn[b].words \/ Displaced(w)
             /\ turn'[b].usage = turn[b].usage \/ Displaced(turn'[b].usage)
             /\ \/ Displaced(b)
                \/ /\ turn'[b].usage = turn[b].usage
                   /\ turn[b].at = "cancelled" => turn'[b].at = "cancelled"
  <2>1. CASE b = a
    BY <1>1, <1>2, <1>3, <2>1
  <2>2. CASE b # a
    BY <1>2, <2>2
  <2>3. QED
    BY <2>1, <2>2
<1>5. fence'.at \in {"waiting", "draining"} => Displaced(fence'.att)
  BY DEF Mixed
<1>6. \A b \in Turns : stash'[b] # 0 => Displaced(b)
  BY DEF Mixed
<1>7. QED
  BY <1>4, <1>5, <1>6, MixedKept

\* The reader that is woken finds a frame more, or none.
LEMMA Woken ==
  ASSUME Typed, NEW g \in Nat, NEW a \in Turns, NEW q \in Seq(Tags), Interrupts(g, a, q)
  PROVE  /\ prov'.att = prov.att /\ prov'.gen = prov.gen
         /\ \A t \in ToSet(prov'.queue) : t \in ToSet(q) \/ ~Words(t.frame)
<1> DEFINE c == CancelledTag(g, a)
<1>1. c \in Tags /\ ~Words(c.frame)
  BY TagsTyped DEF CancelledTag, Tagged, Frame, Words
<1>2. prov' = [prov EXCEPT !.queue = Offered(q, c)]
  BY DEF Interrupts
<1> HIDE DEF c
<1>3. Offered(q, c) = q \/ Offered(q, c) = Append(q, c)
  BY DEF Offered
<1>4. \A t \in ToSet(Offered(q, c)) : t \in ToSet(q) \/ t = c
  <2>1. ToSet(Append(q, c)) = ToSet(q) \cup {c}
    BY <1>1, ToSetAppend
  <2>2. ToSet(Offered(q, c)) \subseteq ToSet(q) \cup {c}
    BY <1>3, <2>1
  <2>3. QED
    BY <2>2
<1>5. prov'.att = prov.att /\ prov'.gen = prov.gen /\ prov'.queue = Offered(q, c)
  BY <1>2 DEF Typed
<1>6. QED
  BY <1>1, <1>4, <1>5

\* A frame that is taken is the displaced stream's.
LEMMA MixedTaken ==
  ASSUME Typed, Mixed, prov.queue # <<>>
  PROVE  /\ Head(prov.queue).frame.of \in Nat /\ Tail(prov.queue) \in Seq(Tags)
         /\ Words(Head(prov.queue).frame) => Displaced(Head(prov.queue).frame.of)
         /\ ToSet(Tail(prov.queue)) \subseteq ToSet(prov.queue)
         /\ (\/ prov' = [prov EXCEPT !.queue = Tail(@)]
             \/ prov' = [prov EXCEPT !.queue = Tail(@), !.finished = TRUE])
            => /\ prov'.att = prov.att
               /\ \A t \in ToSet(prov'.queue) : t \in ToSet(prov.queue)
<1>1. prov.queue \in Seq(Tags)
  BY DEF Typed
<1>2. /\ Head(prov.queue) \in ToSet(prov.queue) /\ Head(prov.queue) \in Tags
      /\ Tail(prov.queue) \in Seq(Tags) /\ ToSet(Tail(prov.queue)) \subseteq ToSet(prov.queue)
  BY <1>1, ToSetTail
<1>3. Head(prov.queue).frame.of \in Nat
  BY <1>2 DEF Tags, Frames
<1>4. (\/ prov' = [prov EXCEPT !.queue = Tail(@)]
       \/ prov' = [prov EXCEPT !.queue = Tail(@), !.finished = TRUE])
      => prov'.att = prov.att /\ prov'.queue = Tail(prov.queue)
  BY DEF Typed
<1>5. QED
  BY <1>2, <1>3, <1>4 DEF Mixed

LEMMA MixedReads ==
  ASSUME Typed, PipeTidy, Mixed, NEW a \in Turns, Read(a)
  PROVE  PipeTidy' /\ Mixed'
<1> DEFINE t == Head(prov.queue)
<1>1. /\ turn[a].at = "reading" /\ turn[a].at \in Active \cup {"last"} /\ prov.queue # <<>>
      /\ UNCHANGED <<fence, stash, svc, stalled, overtaken, metered>>
  BY ReadCases DEF Active
<1>2. /\ t.frame.of \in Nat /\ Tail(prov.queue) \in Seq(Tags) /\ turn[a].gen \in Nat
      /\ Words(t.frame) => Displaced(t.frame.of)
  <2>1. turn[a] \in TurnStates
    BY DEF Typed
  <2>2. QED
    BY <1>1, <2>1, MixedTaken DEF TurnStates
<1>3. {"reading", "emitting", "draining", "last", "failed"} \subseteq Ats \ {"new"}
  BY DEF Ats, Active, Finals, Settled
<1>4. {"reading", "emitting", "draining"} \subseteq Active /\ "last" \notin Active /\ "failed" \notin Active
  BY DEF Active
<1>5. CASE turn' = [turn EXCEPT ![a].at = "draining"] /\ Interrupts(turn[a].gen, a, Tail(prov.queue))
  <2>1. PipeTidy' /\ ThinsOut
    BY <1>1, <1>5, LineInterrupted DEF Interrupts
  <2>2. /\ prov'.att = prov.att
        /\ \A u \in ToSet(prov'.queue) : u \in ToSet(prov.queue) \/ ~Words(u.frame)
    <3>1. ToSet(Tail(prov.queue)) \subseteq ToSet(prov.queue)
      BY <1>1, MixedTaken
    <3>2. QED
      BY <1>2, <1>5, <3>1, Woken
  <2>3. Became(a, "draining", turn[a].words, turn[a].usage)
    BY <1>3, <1>5, TurnBecomes
  <2>4. QED
    BY <1>1, <1>3, <1>4, <2>1, <2>2, <2>3, MixedTurn
<1>6. CASE /\ UNCHANGED pipe
           /\ \/ prov' = [prov EXCEPT !.queue = Tail(@)]
              \/ prov' = [prov EXCEPT !.queue = Tail(@), !.finished = TRUE]
           /\ \E x \in {"reading", "emitting", "last", "failed"}, ws \in SUBSET Nat, u \in Nat :
                /\ Became(a, x, ws, u)
                /\ \A w \in ws : w \in turn[a].words \/ Displaced(w)
                /\ u = turn[a].usage \/ Displaced(u)
  <2>1. PipeTidy' /\ ThinsOut
    BY <1>1, <1>6, NothingFlows
  <2>2. prov'.att = prov.att /\ \A u \in ToSet(prov'.queue) : u \in ToSet(prov.queue)
    BY <1>1, <1>6, MixedTaken
  <2>3. PICK x \in {"reading", "emitting", "last", "failed"}, ws \in SUBSET Nat, u \in Nat :
          /\ Became(a, x, ws, u)
          /\ \A w \in ws : w \in turn[a].words \/ Displaced(w)
          /\ u = turn[a].usage \/ Displaced(u)
    BY <1>6
  <2>4. x \in Ats \ {"new"} /\ (x \in Active => turn[a].at \in Active) /\ turn[a].at # "last"
    BY <1>1, <1>3, <1>4
  <2>5. QED
    BY <1>1, <2>1, <2>2, <2>3, <2>4, MixedTurn
<1>7. turn[a].words \in SUBSET Nat /\ turn[a].usage \in Nat /\ turn[a].at = "reading"
  <2>1. turn[a] \in TurnStates
    BY DEF Typed
  <2>2. QED
    BY <1>1, <2>1 DEF TurnStates
<1>8. CASE UNCHANGED <<turn, pipe>> /\ prov' = [prov EXCEPT !.queue = Tail(@)]
  <2>1. Became(a, "reading", turn[a].words, turn[a].usage)
    BY <1>1, <1>8 DEF Became
  <2>2. QED
    BY <1>6, <1>7, <1>8, <2>1
<1>9. CASE /\ t.frame.kind = "text" /\ UNCHANGED pipe
           /\ prov' = [prov EXCEPT !.queue = Tail(@)]
           /\ \E at \in {"reading", "emitting"} :
                turn' = [turn EXCEPT ![a].at = at, ![a].words = @ \union {t.frame.of}]
  <2>1. PICK at \in {"reading", "emitting"} :
          turn' = [turn EXCEPT ![a].at = at, ![a].words = @ \union {t.frame.of}]
    BY <1>9
  <2>2. Became(a, at, turn[a].words \cup {t.frame.of}, turn[a].usage)
    BY <1>2, <1>3, <2>1, TurnBecomes
  <2>3. turn[a].words \cup {t.frame.of} \in SUBSET Nat /\ Displaced(t.frame.of)
    BY <1>2, <1>7, <1>9 DEF Words
  <2>4. QED
    BY <1>6, <1>7, <1>9, <2>2, <2>3
<1>10. CASE /\ t.frame.kind = "usage" /\ UNCHANGED pipe
            /\ prov' = [prov EXCEPT !.queue = Tail(@)]
            /\ turn' = [turn EXCEPT ![a].usage = t.frame.of]
  <2>1. Became(a, "reading", turn[a].words, t.frame.of)
    BY <1>2, <1>7, <1>10, TurnBecomes
  <2>2. Displaced(t.frame.of)
    BY <1>2, <1>10 DEF Words
  <2>3. QED
    BY <1>2, <1>6, <1>7, <1>10, <2>1, <2>2
<1>11. CASE /\ UNCHANGED pipe
            /\ prov' = [prov EXCEPT !.queue = Tail(@), !.finished = TRUE]
            /\ \E at \in {"last", "failed"} : turn' = [turn EXCEPT ![a].at = at]
  <2>1. PICK at \in {"last", "failed"} : turn' = [turn EXCEPT ![a].at = at]
    BY <1>11
  <2>2. Became(a, at, turn[a].words, turn[a].usage)
    BY <1>3, <2>1, TurnBecomes
  <2>3. QED
    BY <1>6, <1>7, <1>11, <2>2
<1>12. QED
  BY <1>5, <1>8, <1>9, <1>10, <1>11, ReadCases

LEMMA MixedSpeaks ==
  ASSUME Typed, PipeTidy, Mixed, NEW a \in Turns,
         EmitReturns(a) \/ LastEmit(a) \/ DrainTakes(a) \/ DrainEnds(a) \/ Stall(a)
  PROVE  PipeTidy' /\ Mixed'
<1>1. /\ turn[a] \in TurnStates /\ turn[a].gen \in Nat /\ prov.queue \in Seq(Tags)
      /\ {"reading", "draining", "failed", "completed", "cancelled"} \subseteq Ats \ {"new"}
      /\ {"reading", "emitting", "draining"} \subseteq Active
      /\ {"completed", "cancelled", "failed"} \cap Active = {}
  BY DEF Typed, TurnStates, Ats, Active, Finals, Settled
<1>2. /\ turn[a].at \in Active \cup {"last"}
      /\ turn[a].at = "last" <=> LastEmit(a)
      /\ UNCHANGED <<fence, stash, svc, overtaken, metered>> /\ stalled \subseteq stalled'
  BY DEF EmitReturns, LastEmit, DrainTakes, DrainEnds, Stall, Active
<1>3. ASSUME UNCHANGED pipe, prov'.att = prov.att,
             \A t \in ToSet(prov'.queue) : t \in ToSet(prov.queue),
             NEW x \in Ats \ {"new"}, x \in Active => turn[a].at \in Active,
             turn' = [turn EXCEPT ![a].at = x]
      PROVE  PipeTidy' /\ Mixed'
  <2>1. PipeTidy' /\ ThinsOut
    BY <1>2, <1>3, NothingFlows
  <2>2. Became(a, x, turn[a].words, turn[a].usage)
    BY <1>3, TurnBecomes
  <2>3. QED
    BY <1>2, <1>3, <2>1, <2>2, MixedTurn
<1>4. ASSUME turn[a].at \in Active, turn' = [turn EXCEPT ![a].at = "draining"],
             NEW q \in Seq(Tags), ToSet(q) \subseteq ToSet(prov.queue), Interrupts(turn[a].gen, a, q)
      PROVE  PipeTidy' /\ Mixed'
  <2>1. PipeTidy' /\ ThinsOut
    BY <1>2, <1>4, LineInterrupted DEF Interrupts
  <2>2. /\ prov'.att = prov.att
        /\ \A u \in ToSet(prov'.queue) : u \in ToSet(prov.queue) \/ ~Words(u.frame)
    BY <1>1, <1>4, Woken
  <2>3. Became(a, "draining", turn[a].words, turn[a].usage)
    BY <1>1, <1>4, TurnBecomes
  <2>4. QED
    BY <1>1, <1>2, <1>4, <2>1, <2>2, <2>3, MixedTurn
<1>5. CASE EmitReturns(a)
  <2>1. turn[a].at = "emitting" /\ turn[a].at \in Active
    BY <1>1, <1>5 DEF EmitReturns
  <2>2. CASE turn' = [turn EXCEPT ![a].at = "reading"] /\ UNCHANGED <<prov, pipe>>
    BY <1>1, <1>3, <2>1, <2>2
  <2>3. CASE turn' = [turn EXCEPT ![a].at = "draining"] /\ Interrupts(turn[a].gen, a, prov.queue)
    BY <1>1, <1>4, <2>1, <2>3
  <2>4. QED
    BY <1>5, <2>2, <2>3 DEF EmitReturns
<1>6. CASE LastEmit(a)
  BY <1>1, <1>3, <1>6 DEF LastEmit
<1>7. CASE DrainTakes(a)
  <2> DEFINE t == Head(prov.queue)
  <2>1. /\ turn[a].at = "draining" /\ prov.queue # <<>> /\ prov' = [prov EXCEPT !.queue = Tail(@)]
        /\ UNCHANGED pipe
        /\ \/ turn' = turn
           \/ t.frame.kind = "usage" /\ turn' = [turn EXCEPT ![a].usage = t.frame.of]
    BY <1>7 DEF DrainTakes
  <2>2. /\ t.frame.of \in Nat /\ (Words(t.frame) => Displaced(t.frame.of))
        /\ prov'.att = prov.att /\ \A u \in ToSet(prov'.queue) : u \in ToSet(prov.queue)
    BY <2>1, MixedTaken
  <2>3. \/ Became(a, "draining", turn[a].words, turn[a].usage)
        \/ Became(a, "draining", turn[a].words, t.frame.of) /\ Displaced(t.frame.of)
    <3>1. CASE turn' = turn
      BY <2>1, <3>1 DEF Became
    <3>2. CASE t.frame.kind = "usage" /\ turn' = [turn EXCEPT ![a].usage = t.frame.of]
      BY <2>1, <2>2, <3>2, TurnBecomes DEF Words
    <3>3. QED
      BY <2>1, <3>1, <3>2
  <2>4. PipeTidy' /\ ThinsOut
    BY <1>2, <2>1, NothingFlows
  <2> HIDE DEF t
  <2>5. CASE Became(a, "draining", turn[a].words, turn[a].usage)
    BY <1>1, <1>2, <2>1, <2>2, <2>4, <2>5, MixedTurn
  <2>6. CASE Became(a, "draining", turn[a].words, t.frame.of) /\ Displaced(t.frame.of)
    BY <1>1, <1>2, <2>1, <2>2, <2>4, <2>6, MixedTurn
  <2>7. QED
    BY <2>3, <2>5, <2>6
<1>8. CASE DrainEnds(a)
  <2>1. /\ turn[a].at = "draining" /\ prov' = [prov EXCEPT !.finished = TRUE] /\ UNCHANGED pipe
        /\ turn' = [turn EXCEPT ![a].at = IF turn[a].gen = gen THEN "completed" ELSE "cancelled"]
    BY <1>8 DEF DrainEnds
  <2>2. prov'.att = prov.att /\ prov'.queue = prov.queue
    BY <2>1 DEF Typed
  <2>3. QED
    BY <1>1, <1>3, <2>1, <2>2
<1>9. CASE Stall(a)
  <2>1. turn[a].at = "reading" /\ turn[a].at \in Active
    BY <1>1, <1>9 DEF Stall
  <2>2. CASE /\ turn' = [turn EXCEPT ![a].at = "failed"]
             /\ prov' = [prov EXCEPT !.finished = TRUE] /\ UNCHANGED pipe
    <3>1. prov'.att = prov.att /\ prov'.queue = prov.queue
      BY <2>2 DEF Typed
    <3>2. QED
      BY <1>1, <1>3, <2>2, <3>1
  <2>3. CASE turn' = [turn EXCEPT ![a].at = "draining"] /\ Interrupts(turn[a].gen, a, <<>>)
    <3>1. <<>> \in Seq(Tags) /\ ToSet(<<>>) \subseteq ToSet(prov.queue)
      BY DEF ToSet
    <3>2. QED
      BY <1>4, <2>1, <2>3, <3>1
  <2>4. QED
    BY <1>9, <2>2, <2>3 DEF Stall
<1>10. QED
  BY <1>5, <1>6, <1>7, <1>8, <1>9

LEMMA MixedBeside ==
  ASSUME Typed, Mixed, ThinsOut, UNCHANGED <<turn, stalled, overtaken>>, prov'.att = prov.att,
         \A t \in ToSet(prov'.queue) :
           t \in ToSet(prov.queue) \/ ~Words(t.frame) \/ Displaced(t.frame.of),
         fence'.at \in {"waiting", "draining"} => Displaced(fence'.att),
         \A b \in Turns : stash'[b] # 0 => Displaced(b),
         \A b \in metered' : b \in metered \/ Displaced(b)
  PROVE  Mixed'
<1>1. stalled \subseteq stalled' /\ UNCHANGED overtaken
  OBVIOUS
<1>2. \A b \in Turns : /\ turn'[b].at = "new" <=> turn[b].at = "new"
                       /\ turn'[b].at \in Active => turn[b].at \in Active
                       /\ \A w \in turn'[b].words : w \in turn[b].words \/ Displaced(w)
                       /\ turn'[b].usage = turn[b].usage \/ Displaced(turn'[b].usage)
                       /\ \/ Displaced(b)
                          \/ /\ turn'[b].usage = turn[b].usage
                             /\ turn[b].at = "cancelled" => turn'[b].at = "cancelled"
  OBVIOUS
<1>3. QED
  BY <1>1, <1>2, MixedKept

\* The fence names the live attempt, which is displaced, and stashes nothing for others.
LEMMA MixedFences ==
  ASSUME Typed, PipeTidy, Mixed, FenceMoves \/ CloseBegins \/ HookRuns
  PROVE  PipeTidy' /\ Mixed'
<1>1. /\ UNCHANGED <<turn, svc, stalled, overtaken, metered>>
      /\ fence \in [at : {"idle", "stages", "waiting", "draining"}, prev : Nat, att : Nat, usage : Nat]
      /\ fence.at \in {"waiting", "draining"} => Displaced(fence.att)
      /\ \A b \in Turns : stash[b] # 0 => Displaced(b)
  BY DEF FenceMoves, CloseBegins, HookRuns, HookStarts, HookWakes, HookTimesOut, HookTakes,
         HookEnds, Typed, Mixed
<1>2. CASE FenceMoves \/ CloseBegins \/ HookWakes \/ HookTimesOut
  <2>1. UNCHANGED <<prov, pipe, stash>>
    BY <1>2 DEF FenceMoves, CloseBegins, HookWakes, HookTimesOut
  <2>2. fence'.at \in {"waiting", "draining"} => Displaced(fence'.att)
    <3>1. CASE FenceMoves \/ CloseBegins \/ HookTimesOut
      <4>1. fence' = NoFence \/ \E g : fence' = [NoFence EXCEPT !.at = "stages", !.prev = g]
        BY <3>1, Zenon DEF FenceMoves, CloseBegins, HookTimesOut
      <4>2. fence'.at \in {"stages", "idle"}
        <5>1. NoFence.at = "idle" /\ \A g : [NoFence EXCEPT !.at = "stages", !.prev = g].at = "stages"
          BY DEF NoFence
        <5>2. QED
          BY <4>1, <5>1
      <4>3. QED
        BY <4>2
    <3>2. CASE HookWakes
      <4>1. fence.at = "waiting" /\ fence'.att = fence.att
        BY <1>1, <3>2 DEF HookWakes
      <4>2. QED
        BY <1>1, <4>1
    <3>3. QED
      BY <1>2, <3>1, <3>2
  <2>3. PipeTidy' /\ ThinsOut
    BY <1>1, <2>1, NothingFlows
  <2>4. QED
    BY <1>1, <2>1, <2>2, <2>3, MixedBeside
<1>3. CASE HookStarts
  <2>1. CASE fence' = NoFence /\ UNCHANGED <<pipe, prov>>
    <3>1. fence'.at = "idle" /\ stash' = stash
      BY <1>3, <2>1 DEF HookStarts, NoFence
    <3>2. PipeTidy' /\ ThinsOut
      BY <1>1, <2>1, NothingFlows
    <3>3. QED
      BY <1>1, <2>1, <3>1, <3>2, MixedBeside
  <2>2. CASE /\ prov.att # 0 /\ Interrupts(prov.gen, prov.att, prov.queue)
             /\ fence' = [fence EXCEPT !.at = WaitsForStream, !.att = prov.att]
    <3>1. prov.att \in Turns /\ prov.gen \in Nat /\ prov.queue \in Seq(Tags)
      BY <2>2 DEF Typed
    <3>2. PipeTidy' /\ ThinsOut
      BY <1>1, <2>2, LineInterrupted DEF Interrupts
    <3>3. prov'.att = prov.att /\ \A t \in ToSet(prov'.queue) : t \in ToSet(prov.queue) \/ ~Words(t.frame)
      BY <2>2, <3>1, Woken
    <3>4. fence'.att = prov.att /\ Displaced(prov.att) /\ stash' = stash
      BY <1>1, <1>3, <2>2 DEF Mixed, HookStarts
    <3>5. QED
      BY <1>1, <3>2, <3>3, <3>4, MixedBeside
  <2>3. QED
    BY <1>3, <2>1, <2>2 DEF HookStarts
<1>4. CASE HookTakes
  <2>1. /\ prov.queue # <<>> /\ prov' = [prov EXCEPT !.queue = Tail(@)] /\ UNCHANGED <<pipe, stash>>
        /\ fence.at = "draining" /\ \/ fence' = fence
                                    \/ \E n : fence' = [fence EXCEPT !.usage = n]
    BY <1>4 DEF HookTakes
  <2>2. prov'.att = prov.att /\ \A t \in ToSet(prov'.queue) : t \in ToSet(prov.queue)
    BY <2>1, MixedTaken
  <2>3. fence'.att = fence.att /\ Displaced(fence.att)
    BY <1>1, <2>1
  <2>4. PipeTidy' /\ ThinsOut
    BY <1>1, <2>1, NothingFlows
  <2>5. QED
    BY <1>1, <2>1, <2>2, <2>3, <2>4, MixedBeside
<1>5. CASE HookEnds
  <2>1. /\ UNCHANGED <<prov, pipe>> /\ stash' = [stash EXCEPT ![fence.att] = fence.usage]
        /\ fence'.at = "idle" /\ fence.at = "draining" /\ stash \in [Turns -> Nat]
    BY <1>5 DEF HookEnds, NoFence, Typed
  <2>2. \A b \in Turns : stash'[b] # 0 => Displaced(b)
    BY <1>1, <2>1
  <2>3. PipeTidy' /\ ThinsOut
    BY <1>1, <2>1, NothingFlows
  <2>4. QED
    BY <1>1, <2>1, <2>2, <2>3, MixedBeside
<1>6. QED
  BY <1>2, <1>3, <1>4, <1>5 DEF HookRuns

LEMMA MixedGathers ==
  ASSUME Typed, PipeTidy, Mixed, Gathers
  PROVE  PipeTidy' /\ Mixed'
<1> DEFINE f == Head(pipe.out)
           t == Tagged(prov.gen, prov.att, f)
<1>1. /\ prov' = [prov EXCEPT !.queue = Offered(@, t)]
      /\ UNCHANGED <<fence, turn, stash, stalled, overtaken>>
      /\ metered' = metered \/ metered' = metered \cup {prov.att}
  BY DEF Gathers, Tagged
<1>2. PipeTidy' /\ ThinsOut /\ f \in Frames /\ f.of \in Turns /\ Saying(f.of)
  BY Gathered
<1>3. prov.gen \in Nat /\ prov.att \in Turns /\ prov.queue \in Seq(Tags) /\ Displaced(prov.att)
  BY DEF Typed, Mixed
<1>4. t \in Tags /\ t.frame = f /\ Displaced(f.of)
  BY <1>2, <1>3 DEF Tagged, Tags, Mixed, Upstream
<1> HIDE DEF t
<1>5. Offered(prov.queue, t) = prov.queue \/ Offered(prov.queue, t) = Append(prov.queue, t)
  BY DEF Offered
<1>6. \A u \in ToSet(Offered(prov.queue, t)) : u \in ToSet(prov.queue) \/ u = t
  <2>1. ToSet(Append(prov.queue, t)) = ToSet(prov.queue) \cup {t}
    BY <1>3, <1>4, ToSetAppend
  <2>2. ToSet(Offered(prov.queue, t)) \subseteq ToSet(prov.queue) \cup {t}
    BY <1>5, <2>1
  <2>3. QED
    BY <2>2
<1>7. prov'.att = prov.att /\ prov'.queue = Offered(prov.queue, t)
  BY <1>1 DEF Typed
<1>8. \A u \in ToSet(prov'.queue) : u \in ToSet(prov.queue) \/ Displaced(u.frame.of)
  BY <1>4, <1>6, <1>7
<1>9. QED
  BY <1>1, <1>2, <1>3, <1>7, <1>8, MixedBeside DEF Mixed

LEMMA MixedCloses ==
  ASSUME Typed, PipeTidy, Mixed, SessionCloses
  PROVE  PipeTidy' /\ Mixed'
<1>1. /\ prov' = [prov EXCEPT !.finished = TRUE]
      /\ svc' = [svc EXCEPT !.title = "idle", !.lock = RemoveFirst(@, "title")]
      /\ UNCHANGED <<fence, stash, pipe, stalled, overtaken, metered>>
  BY DEF SessionCloses
<1>2. svc'.turn = svc.turn /\ svc'.att = svc.att
  BY <1>1, TypedParts DEF Services
<1>3. PipeTidy' /\ ThinsOut
  BY <1>1, <1>2, NothingFlows
<1>4. prov'.att = prov.att /\ prov'.queue = prov.queue
  BY <1>1 DEF Typed
<1>5. ASSUME NEW b \in Turns
      PROVE  /\ turn'[b].at = "new" <=> turn[b].at = "new"
             /\ turn'[b].at \in Active => turn[b].at \in Active
             /\ turn'[b].words = turn[b].words /\ turn'[b].usage = turn[b].usage
             /\ turn[b].at = "cancelled" => turn'[b].at = "cancelled"
  BY TurnsCut DEF Active, Settled
<1>6. /\ fence'.at \in {"waiting", "draining"} => Displaced(fence'.att)
      /\ \A b \in Turns : stash'[b] # 0 => Displaced(b)
  BY <1>1 DEF Mixed
<1>7. QED
  BY <1>1, <1>3, <1>4, <1>5, <1>6, MixedKept

\* The attempt that begins follows one that is not vacated, or the stream is displaced
\* already: what is upstream or still reads is displaced from now on.
LEMMA Overtaking ==
  ASSUME Typed, PipeTidy, NEW a \in Turns, Begin(a), prov.att \in Turns,
         stalled = stalled', overtaken \subseteq overtaken',
         \A w \in Turns : Upstream(w) => Displaced(w)' /\ turn[w].at # "new",
         \A b \in Turns : turn[b].at \in {"new"} \cup Active => Displaced(b)',
         fence.at \in {"waiting", "draining"} => Displaced(fence.att)', fence'.att = fence.att,
         Heard,
         \A b \in metered : Displaced(b)' \/ turn[b].usage = b \/ turn[b].at = "cancelled",
         \A b \in Turns : stash[b] # 0 => Displaced(b)'
  PROVE  PipeTidy' /\ Mixed'
<1>1. /\ turn[a].at = "new" /\ UNCHANGED <<stash, svc, metered>>
      /\ turn' = [turn EXCEPT ![a].at = "reading", ![a].gen = gen]
      /\ prov' = [att |-> a, gen |-> gen, queue |-> <<>>, finished |-> FALSE]
      /\ pipe' = [pipe EXCEPT !.in = Append(@, Context(a))]
      /\ fence' = fence \/ (fence.at = "waiting" /\ fence' = [fence EXCEPT !.at = "draining"])
  BY DEF Begin, LiveAttempt
<1>2. /\ pipe \in Lines /\ pipe.in \in Seq(Asks) /\ turn \in [Turns -> TurnStates] /\ gen \in Nat
      /\ fence \in [at : {"idle", "stages", "waiting", "draining"}, prev : Nat, att : Nat, usage : Nat]
  BY TypedParts DEF Typed, Lines
<1>3. ~AskedIn(pipe.in, a) /\ ~Served(a) /\ ~Saying(a)
  BY <1>1 DEF Upstream
<1>4. pipe'.in = Append(pipe.in, Context(a)) /\ pipe'.out = pipe.out
  BY <1>1, <1>2 DEF Lines
<1>5. /\ OnceAsked(pipe'.in)
      /\ \A w \in Turns : AskedIn(pipe'.in, w) => AskedIn(pipe.in, w) \/ w = a
  BY <1>2, <1>3, <1>4, ContextAppended DEF PipeTidy
<1>6. \A w : (Served(w)' <=> Served(w)) /\ (Saying(w)' <=> Saying(w))
  BY <1>1, <1>4 DEF Served, Saying
<1>7. PipeTidy'
  BY <1>3, <1>4, <1>5, <1>6 DEF PipeTidy
<1>8. \A w \in Turns : Upstream(w)' => Upstream(w) \/ w = a
  BY <1>5, <1>6 DEF Upstream
<1>9. /\ turn'[a].at = "reading" /\ turn'[a].words = turn[a].words /\ turn'[a].usage = turn[a].usage
      /\ \A b \in Turns \ {a} : turn'[b] = turn[b]
  <2>1. turn' = [turn EXCEPT ![a] = [turn[a] EXCEPT !.at = "reading", !.gen = gen]]
    BY <1>1
  <2>2. turn'[a] = [turn[a] EXCEPT !.at = "reading", !.gen = gen] /\ \A b \in Turns \ {a} : turn'[b] = turn[b]
    BY <1>2, <2>1
  <2>3. turn[a] \in TurnStates
    BY <1>2
  <2>4. QED
    BY <2>2, <2>3 DEF TurnStates
<1>10. Displaced(a)' /\ \A w : Displaced(w) => Displaced(w)'
  BY <1>1, StillDisplaced
<1>11. prov'.att = a /\ a # 0 /\ ToSet(prov'.queue) = {}
  BY <1>1, TurnsAreNumbers DEF ToSet
<1>12. \A w \in Turns : Upstream(w)' => Displaced(w)' /\ turn'[w].at # "new"
  BY <1>8, <1>9, <1>10
<1>13. \A b \in Turns : turn'[b].at \in {"new"} \cup Active => Displaced(b)'
  BY <1>9, <1>10
<1>14. fence'.at \in {"waiting", "draining"} => Displaced(fence.att)'
  BY <1>1, <1>2
<1>15. Heard'
  <2>1. ASSUME NEW b \in Turns
        PROVE  /\ \A w \in turn'[b].words : w = b \/ Displaced(w)'
               /\ turn'[b].usage = 0 \/ turn'[b].usage = b \/ Displaced(turn[b].usage)'
    <3>1. turn'[b].words = turn[b].words /\ turn'[b].usage = turn[b].usage
      BY <1>9
    <3>2. QED
      BY <1>10, <3>1 DEF Heard
  <2>2. QED
    BY <2>1 DEF Heard
<1>16. \A b \in metered' : Displaced(b)' \/ turn'[b].usage = b \/ turn'[b].at = "cancelled"
  <2>1. \A b \in metered : b \in Turns
    BY DEF Typed
  <2>2. QED
    BY <1>1, <1>9, <1>10, <2>1
<1>17. \A b \in Turns : stash'[b] # 0 => Displaced(b)'
  BY <1>1
<1>18. QED
  BY <1>7, <1>10, <1>11, <1>12, <1>13, <1>14, <1>15, <1>16, <1>17 DEF Mixed

LEMMA MixedBegins ==
  ASSUME Typed, PipeTidy, Mixed, 0 \notin overtaken, NEW a \in Turns, Begin(a)
  PROVE  PipeTidy' /\ Mixed' /\ 0 \notin overtaken'
<1>1. stalled = stalled' /\ overtaken \subseteq overtaken' /\ overtaken' \subseteq overtaken \cup {prov.att}
  BY DEF Begin
<1>2. prov.att # 0 /\ prov.att \in Turns
  BY DEF Mixed, Typed
<1>3. \A w : Displaced(w) => Displaced(w)'
  BY <1>1, StillDisplaced
<1>4. fence'.att = fence.att
  BY DEF Begin, Typed
<1>5. fence.at \in {"waiting", "draining"} => Displaced(fence.att)'
  BY <1>3, <1>4 DEF Mixed
<1>6. PipeTidy' /\ Mixed'
  BY <1>1, <1>2, <1>3, <1>4, <1>5, Overtaking DEF Mixed
<1>7. QED
  BY <1>1, <1>2, <1>6

\* The first attempt that is overtaken: nothing before it was left upstream, or a stall
\* had displaced that.
LEMMA FirstOvertaken ==
  ASSUME Typed, PipeTidy, Stream, 0 \notin overtaken, NEW a \in Turns, Begin(a), Unvacated
  PROVE  PipeTidy' /\ Mixed' /\ 0 \notin overtaken'
<1>1. stalled = stalled' /\ overtaken' = overtaken \cup {prov.att} /\ TurnsMayRun
  BY DEF Begin
<1>2. prov.att # 0 /\ prov.att \in Turns
  <2>1. CASE fence.at \in {"waiting", "draining"}
    BY <2>1 DEF Stream, Fencing, Typed
  <2>2. CASE \E c \in Turns : turn[c].at \in Active
    BY <2>2, ActiveTurn
  <2>3. QED
    BY <2>1, <2>2 DEF Unvacated, Active
<1>3. /\ \A w : Displaced(w) => Displaced(w)'
      /\ \A w : prov.att <= w => Displaced(w)'
  BY <1>1, StillDisplaced DEF Displaced
<1>4. prov.att \in Nat /\ prov.att <= prov.att /\ \A b \in Turns : b \in Nat
  <2>1. \A b \in Turns : b \in Nat
    BY TurnsAreNumbers
  <2>2. prov.att \in Nat
    BY <1>2, <2>1
  <2>3. QED
    BY <2>1, <2>2
<1>5. \A w \in Turns : Upstream(w) => Displaced(w)' /\ turn[w].at # "new"
  <2>1. ASSUME NEW w \in Turns, Upstream(w)
        PROVE  Displaced(w)' /\ turn[w].at # "new"
    <3>1. w <= prov.att /\ (w = prov.att \/ Displaced(w))
      BY <2>1 DEF Stream, OwnStream, Own
    <3>2. turn[w].at # "new"
      BY <1>4, <3>1 DEF Stream, OneByOne
    <3>3. QED
      BY <1>3, <1>4, <3>1, <3>2
  <2>2. QED
    BY <2>1
<1>6. \A b \in Turns : turn[b].at \in {"new"} \cup Active => Displaced(b)'
  <2>1. ASSUME NEW b \in Turns, turn[b].at \in {"new"} \cup Active
        PROVE  prov.att <= b
    <3>1. b > prov.att \/ b = prov.att
      BY <2>1 DEF Stream, OneByOne
    <3>2. QED
      BY <1>4, <3>1
  <2>2. QED
    BY <1>3, <2>1
<1>7. /\ fence'.att = fence.att
      /\ fence.at \in {"waiting", "draining"} => Displaced(fence.att)'
  <2>1. fence'.att = fence.att
    BY DEF Begin, Typed
  <2>2. QED
    BY <1>1, <1>2, <1>3, <1>4, <2>1 DEF Stream, Fencing
<1>8. \A b \in metered : Displaced(b)' \/ turn[b].usage = b \/ turn[b].at = "cancelled"
  <2>1. \A b \in metered : b \in Turns
    BY DEF Typed
  <2>2. QED
    BY <1>3, <1>6, <2>1 DEF Stream, Metered
<1>9. \A b \in Turns : stash[b] # 0 => Displaced(b)'
  BY <1>3 DEF Stream, Metered
<1>10. Heard
  BY DEF Stream
<1>11. PipeTidy' /\ Mixed'
  BY <1>1, <1>2, <1>5, <1>6, <1>7, <1>8, <1>9, <1>10, Overtaking
<1>12. QED
  BY <1>1, <1>2, <1>11

LEMMA MixedStep ==
  ASSUME Typed, HostFence, PipeTidy, Mixed, 0 \notin overtaken, Next
  PROVE  PipeTidy' /\ Mixed' /\ 0 \notin overtaken'
<1>1. CASE \E a \in Turns : Begin(a)
  BY <1>1, MixedBegins
<1>2. CASE \E a \in Turns : TurnRuns(a) \/ Stall(a)
  <2>1. PICK a \in Turns : TurnRuns(a) \/ Stall(a)
    BY <1>2
  <2>2. PipeTidy' /\ Mixed'
    BY <2>1, MixedReads, MixedSpeaks DEF TurnRuns
  <2>3. overtaken' = overtaken
    BY <2>1 DEF TurnRuns, Read, EmitReturns, LastEmit, DrainTakes, DrainEnds, Stall
  <2>4. QED
    BY <2>2, <2>3
<1>3. CASE FenceMoves \/ CloseBegins \/ HookRuns
  <2>1. overtaken' = overtaken
    BY <1>3 DEF FenceMoves, CloseBegins, HookRuns, HookStarts, HookWakes, HookTimesOut, HookTakes,
                HookEnds
  <2>2. QED
    BY <1>3, <2>1, MixedFences
<1>4. CASE Gathers \/ SessionCloses
  BY <1>4, MixedGathers, MixedCloses DEF Gathers, SessionCloses
<1>5. CASE PipelineMoves
  <2>1. PipeTidy' /\ ThinsOut
    BY <1>5, PipelineThins
  <2>2. UNCHANGED <<fence, turn, prov, stash, stalled, overtaken, metered>>
    BY <1>5, PipelineThins
  <2>3. Mixed'
    BY <2>1, <2>2, MixedBeside DEF Mixed
  <2>4. QED
    BY <2>1, <2>2, <2>3
<1>6. QED
  BY <1>1, <1>2, <1>3, <1>4, <1>5 DEF Next, EngineRuns, PipelineMoves

-----------------------------------------------------------------------------
(* The stream, whether or not an attempt has been overtaken.               *)

LEMMA OvertakenStays ==
  ASSUME Next
  PROVE  overtaken \subseteq overtaken'
BY DEF Next, TurnRuns, EngineRuns, HookRuns, Begin, Read, EmitReturns, LastEmit, DrainTakes,
       DrainEnds, Stall, FenceMoves, CloseBegins, HookStarts, HookWakes, HookTimesOut, HookTakes,
       HookEnds, Loads, SessionCloses, ProviderCloses, ServiceCloses, WorkerEnded, Closed, Gathers,
       Interrupted, TakesContext, TurnAsks, TurnCollects, TitleWanted, TitleAsks, TitleCollects,
       Eof, WorkerReads, WorkerWrites, WorkerFails, Outside

LEMMA StreamStep ==
  ASSUME Typed, HostFence, PipeTidy, Stream, overtaken = {}, life = [at |-> life.at, left |-> life.left],
         Next
  PROVE  PipeTidy' /\ 0 \notin overtaken' /\ IF overtaken' = {} THEN Stream' ELSE Mixed'
<1>0. ASSUME PipeTidy' /\ Stream', overtaken' = overtaken
      PROVE  PipeTidy' /\ 0 \notin overtaken' /\ IF overtaken' = {} THEN Stream' ELSE Mixed'
  BY <1>0
<1>1. CASE \E a \in Turns : Begin(a)
  <2>1. PICK a \in Turns : Begin(a)
    BY <1>1
  <2>2. CASE Unvacated
    <3>1. overtaken' # {}
      BY <2>1, <2>2 DEF Begin
    <3>2. QED
      BY <2>1, <2>2, <3>1, FirstOvertaken
  <2>3. CASE ~Unvacated
    <3>1. overtaken' = overtaken
      BY <2>1, <2>3 DEF Begin
    <3>2. QED
      BY <1>0, <2>1, <2>3, <3>1, BeginStep
  <2>4. QED
    BY <2>2, <2>3
<1>2. CASE \E a \in Turns : TurnRuns(a) \/ Stall(a)
  <2>1. PICK a \in Turns : TurnRuns(a) \/ Stall(a)
    BY <1>2
  <2>2. PipeTidy' /\ Stream'
    BY <2>1, ReadStep, EmitStep, LastEmitStep, DrainStep, DrainEndStep, StallStep DEF TurnRuns
  <2>3. overtaken' = overtaken
    BY <2>1 DEF TurnRuns, Read, EmitReturns, LastEmit, DrainTakes, DrainEnds, Stall
  <2>4. QED
    BY <1>0, <2>2, <2>3
<1>3. CASE FenceMoves \/ CloseBegins \/ HookRuns \/ Gathers
  <2>1. PipeTidy' /\ Stream'
    BY <1>3, FenceStep, HookStartStep, HookWaitStep, HookDrainStep, GatherStep DEF HookRuns
  <2>2. overtaken' = overtaken
    BY <1>3 DEF FenceMoves, CloseBegins, HookRuns, HookStarts, HookWakes, HookTimesOut, HookTakes,
                HookEnds, Gathers
  <2>3. QED
    BY <1>0, <2>1, <2>2
<1>4. CASE SessionCloses
  BY <1>0, <1>4, SessionStep DEF SessionCloses
<1>5. CASE PipelineMoves
  BY <1>0, <1>5, PipelineFlows, PipelineThins
<1>6. QED
  BY <1>1, <1>2, <1>3, <1>4, <1>5 DEF Next, EngineRuns, PipelineMoves

LEMMA StreamStarts ==
  ASSUME Init
  PROVE  StreamInv
<1>1. /\ \A a \in Turns : turn[a].at = "new" /\ turn[a].gen = 0 /\ turn[a].words = {} /\ turn[a].usage = 0
      /\ turn \in [Turns -> TurnStates]
      /\ \A a \in Turns : a > 0 /\ a \in Nat
  <2>1. [at |-> "new", gen |-> 0, words |-> {}, usage |-> 0] \in TurnStates
    BY DEF TurnStates, Ats
  <2>2. QED
    BY <2>1, TurnsAreNumbers DEF Init
<1>2. /\ wk \in Workers /\ ToSet(wk.in) = {} /\ ToSet(wk.jobs) = {} /\ ToSet(wk.out) = {}
  <2>1. wk = [alive |-> TRUE, in |-> <<>>, jobs |-> <<>>, cancelled |-> {}, out |-> <<>>]
    BY DEF Init, Spawned
  <2>2. /\ <<>> \in Seq(Commands) /\ <<>> \in Seq(Jobs) /\ <<>> \in Seq(Outputs)
    OBVIOUS
  <2>3. QED
    BY <2>1, <2>2 DEF Workers, ToSet
<1>3. svc \in Services /\ svc.turn = "idle" /\ svc.title = "idle" /\ svc.name = {}
  <2>1. <<>> \in Seq({"turn", "title"})
    OBVIOUS
  <2>2. QED
    BY <2>1 DEF Init, Services, Phases
<1>4. Typed
  <2>1. /\ prov \in [att : {0} \cup Turns, gen : Nat, queue : Seq(Tags), finished : BOOLEAN]
        /\ pipe \in [in : Seq(Asks), out : Seq(Frames)]
        /\ host \in [n : Nat, active : Nat, back : Nat]
        /\ fence \in [at : {"idle", "stages", "waiting", "draining"}, prev : Nat, att : Nat, usage : Nat]
    BY DEF Init, NoFence
  <2>2. /\ gen \in Nat /\ stalled \subseteq Turns /\ metered \subseteq Turns /\ stash \in [Turns -> Nat]
        /\ overtaken \subseteq {0} \cup Turns
    BY DEF Init
  <2>3. QED
    BY <1>1, <1>2, <1>3, <2>1, <2>2 DEF Typed
<1>5. HostFence
  BY <1>2, <1>3 DEF HostFence, Numbered
<1>6. /\ pipe.in = <<>> /\ pipe.out = <<>> /\ prov.queue = <<>> /\ prov.att = 0 /\ fence.at = "idle"
      /\ fence.usage = 0 /\ ToSet(pipe.out) = {} /\ ToSet(prov.queue) = {}
      /\ \A a \in Turns : stash[a] = 0
  BY DEF Init, NoFence, ToSet
<1>7. \A w : ~Upstream(w)
  BY <1>3, <1>6 DEF Upstream, AskedIn, Served, Saying
<1>8. PipeTidy
  BY <1>6 DEF PipeTidy, OnceAsked, OutOrdered, AskedIn
<1>9. OwnStream /\ QueueTidy
  BY <1>6, <1>7 DEF OwnStream, QueueTidy, QueueOrdered
<1>10. OneByOne
  <2>1. \A a \in Turns : turn[a].gen <= gen
    BY <1>1 DEF Init
  <2>2. QED
    BY <1>1, <1>6, <2>1 DEF OneByOne, Active
<1>11. OverIsSpent /\ Fencing
  BY <1>1, <1>6 DEF OverIsSpent, Fencing
<1>12. Heard /\ Metered
  BY <1>1, <1>6 DEF Init, Heard, Metered
<1>13. overtaken = {}
  BY DEF Init
<1>14. QED
  BY <1>4, <1>5, <1>8, <1>9, <1>10, <1>11, <1>12, <1>13 DEF StreamInv, Stream

\* Nothing of it depends on what an idle step leaves as it is.
LEMMA StreamIdles ==
  ASSUME StreamInv, UNCHANGED vars
  PROVE  StreamInv'
<1>1. UNCHANGED <<life, gen, fence, turn, prov, stash, pipe, svc, host, wk, stalled, overtaken, metered>>
  BY DEF vars
<1>2. Typed'
  BY <1>1 DEF StreamInv, Typed
<1>3. HostFence'
  BY <1>1 DEF StreamInv, HostFence, Holds
<1>4. PipeTidy' /\ ThinsOut
  BY <1>1, NothingFlows DEF StreamInv
<1>5. overtaken' = overtaken /\ 0 \notin overtaken
  BY <1>1 DEF StreamInv
<1>6. CASE overtaken = {}
  <2>1. Stream'
    BY <1>1, <1>4, <1>6, StreamShrinks DEF StreamInv, Stream, TurnsMayRun
  <2>2. QED
    BY <1>2, <1>3, <1>4, <1>5, <1>6, <2>1 DEF StreamInv
<1>7. CASE overtaken # {}
  <2>1. Mixed'
    BY <1>1, <1>4, <1>7, MixedBeside DEF StreamInv, Mixed
  <2>2. QED
    BY <1>2, <1>3, <1>4, <1>5, <1>7, <2>1 DEF StreamInv
<1>8. QED
  BY <1>6, <1>7

\* Whatever is between the service and a turn's settlement is the live attempt's own, or
\* of a stream that a stall displaced (pipecat_provider.py:109-112, worker.py:211-214);
\* from the first attempt that another overtakes on (pipecat_provider.py:204), it is of
\* that attempt or of a later one, and no earlier turn hears or loses anything.
THEOREM StreamInvariance == Spec => []StreamInv
<1>1. Init => StreamInv
  BY StreamStarts
<1>2. StreamInv /\ IInv /\ [Next]_vars => StreamInv'
  <2>1. ASSUME StreamInv, IInv, Next
        PROVE  StreamInv'
    <3>1. /\ Typed /\ HostFence /\ PipeTidy /\ OnceAsked(pipe.in) /\ 0 \notin overtaken
          /\ life = [at |-> life.at, left |-> life.left]
      BY <2>1 DEF StreamInv, PipeTidy, IInv, Shape
    <3>2. Typed' /\ HostFence'
      BY <2>1, <3>1, TypedStep, HostStep
    <3>3. CASE overtaken = {}
      <4>1. Stream
        BY <2>1, <3>3 DEF StreamInv
      <4>2. QED
        BY <2>1, <3>1, <3>2, <3>3, <4>1, StreamStep DEF StreamInv
    <3>4. CASE overtaken # {}
      <4>1. Mixed
        BY <2>1, <3>4 DEF StreamInv
      <4>2. overtaken' # {}
        BY <2>1, <3>4, OvertakenStays
      <4>3. QED
        BY <2>1, <3>1, <3>2, <4>1, <4>2, MixedStep DEF StreamInv
    <3>5. QED
      BY <3>3, <3>4
  <2>2. QED
    BY <2>1, StreamIdles
<1>3. QED
  BY <1>1, <1>2, Invariance, PTL DEF Spec

LEMMA StreamSays ==
  ASSUME StreamInv
  PROVE  OwnWords /\ UsageKept
<1>1. /\ Heard /\ HostFence /\ metered \subseteq Turns
      /\ \A a \in metered : \/ Displaced(a) \/ turn[a].usage = a
                            \/ turn[a].at \in Active \cup {"cancelled"}
      /\ \A a \in Turns : stash[a] # 0 => Displaced(a)
  <2>1. Stream \/ Mixed
    BY DEF StreamInv
  <2>2. QED
    BY <2>1 DEF StreamInv, Typed, Stream, Metered, Mixed
<1>2. OwnWords
  BY <1>1 DEF OwnWords, Heard, HostFence
<1>3. \A a \in metered : turn[a].at \in {"completed", "failed"} => turn[a].at \notin Active \cup {"cancelled"}
  BY DEF Active
<1>4. UsageKept
  BY <1>1, <1>3 DEF UsageKept
<1>5. QED
  BY <1>2, <1>4

\* A turn hears and accounts for its own answer only, a title is made of nothing else:
\* the host's generation and the collector's tag keep the answers apart, however many
\* turns, fences, titles and faults there are (worker.py:211-214, pipecat_provider.py:109-112).
\* What another turn may hear is an answer no older than the first that stalled or was
\* overtaken.
THEOREM WordsAreOwn == Spec => []OwnWords
<1>1. StreamInv => OwnWords
  BY StreamSays
<1>2. QED
  BY <1>1, StreamInvariance, PTL

\* Usage that reached the queue of a live attempt is in its settlement, and the fence hook
\* takes none from an attempt that drains itself (streaming.py:215-221,
\* pipecat_provider.py:214-217), for every turn before the first that stalled or was
\* overtaken.
THEOREM UsageIsKept == Spec => []UsageKept
<1>1. StreamInv => UsageKept
  BY StreamSays
<1>2. QED
  BY <1>1, StreamInvariance, PTL
=============================================================================
