------------------------ MODULE SpeechBackendsProofs ------------------------
(***************************************************************************)
(* Proofs about SpeechBackends, for every number of turn tasks, sentences, *)
(* generations and worker faults: what is heard of a sentence that the     *)
(* private voice began is that sentence.  A PCM frame names a generation   *)
(* and a position, no request, so the argument is about what is on its way *)
(* between host and worker.  What a sentence abandoned within the current  *)
(* generation left there has no first chunk any more, and comes before     *)
(* what the next reader asked for; so the reader notices before it has     *)
(* heard anything, and after its first chunk everything of the generation  *)
(* in command pipe, worker and output pipe is its own.                     *)
(***************************************************************************)
EXTENDS SpeechBackends, TLAPS

Points == {"idle", "lock", "launch", "reading", "chunk", "gone", "retire"}
SpkT   == [at : Points, gen : Nat, req : Nat, voice : {"none", "gpt", "av"}, seq : Nat]
JobT   == [gen : Nat, req : Nat, next : Nat, stop : BOOLEAN, over : BOOLEAN]
CmdT   == [kind : {"synthesize", "cancel"}, gen : Nat, req : Nat]
FrameT == [kind : {"pcm"}, gen : Nat, req : Nat, seq : Nat]
          \cup [kind : {"done"}, gen : Nat, req : Nat, seq : Nat, cancelled : BOOLEAN]
          \cup [kind : {"error"}, gen : Nat, req : Nat]
          \cup {Busy}
WorkerT == [n : Nat, alive : BOOLEAN, hung : BOOLEAN, in : Seq(CmdT), out : Seq(FrameT), job : JobT]
ItemT   == [voice : {"gpt", "av", "end", "error"}, req : Nat, n : Int]
AvT     == [gen : Nat, owner : Nat, queue : Seq(ItemT), cancelled : SUBSET Nat]
SynthT  == [callback : Nat, utterances : Seq([req : Nat, next : Nat]),
            puts : Seq([queue : Nat, item : ItemT])]
GptT    == [conn : Nat, restart : BOOLEAN, gen : Nat, cancelled : SUBSET Nat, failures : Nat,
            open : BOOLEAN]

Types ==
  /\ gen \in Nat /\ gen >= 1 /\ asked \in Nat /\ asked <= MaxRequests
  /\ fence = [at |-> fence.at, prev |-> fence.prev, req |-> fence.req] /\ fence.prev \in Nat
  /\ spk \in [Speakers -> SpkT] /\ gpt \in GptT /\ worker \in WorkerT
  /\ av \in AvT /\ synth \in SynthT /\ heard \in [Requests -> Seq(ItemT)]

\* Nothing is of a generation that has not begun, and only past ones are cancelled.
Past ==
  /\ fence.at = "playback" => fence.prev < gen
  /\ \A c \in gpt.cancelled : c < gen
  /\ \A s \in Speakers : spk[s].gen <= gen
  /\ worker.job.gen <= gen
  /\ \A i \in DOMAIN worker.out : worker.out[i].kind # "busy" => worker.out[i].gen <= gen
  /\ \A i \in DOMAIN worker.in : worker.in[i].gen <= gen
-----------------------------------------------------------------------------
(* What is on its way.                                                     *)

\* The task that reads frames for a sentence of the current generation.
IsReader(x) == x.voice = "gpt" /\ x.at \in {"reading", "chunk"} /\ x.gen = gen
Readers     == {s \in Speakers : IsReader(spk[s])}
\* A frame, a command and a job of the current generation.
Speaks(f) == f.kind \in {"pcm", "done", "error"} /\ f.gen = gen
Asks(c)   == c.kind = "synthesize" /\ c.gen = gen
JobNow    == worker.job.gen = gen /\ ~worker.job.over
NoneAsked == \A i \in DOMAIN worker.in : ~Asks(worker.in[i])

OneReader == \A s, t \in Speakers : InGpt(s) /\ InGpt(t) => s = t
Connected == worker.alive => gpt.conn = worker.n /\ gpt.conn # 0
\* What a sentence abandoned in the middle (its chunk was refused) leaves behind: its
\* first chunk was heard, so no chunk on its way is a first one.
Begun == {r \in Requests : heard[r] # <<>>}
LeftOver(f, begun) == f.req \in begun /\ (f.kind = "pcm" => f.seq > 0)
\* The frame is of the sentence x reads, or x has not heard anything and would notice.
Suits(f, x, begun) == \/ f.req = x.req /\ (f.kind = "pcm" /\ x.seq > 0 => f.seq > 0)
                      \/ f.req # x.req /\ x.seq = 0 /\ LeftOver(f, begun)
Own == \A s \in Readers :
  /\ \A i \in DOMAIN worker.out : Speaks(worker.out[i]) => Suits(worker.out[i], spk[s], Begun)
  /\ JobNow => Suits(Pcm(worker.job), spk[s], Begun)
  /\ \A i \in DOMAIN worker.in : Asks(worker.in[i]) => worker.in[i].req = spk[s].req /\ spk[s].seq = 0
  /\ spk[s].at = "chunk" => spk[s].seq > 0
\* What is left behind comes before what the reader asked for.
Ordered == \A s \in Readers : \A i \in DOMAIN worker.out :
  Speaks(worker.out[i]) /\ worker.out[i].req = spk[s].req =>
    /\ \A j \in DOMAIN worker.out : j > i /\ Speaks(worker.out[j]) => worker.out[j].req = spk[s].req
    /\ JobNow => worker.job.req = spk[s].req
Clean ==
  worker.alive /\ Readers = {} =>
    /\ \A i \in DOMAIN worker.out : Speaks(worker.out[i]) => LeftOver(worker.out[i], Begun)
    /\ JobNow => LeftOver(Pcm(worker.job), Begun)
    /\ NoneAsked
\* A sentence has one first chunk, and the frame that ends it is the last there is of it.
InTurn == \A i \in DOMAIN worker.out : Speaks(worker.out[i]) =>
  /\ \A j \in DOMAIN worker.out :
       j > i /\ Speaks(worker.out[j]) /\ worker.out[j].req = worker.out[i].req =>
         worker.out[i].kind = "pcm" /\ (worker.out[j].kind = "pcm" => worker.out[j].seq > 0)
  /\ JobNow /\ worker.job.req = worker.out[i].req =>
       worker.out[i].kind = "pcm" /\ worker.job.next > 0
AskedOnce ==
  /\ \A i, j \in DOMAIN worker.in : Asks(worker.in[i]) /\ Asks(worker.in[j]) => i = j
  /\ \A i \in DOMAIN worker.in : Asks(worker.in[i]) =>
       /\ JobNow => worker.job.req # worker.in[i].req
       /\ \A j \in DOMAIN worker.out : Speaks(worker.out[j]) => worker.out[j].req # worker.in[i].req
DoneWhole == \A i \in DOMAIN worker.out :
  worker.out[i].kind = "done" /\ ~worker.out[i].cancelled => worker.out[i].seq = Chunks

Pipeline == OneReader /\ Connected /\ Own /\ Ordered /\ Clean /\ InTurn /\ AskedOnce /\ DoneWhole
-----------------------------------------------------------------------------
(* What was heard.                                                         *)

Pure(r)  == \A i \in DOMAIN heard[r] : heard[r][i] = Chunk("gpt", r, i - 1)
NoGpt(r) == \A i \in DOMAIN heard[r] : heard[r][i].voice # "gpt"

\* How a sentence in progress stands to what was heard of it.
Stands(x) ==
  /\ x.voice \in {"gpt", "av"} /\ x.req \in 1..asked /\ x.req \notin whole
  /\ x.voice = "av" => NoGpt(x.req)
  /\ x.voice = "gpt" => Pure(x.req)
  /\ x.voice = "gpt" /\ x.at \in {"lock", "launch"} => heard[x.req] = <<>> /\ x.seq = 0
  /\ x.at \in {"launch", "retire"} => x.voice = "gpt"
  /\ IsReader(x) => Len(heard[x.req]) = x.seq

Said ==
  /\ \A r \in Requests : Pure(r) \/ NoGpt(r)
  /\ \A s \in Speakers : spk[s].at # "idle" => Stands(spk[s])
  /\ \A s, t \in Speakers :
       s # t /\ spk[s].at # "idle" /\ spk[t].at # "idle" => spk[s].req # spk[t].req
  /\ \A r \in Requests : r > asked => heard[r] = <<>>
  /\ whole \subseteq 1..asked
  /\ \A r \in whole : NoGpt(r) \/ Len(heard[r]) = Chunks

IInv == Types /\ Past /\ Pipeline /\ Said
-----------------------------------------------------------------------------
LEMMA Start ==
  ASSUME Init
  PROVE  IInv
<1> USE SpeechAssumption
<1>1. Resting \in SpkT
  BY DEF Resting, SpkT, Points
<1>2. NoWorker \in WorkerT
  BY DEF NoWorker, WorkerT, NoJob, JobT
<1>3. Types
  <2>1. fence = [at |-> fence.at, prev |-> fence.prev, req |-> fence.req] /\ fence.prev \in Nat
    BY DEF Init, StartedAfter, NoFence
  <2>2. gpt \in GptT /\ av \in AvT /\ synth \in SynthT
    BY DEF Init, StartedAfter, GptT, AvT, SynthT
  <2>3. spk \in [Speakers -> SpkT] /\ worker \in WorkerT
    BY <1>1, <1>2 DEF Init, StartedAfter
  <2>4. gen = 1 /\ asked = 0 /\ heard \in [Requests -> Seq(ItemT)]
    BY DEF Init, StartedAfter
  <2>5. QED
    BY <2>1, <2>2, <2>3, <2>4 DEF Types
<1>4. Past
  BY DEF Init, StartedAfter, Past, NoFence, Resting, NoWorker, NoJob
<1>5. Pipeline
  BY DEF Init, StartedAfter, Pipeline, OneReader, Connected, Own, Ordered, Clean, InTurn, AskedOnce,
         DoneWhole, Readers, IsReader, Resting, NoWorker, NoJob, NoneAsked, JobNow, InGpt
<1>6. Said
  BY DEF Init, StartedAfter, Said, Pure, NoGpt, Resting, Requests
<1>7. QED
  BY <1>3, <1>4, <1>5, <1>6 DEF IInv
-----------------------------------------------------------------------------
(* A task's record becomes x.                                              *)

Becomes(s, x) == x \in SpkT /\ spk' = [spk EXCEPT ![s] = x]

LEMMA SpkStep ==
  ASSUME Types, NEW s \in Speakers, NEW x, Becomes(s, x)
  PROVE  /\ spk' \in [Speakers -> SpkT] /\ spk'[s] = x
         /\ \A t \in Speakers : t # s => spk'[t] = spk[t]
BY DEF Types, Becomes

\* Nothing moves on its way, and the reader stays or was none.
LEMMA PipelineQuiet ==
  ASSUME Types, Pipeline, NEW s \in Speakers, NEW x, Becomes(s, x),
         UNCHANGED <<gen, worker>>, gpt'.conn = gpt.conn, Begun \subseteq Begun',
         x.voice = "gpt" /\ x.at \in {"launch", "reading", "chunk", "gone", "retire"}
           => InGpt(s) \/ GptFree,
         IsReader(x) => /\ IsReader(spk[s]) /\ x.req = spk[s].req /\ x.seq = spk[s].seq
                        /\ x.at = "chunk" => spk[s].at = "chunk",
         IsReader(spk[s]) /\ ~IsReader(x) => spk[s].seq > 0 /\ spk[s].req \in Begun
  PROVE  Pipeline'
<1>1. /\ spk'[s] = x /\ \A t \in Speakers : t # s => spk'[t] = spk[t]
  BY SpkStep
<1>2. \A t \in Speakers : InGpt(t)' => InGpt(t) \/ (t = s /\ GptFree)
  BY <1>1 DEF InGpt
<1>3. OneReader'
  BY <1>2 DEF OneReader, Pipeline, GptFree
<1>4. Readers' \subseteq Readers
  BY <1>1 DEF Readers, IsReader
<1>5. \A t \in Readers' : /\ spk'[t].req = spk[t].req /\ spk'[t].seq = spk[t].seq
                          /\ spk'[t].at = "chunk" => spk[t].at = "chunk"
  BY <1>1, <1>4 DEF Readers, IsReader
<1>a. \A f : LeftOver(f, Begun) => LeftOver(f, Begun')
  BY DEF LeftOver
<1>b. \A t \in Readers' : \A f : Suits(f, spk[t], Begun) => Suits(f, spk'[t], Begun')
  BY <1>5, <1>a DEF Suits
<1>6. Connected'
  BY DEF Connected, Pipeline
<1>7. Own'
  BY <1>4, <1>5, <1>b DEF Own, Pipeline, Speaks, JobNow, Asks
<1>c. Ordered'
  BY <1>4, <1>5 DEF Ordered, Pipeline, Speaks, JobNow
<1>8. Clean'
  <2>1. CASE IsReader(spk[s]) /\ ~IsReader(x)
    <3>1. s \in Readers /\ spk[s].seq > 0 /\ spk[s].req \in Begun /\ spk[s].seq # 0
      BY <2>1 DEF Readers
    <3>2. \A f : Suits(f, spk[s], Begun) => LeftOver(f, Begun)
      BY <3>1 DEF Suits, LeftOver
    <3>3. /\ \A i \in DOMAIN worker.out : Speaks(worker.out[i]) => LeftOver(worker.out[i], Begun)
          /\ JobNow => LeftOver(Pcm(worker.job), Begun)
          /\ NoneAsked
      BY <3>1, <3>2 DEF Pipeline, Own, NoneAsked
    <3>4. QED
      BY <3>3, <1>a DEF Clean, Speaks, JobNow, Asks, NoneAsked
  <2>2. CASE IsReader(x) \/ ~IsReader(spk[s])
    <3>1. Readers' = {} => Readers = {}
      BY <1>1, <2>2 DEF Readers, IsReader
    <3>2. QED
      BY <3>1, <1>a DEF Clean, Pipeline, Speaks, JobNow, Asks, NoneAsked
  <2>3. QED
    BY <2>1, <2>2
<1>9. InTurn' /\ AskedOnce' /\ DoneWhole'
  BY DEF InTurn, AskedOnce, DoneWhole, Pipeline, Speaks, JobNow, Asks
<1>10. QED
  BY <1>3, <1>6, <1>7, <1>c, <1>8, <1>9 DEF Pipeline

\* Neither the tasks that read nor what is on its way is touched.
LEMMA PipelineSame ==
  ASSUME Pipeline, UNCHANGED <<gen, worker, spk, heard>>, gpt'.conn = gpt.conn
  PROVE  Pipeline'
<1>1. Begun' = Begun
  BY DEF Begun
<1>2. QED
  BY <1>1 DEF Pipeline, OneReader, InGpt, Connected, Own, Ordered, Clean, InTurn, AskedOnce,
     DoneWhole, Readers, IsReader, Speaks, JobNow, Asks, NoneAsked

\* The worker is disowned and killed; who read it reads it to its end or leaves.
LEMMA PipelineKilled ==
  ASSUME Types, Pipeline, UNCHANGED <<gen, heard>>, worker' = [worker EXCEPT !.alive = FALSE],
         \A t \in Speakers : InGpt(t)' => InGpt(t),
         \A t \in Speakers : IsReader(spk[t])' => IsReader(spk[t]) /\ spk'[t] = spk[t]
  PROVE  Pipeline'
<1>1. /\ ~worker'.alive /\ worker'.in = worker.in /\ worker'.out = worker.out
      /\ worker'.job = worker.job
  BY DEF Types, WorkerT
<1>2. OneReader' /\ Connected' /\ Clean'
  BY <1>1 DEF OneReader, Connected, Clean, Pipeline
<1>3. Begun' = Begun /\ \A t \in Readers' : t \in Readers /\ spk'[t] = spk[t]
  BY DEF Begun, Readers
<1>4. Own' /\ Ordered'
  BY <1>1, <1>3 DEF Own, Ordered, Pipeline, Speaks, JobNow, Asks
<1>5. InTurn' /\ AskedOnce' /\ DoneWhole'
  BY <1>1 DEF InTurn, AskedOnce, DoneWhole, Pipeline, Speaks, JobNow, Asks
<1>6. QED
  BY <1>2, <1>4, <1>5 DEF Pipeline

\* A sentence goes on, restarts with the system voice, or ends; nothing is heard.
LEMMA SaidStep ==
  ASSUME Types, Said, NEW s \in Speakers, spk[s].at # "idle", NEW x, Becomes(s, x),
         UNCHANGED <<gen, asked, heard, whole>>,
         \/ x.at = "idle"
         \/ /\ x.req = spk[s].req /\ x.voice \in {"gpt", "av"}
            /\ x.voice = "av" => NoGpt(x.req)
            /\ x.voice = "gpt" => spk[s].voice = "gpt"
            /\ x.voice = "gpt" /\ x.at \in {"lock", "launch"} => heard[x.req] = <<>> /\ x.seq = 0
            /\ x.at \in {"launch", "retire"} => x.voice = "gpt"
            /\ IsReader(x) => Len(heard[x.req]) = x.seq
  PROVE  Said'
<1>1. /\ spk'[s] = x /\ \A t \in Speakers : t # s => spk'[t] = spk[t]
  BY SpkStep
<1>2. \A r : Pure(r)' = Pure(r) /\ NoGpt(r)' = NoGpt(r)
  BY DEF Pure, NoGpt
<1>3. ASSUME NEW t \in Speakers, spk'[t].at # "idle"
      PROVE  Stands(spk[t])'
  <2>1. CASE t = s
    <3>1. Stands(spk[s])
      BY DEF Said
    <3>2. QED
      BY <1>1, <1>2, <1>3, <2>1, <3>1 DEF Stands, IsReader
  <2>2. CASE t # s
    <3>1. Stands(spk[t]) /\ spk'[t] = spk[t]
      BY <1>1, <1>3, <2>2 DEF Said
    <3>2. QED
      BY <1>2, <3>1 DEF Stands, IsReader
  <2>3. QED
    BY <2>1, <2>2
<1>4. \A t, u \in Speakers :
         t # u /\ spk'[t].at # "idle" /\ spk'[u].at # "idle" => spk'[t].req # spk'[u].req
  BY <1>1 DEF Said
<1>5. QED
  BY <1>2, <1>3, <1>4 DEF Said

LEMMA SaidSame ==
  ASSUME Said, UNCHANGED <<gen, asked, spk, heard, whole>>
  PROVE  Said'
BY DEF Said, Stands, IsReader, Pure, NoGpt

LEMMA PastStep ==
  ASSUME Types, Past, NEW s \in Speakers, NEW x, Becomes(s, x), x.gen <= gen,
         UNCHANGED <<gen, fence, worker>>, gpt'.cancelled \subseteq gpt.cancelled
  PROVE  Past'
BY SpkStep DEF Past
-----------------------------------------------------------------------------
(* What the parts of an action do.                                         *)

InAvFor(x, g, r) == x.voice = "av" /\ x.at \in {"lock", "reading"} /\ x.gen = g /\ x.req = r

LEMMA AvStartsDoes ==
  ASSUME Types, NEW s \in Speakers, NEW g \in Nat, NEW r \in Nat, AvStarts(s, g, r)
  PROVE  /\ \E x : Becomes(s, x) /\ InAvFor(x, g, r)
         /\ av' \in AvT /\ synth' \in SynthT
<1>1. av' \in AvT
  BY DEF AvStarts, Types, AvT
<1>2. synth' \in SynthT
  <2>1. synth \in SynthT /\ [req |-> r, next |-> 1] \in [req : Nat, next : Nat]
    BY DEF Types
  <2>2. Append(synth.utterances, [req |-> r, next |-> 1]) \in Seq([req : Nat, next : Nat])
    BY <2>1 DEF SynthT
  <2>3. QED
    BY <2>1, <2>2 DEF AvStarts, Utters, SynthT
<1> DEFINE x == [at |-> "reading", gen |-> g, req |-> r, voice |-> "av", seq |-> 0]
<1>3. x \in SpkT /\ InAvFor(x, g, r)
  BY DEF SpkT, Points, InAvFor
<1>4. spk' = [spk EXCEPT ![s] = x]
  BY DEF AvStarts
<1>5. Becomes(s, x)
  BY <1>3, <1>4 DEF Becomes
<1> HIDE DEF x
<1>6. QED
  BY <1>1, <1>2, <1>3, <1>5

LEMMA EntersAvDoes ==
  ASSUME Types, NEW s \in Speakers, NEW g \in Nat, NEW r \in Nat, EntersAv(s, g, r)
  PROVE  /\ \E x : Becomes(s, x) /\ InAvFor(x, g, r)
         /\ av' \in AvT /\ synth' \in SynthT
<1>1. CASE AvStarts(s, g, r)
  BY <1>1, AvStartsDoes
<1>2. CASE Queues(s, g, r, "av") /\ UNCHANGED <<av, synth>>
  <2> DEFINE x == [at |-> "lock", gen |-> g, req |-> r, voice |-> "av", seq |-> 0]
  <2>1. x \in SpkT /\ InAvFor(x, g, r)
    BY DEF SpkT, Points, InAvFor
  <2>2. spk' = [spk EXCEPT ![s] = x]
    BY <1>2 DEF Queues
  <2>3. Becomes(s, x)
    BY <2>1, <2>2 DEF Becomes
  <2> HIDE DEF x
  <2>4. QED
    BY <1>2, <2>1, <2>3 DEF Types
<1>3. QED
  BY <1>1, <1>2 DEF EntersAv

\* The sentence is over, or goes to the system voice of which nothing was heard.
Leaves(s) == \E x :
  /\ Becomes(s, x)
  /\ x = Resting \/ (InAvFor(x, spk[s].gen, spk[s].req) /\ heard[x.req] = <<>>)

LEMMA EndsLeaves ==
  ASSUME NEW s \in Speakers, Ends(s)
  PROVE  Leaves(s)
BY DEF Ends, Leaves, Becomes, Resting, SpkT, Points

LEMMA GptRaisesDoes ==
  ASSUME Types, NEW s \in Speakers, NEW code, GptRaises(s, spk[s].gen, spk[s].req, code)
  PROVE  Leaves(s) /\ av' \in AvT /\ synth' \in SynthT
<1>0. spk[s].gen \in Nat /\ spk[s].req \in Nat
  BY DEF Types, SpkT
<1>1. CASE heard[spk[s].req] = <<>> /\ EntersAv(s, spk[s].gen, spk[s].req)
  BY <1>0, <1>1, EntersAvDoes DEF Leaves, InAvFor
<1>2. CASE Ends(s) /\ UNCHANGED <<av, synth>>
  BY <1>2, EndsLeaves DEF Types
<1>3. QED
  BY <1>1, <1>2 DEF GptRaises, MayFallBack

\* A task that read nothing of the current generation leaves the private voice.
LEMMA LeavesKeep ==
  ASSUME Types, Past, Pipeline, Said, NEW s \in Speakers, spk[s].at # "idle",
         ~IsReader(spk[s]), Leaves(s),
         UNCHANGED <<gen, asked, fence, heard, whole, worker>>,
         gpt'.conn = gpt.conn, gpt'.cancelled \subseteq gpt.cancelled
  PROVE  spk' \in [Speakers -> SpkT] /\ Past' /\ Pipeline' /\ Said'
<1>1. PICK x : /\ Becomes(s, x)
               /\ x = Resting \/ (InAvFor(x, spk[s].gen, spk[s].req) /\ heard[x.req] = <<>>)
  BY DEF Leaves
<1>2. /\ x.voice \in {"none", "av"} /\ x.gen <= gen /\ x.at \notin {"launch", "retire"}
      /\ x.at = "idle" \/ (x.req = spk[s].req /\ x.voice = "av" /\ NoGpt(x.req))
  BY <1>1 DEF Resting, InAvFor, NoGpt, Types, Past
<1>3. ~IsReader(x)
  BY <1>2 DEF IsReader
<1>4. Pipeline'
  BY <1>1, <1>2, <1>3, PipelineQuiet DEF Begun
<1>5. Said'
  BY <1>1, <1>2, <1>3, SaidStep
<1>6. QED
  BY <1>1, <1>2, <1>4, <1>5, SpkStep, PastStep

\* A sentence is sent to a live worker that nobody reads.
LEMMA PipelineAsked ==
  ASSUME Types, Past, Pipeline, NEW s \in Speakers, NEW x, Becomes(s, x), x.gen <= gen,
         x.at = "reading", x.voice = "gpt", x.seq = 0, heard[x.req] = <<>>,
         GptFree, worker.alive, gpt'.conn = gpt.conn, UNCHANGED <<gen, heard>>,
         worker' = [worker EXCEPT !.in = Append(@, Command("synthesize", x.gen, x.req))]
  PROVE  Pipeline' /\ worker' \in WorkerT
<1> DEFINE c == Command("synthesize", x.gen, x.req)
<1>0. worker \in WorkerT /\ worker.in \in Seq(CmdT) /\ c \in CmdT
  BY DEF Types, WorkerT, Command, CmdT, Becomes, SpkT
<1>1. /\ spk'[s] = x /\ \A t \in Speakers : t # s => spk'[t] = spk[t]
  BY SpkStep
<1>2. /\ worker'.in = Append(worker.in, c) /\ worker'.out = worker.out
      /\ worker'.job = worker.job /\ worker'.alive = worker.alive /\ worker'.n = worker.n
      /\ worker' \in WorkerT
  <2>1. Append(worker.in, c) \in Seq(CmdT)
    BY <1>0
  <2>2. QED
    BY <1>0, <2>1 DEF WorkerT
<1>3. Readers = {}
  BY DEF GptFree, Readers, IsReader, InGpt
<1>a. Begun' = Begun /\ x.req \notin Begun
  BY DEF Begun
<1>4. /\ \A i \in DOMAIN worker.out : Speaks(worker.out[i]) => LeftOver(worker.out[i], Begun)
      /\ JobNow => LeftOver(Pcm(worker.job), Begun)
      /\ NoneAsked
  BY <1>3 DEF Pipeline, Clean
<1>b. \A f : LeftOver(f, Begun) => f.req # x.req
  BY <1>a DEF LeftOver
<1>5. /\ \A i \in DOMAIN worker'.out : Speaks(worker'.out[i]) =>
           Speaks(worker.out[i]) /\ LeftOver(worker'.out[i], Begun') /\ worker'.out[i].req # x.req
      /\ JobNow' => LeftOver(Pcm(worker'.job), Begun') /\ worker'.job.req # x.req
  BY <1>2, <1>4, <1>a, <1>b DEF JobNow, Pcm
<1>6. \A i \in DOMAIN worker'.in : Asks(worker'.in[i]) => i = Len(worker.in) + 1 /\ worker'.in[i] = c
  <2>1. ASSUME NEW i \in DOMAIN worker'.in, Asks(worker'.in[i]), i # Len(worker.in) + 1
        PROVE  FALSE
    <3>1. i \in DOMAIN worker.in /\ worker'.in[i] = worker.in[i]
      BY <1>0, <1>2, <2>1
    <3>2. QED
      BY <1>4, <2>1, <3>1 DEF NoneAsked
  <2>2. worker'.in[Len(worker.in) + 1] = c
    BY <1>0, <1>2
  <2>3. QED
    BY <2>1, <2>2
<1>7. Readers' \subseteq {s}
  BY <1>1, <1>3 DEF Readers, IsReader
<1>8. c.gen = x.gen /\ c.req = x.req /\ c.kind = "synthesize"
  BY DEF Command
<1> HIDE DEF c
<1>9. OneReader'
  BY <1>1 DEF OneReader, InGpt, GptFree
<1>10. Connected'
  BY <1>2 DEF Connected, Pipeline
<1>11. Own'
  <2>1. \A f : LeftOver(f, Begun') /\ f.req # x.req => Suits(f, x, Begun')
    BY DEF Suits
  <2>2. JobNow' => Suits(Pcm(worker'.job), x, Begun')
    BY <1>5, <2>1 DEF Pcm
  <2>3. QED
    BY <1>1, <1>5, <1>6, <1>7, <1>8, <2>1, <2>2 DEF Own, Speaks, Asks
<1>c. Ordered'
  BY <1>1, <1>5, <1>7 DEF Ordered, Speaks
<1>12. Clean'
  <2>1. ASSUME Readers' = {}, NEW i \in DOMAIN worker'.in, Asks(worker'.in[i])
        PROVE  FALSE
    <3>1. c.gen = gen'
      BY <1>6, <2>1 DEF Asks
    <3>2. s \in Readers'
      BY <1>1, <1>8, <3>1 DEF Readers, IsReader
    <3>3. QED
      BY <2>1, <3>2
  <2>2. Readers' = {} => NoneAsked'
    BY <2>1 DEF NoneAsked, Asks
  <2>3. QED
    BY <1>5, <2>2 DEF Clean, Speaks
<1>13. InTurn' /\ AskedOnce'
  <2>1. InTurn'
    BY <1>2 DEF Pipeline, InTurn, Speaks, JobNow
  <2>2. QED
    BY <1>5, <1>6, <1>8, <2>1 DEF AskedOnce, Speaks, Asks
<1>14. DoneWhole'
  BY <1>2 DEF DoneWhole, Pipeline
<1>15. QED
  BY <1>2, <1>9, <1>10, <1>11, <1>c, <1>12, <1>13, <1>14 DEF Pipeline

\* A sentence enters the private voice, or the breaker sends it to the other one.
LEMMA GptBeginsDoes ==
  ASSUME Types, Past, Pipeline, NEW s \in Speakers, NEW g \in Nat, NEW r \in Nat, g <= gen,
         GptFree, GptBegins(s, g, r), heard[r] = <<>>, UNCHANGED <<gen, fence, heard>>
  PROVE  /\ gpt' \in GptT /\ worker' \in WorkerT /\ av' \in AvT /\ synth' \in SynthT
         /\ Past' /\ Pipeline'
         /\ \E x : /\ Becomes(s, x) /\ x.gen = g /\ x.req = r /\ x.at # "idle"
                   /\ \/ x.voice = "av" /\ x.at \in {"lock", "reading"}
                      \/ x.voice = "gpt" /\ x.at \in {"launch", "reading"} /\ x.seq = 0
<1>0. gpt \in GptT /\ worker \in WorkerT /\ av \in AvT /\ synth \in SynthT
  BY DEF Types
<1>a. ~IsReader(spk[s]) /\ Begun' = Begun
  BY DEF GptFree, IsReader, InGpt, Begun
<1>1. CASE GptSends(s, g, r) /\ UNCHANGED <<av, synth>>
  <2> DEFINE x == [at |-> "reading", gen |-> g, req |-> r, voice |-> "gpt", seq |-> 0]
  <2>1. x \in SpkT
    BY DEF SpkT, Points
  <2>2. /\ spk' = [spk EXCEPT ![s] = x] /\ WorkerUp
        /\ gpt' = [gpt EXCEPT !.gen = g, !.cancelled = @ \ {g}]
        /\ worker' = [worker EXCEPT !.in = Append(@, Command("synthesize", g, r))]
    BY <1>1 DEF GptSends
  <2>3. Becomes(s, x)
    BY <2>1, <2>2 DEF Becomes
  <2>4. gpt' \in GptT /\ gpt'.conn = gpt.conn /\ gpt'.cancelled \subseteq gpt.cancelled
    BY <1>0, <2>2 DEF GptT
  <2>5. x.at = "reading" /\ x.voice = "gpt" /\ x.gen = g /\ x.req = r /\ x.seq = 0
    OBVIOUS
  <2> HIDE DEF x
  <2>6. Pipeline' /\ worker' \in WorkerT
    BY <2>2, <2>3, <2>4, <2>5, PipelineAsked DEF WorkerUp
  <2>7. Past'
    <3>1. worker.in \in Seq(CmdT) /\ Command("synthesize", g, r) \in CmdT
      BY <1>0 DEF WorkerT, Command, CmdT
    <3>2. \A i \in DOMAIN Append(worker.in, Command("synthesize", g, r)) :
             Append(worker.in, Command("synthesize", g, r))[i].gen <= gen
      BY <3>1 DEF Past, Command
    <3>3. worker'.in = Append(worker.in, Command("synthesize", g, r)) /\ worker'.out = worker.out
          /\ worker'.job = worker.job
      BY <1>0, <2>2 DEF WorkerT
    <3>4. \A t \in Speakers : spk'[t].gen <= gen
      BY <2>3, <2>5, SpkStep DEF Past
    <3>5. QED
      BY <2>4, <3>2, <3>3, <3>4 DEF Past
  <2>8. QED
    BY <1>0, <1>1, <2>3, <2>4, <2>5, <2>6, <2>7
<1>2. CASE GptLaunches(s, g, r) /\ UNCHANGED <<av, synth>>
  <2> DEFINE x == [at |-> "launch", gen |-> g, req |-> r, voice |-> "gpt", seq |-> 0]
  <2>1. x \in SpkT
    BY DEF SpkT, Points
  <2>2. /\ spk' = [spk EXCEPT ![s] = x] /\ gpt' = [gpt EXCEPT !.cancelled = @ \ {g}]
        /\ worker' = worker
    BY <1>2 DEF GptLaunches
  <2>3. Becomes(s, x)
    BY <2>1, <2>2 DEF Becomes
  <2>4. gpt' \in GptT /\ gpt'.conn = gpt.conn /\ gpt'.cancelled \subseteq gpt.cancelled
    BY <1>0, <2>2 DEF GptT
  <2>5. x.at = "launch" /\ x.voice = "gpt" /\ x.gen = g /\ x.req = r /\ x.seq = 0 /\ ~IsReader(x)
    BY DEF IsReader
  <2> HIDE DEF x
  <2>6. Pipeline' /\ Past'
    BY <1>a, <2>2, <2>3, <2>4, <2>5, PipelineQuiet, PastStep
  <2>7. QED
    BY <1>0, <1>2, <2>2, <2>3, <2>4, <2>5, <2>6
<1>3. CASE /\ gpt' = [gpt EXCEPT !.cancelled = @ \ {g}]
           /\ EntersAv(s, g, r) /\ UNCHANGED worker
  <2>1. gpt' \in GptT /\ gpt'.conn = gpt.conn /\ gpt'.cancelled \subseteq gpt.cancelled
    BY <1>0, <1>3 DEF GptT
  <2>2. PICK x : Becomes(s, x) /\ InAvFor(x, g, r)
    BY <1>3, EntersAvDoes
  <2>3. /\ x.voice = "av" /\ x.at \in {"lock", "reading"} /\ x.gen = g /\ x.req = r
        /\ x.at # "idle" /\ ~IsReader(x)
    BY <2>2 DEF InAvFor, IsReader
  <2>4. Pipeline' /\ Past'
    BY <1>3, <1>a, <2>1, <2>2, <2>3, PipelineQuiet, PastStep
  <2>5. QED
    BY <1>0, <1>3, <2>1, <2>2, <2>3, <2>4, EntersAvDoes
<1>4. QED
  BY <1>1, <1>2, <1>3 DEF GptBegins
-----------------------------------------------------------------------------
(* A sentence is asked for.                                                *)

LEMMA SpeakKeeps ==
  ASSUME IInv, NEW s \in Speakers, Speak(s)
  PROVE  IInv'
<1> DEFINE r == asked + 1
<1>0. Types /\ Past /\ Pipeline /\ Said /\ r \in Nat /\ gen \in Nat /\ r \in Requests
  BY SpeechAssumption DEF IInv, Types, Requests, Speak
<1>a. /\ r \in 1..r /\ r \notin 1..asked /\ 1..asked \subseteq 1..r
      /\ \A q \in Requests : q > r => q > asked
  BY <1>0 DEF Types, Requests
<1>1. /\ spk[s].at = "idle" /\ asked' = r /\ UNCHANGED <<gen, fence, heard, whole>>
      /\ ~IsReader(spk[s])
  BY DEF Speak, IsReader
<1>b. heard[r] = <<>> /\ Begun' = Begun
  BY <1>0, <1>1 DEF Said, Types, Begun
<1>2. /\ gpt' \in GptT /\ worker' \in WorkerT /\ av' \in AvT /\ synth' \in SynthT
      /\ Past' /\ Pipeline'
      /\ \E x : /\ Becomes(s, x) /\ x.gen = gen /\ x.req = r /\ x.at # "idle"
                /\ \/ x.voice = "av" /\ x.at \in {"lock", "reading"}
                   \/ x.voice = "gpt" /\ x.at \in {"lock", "launch", "reading"} /\ x.seq = 0
  <2>1. CASE GptFree /\ GptBegins(s, gen, r)
    <3>1. gen <= gen
      BY <1>0
    <3>2. QED
      BY <1>0, <1>1, <1>b, <2>1, <3>1, GptBeginsDoes
  <2>2. CASE Queues(s, gen, r, "gpt") /\ UNCHANGED <<gpt, worker, av, synth>>
    <3> DEFINE x == [at |-> "lock", gen |-> gen, req |-> r, voice |-> "gpt", seq |-> 0]
    <3>1. x \in SpkT /\ spk' = [spk EXCEPT ![s] = x]
      BY <1>0, <2>2 DEF SpkT, Points, Queues
    <3>2. Becomes(s, x)
      BY <3>1 DEF Becomes
    <3>3. /\ x.at = "lock" /\ x.voice = "gpt" /\ x.gen = gen /\ x.req = r /\ x.seq = 0
          /\ ~IsReader(x) /\ x.gen <= gen
      BY <1>0 DEF IsReader
    <3> HIDE DEF x
    <3>4. Pipeline' /\ Past'
      BY <1>0, <1>1, <1>b, <2>2, <3>2, <3>3, PipelineQuiet, PastStep
    <3>5. QED
      BY <1>0, <2>2, <3>2, <3>3, <3>4 DEF Types
  <2>3. CASE EntersAv(s, gen, r) /\ UNCHANGED <<gpt, worker>>
    <3>1. PICK x : Becomes(s, x) /\ InAvFor(x, gen, r)
      BY <1>0, <2>3, EntersAvDoes
    <3>2. /\ x.voice = "av" /\ x.at \in {"lock", "reading"} /\ x.gen = gen /\ x.req = r
          /\ x.at # "idle" /\ ~IsReader(x) /\ x.gen <= gen
      BY <1>0, <3>1 DEF InAvFor, IsReader
    <3>3. Pipeline' /\ Past'
      BY <1>0, <1>1, <1>b, <2>3, <3>1, <3>2, PipelineQuiet, PastStep
    <3>4. QED
      BY <1>0, <2>3, <3>1, <3>2, <3>3, EntersAvDoes DEF Types
  <2>4. QED
    BY <2>1, <2>2, <2>3 DEF Speak
<1>3. PICK x : /\ Becomes(s, x) /\ x.gen = gen /\ x.req = r /\ x.at # "idle"
               /\ \/ x.voice = "av" /\ x.at \in {"lock", "reading"}
                  \/ x.voice = "gpt" /\ x.at \in {"lock", "launch", "reading"} /\ x.seq = 0
  BY <1>2
<1>4. spk' \in [Speakers -> SpkT] /\ spk'[s] = x /\ \A t \in Speakers : t # s => spk'[t] = spk[t]
  BY <1>0, <1>3, SpkStep
<1>5. Types'
  BY <1>0, <1>1, <1>2, <1>4 DEF Types, Requests
<1>6. heard[r] = <<>> /\ r \notin whole /\ Pure(r) /\ NoGpt(r)
  <2>1. heard[r] = <<>> /\ r \notin whole
    BY <1>0 DEF Said, Types
  <2>2. QED
    BY <2>1 DEF Pure, NoGpt
<1> HIDE DEF r
<1>7. Said'
  <2>1. \A q : (Pure(q)' <=> Pure(q)) /\ (NoGpt(q)' <=> NoGpt(q))
    BY <1>1 DEF Pure, NoGpt
  <2>2. Stands(spk[s])'
    <3>1. /\ x.voice \in {"gpt", "av"} /\ x.req \in 1..asked' /\ x.req \notin whole'
          /\ NoGpt(x.req)' /\ Pure(x.req)' /\ heard'[x.req] = <<>>
      BY <1>1, <1>3, <1>6, <1>a, <2>1
    <3>2. IsReader(x)' => Len(heard'[x.req]) = x.seq
      BY <1>3, <3>1 DEF IsReader
    <3>3. (x.at \in {"launch", "retire"} => x.voice = "gpt") /\ (x.voice = "gpt" => x.seq = 0)
      BY <1>3
    <3>4. QED
      BY <1>4, <3>1, <3>2, <3>3 DEF Stands, IsReader
  <2>3. \A t \in Speakers : t # s /\ spk[t].at # "idle" => Stands(spk[t])' /\ spk[t].req # r
    <3>1. ASSUME NEW t \in Speakers, t # s, spk[t].at # "idle"
          PROVE  Stands(spk[t])' /\ spk[t].req # r
      <4>1. Stands(spk[t]) /\ spk'[t] = spk[t]
        BY <1>0, <1>4, <3>1 DEF Said
      <4>2. spk[t].req \in 1..asked' /\ spk[t].req # r
        BY <1>1, <1>a, <4>1 DEF Stands
      <4>3. QED
        BY <1>1, <2>1, <4>1, <4>2 DEF Stands, IsReader
    <3>2. QED
      BY <3>1
  <2>4. QED
    <3>1. \A q \in Requests : Pure(q)' \/ NoGpt(q)'
      BY <1>0, <2>1 DEF Said
    <3>2. \A t \in Speakers : spk'[t].at # "idle" => Stands(spk[t])'
      BY <1>4, <2>2, <2>3
    <3>3. \A t, u \in Speakers :
            t # u /\ spk'[t].at # "idle" /\ spk'[u].at # "idle" => spk'[t].req # spk'[u].req
      BY <1>0, <1>3, <1>4, <2>3 DEF Said
    <3>4. /\ \A q \in Requests : q > asked' => heard'[q] = <<>>
          /\ whole' \subseteq 1..asked'
      BY <1>0, <1>1, <1>a DEF Said
    <3>5. \A q \in whole' : NoGpt(q)' \/ Len(heard'[q]) = Chunks
      BY <1>0, <1>1, <2>1 DEF Said
    <3>6. QED
      BY <3>1, <3>2, <3>3, <3>4, <3>5 DEF Said
<1>8. QED
  BY <1>2, <1>5, <1>7 DEF IInv
-----------------------------------------------------------------------------
(* Steps of a task that take no frame.                                     *)

LEMMA GptLockKeeps ==
  ASSUME IInv, NEW s \in Speakers, GptLock(s)
  PROVE  IInv'
<1>0. Types /\ Past /\ Pipeline /\ Said /\ spk[s] \in SpkT
  BY DEF IInv, Types
<1>1. /\ spk[s].at = "lock" /\ spk[s].voice = "gpt" /\ GptFree
      /\ GptBegins(s, spk[s].gen, spk[s].req)
      /\ UNCHANGED <<gen, fence, asked, heard, whole>>
  BY DEF GptLock, Waiting
<1>2. spk[s].gen \in Nat /\ spk[s].req \in Nat /\ spk[s].gen <= gen
  BY <1>0 DEF SpkT, Past
<1>a. heard[spk[s].req] = <<>>
  BY <1>0, <1>1 DEF Said, Stands
<1>3. PICK x : /\ Becomes(s, x) /\ x.gen = spk[s].gen /\ x.req = spk[s].req /\ x.at # "idle"
               /\ \/ x.voice = "av" /\ x.at \in {"lock", "reading"}
                  \/ x.voice = "gpt" /\ x.at \in {"launch", "reading"} /\ x.seq = 0
  BY <1>0, <1>1, <1>2, <1>a, GptBeginsDoes
<1>4. heard[x.req] = <<>>
  BY <1>3, <1>a
<1>5. Len(heard[x.req]) = 0 /\ NoGpt(x.req)
  BY <1>4 DEF NoGpt
<1>6. Said'
  <2>1. /\ x.voice \in {"gpt", "av"} /\ (x.at \in {"launch", "retire"} => x.voice = "gpt")
        /\ (x.voice = "gpt" => x.seq = 0 /\ spk[s].voice = "gpt")
    BY <1>1, <1>3
  <2>2. IsReader(x) => Len(heard[x.req]) = x.seq
    BY <1>5, <2>1 DEF IsReader
  <2>3. QED
    BY <1>0, <1>1, <1>3, <1>4, <1>5, <2>1, <2>2, SaidStep
<1>7. /\ gpt' \in GptT /\ worker' \in WorkerT /\ av' \in AvT /\ synth' \in SynthT
      /\ Past' /\ Pipeline'
  BY <1>0, <1>1, <1>2, <1>a, GptBeginsDoes
<1>8. spk' \in [Speakers -> SpkT]
  BY <1>0, <1>3, SpkStep
<1>9. QED
  BY <1>0, <1>1, <1>6, <1>7, <1>8 DEF IInv, Types

LEMMA AvLockKeeps ==
  ASSUME IInv, NEW s \in Speakers, AvLock(s)
  PROVE  IInv'
<1>0. Types /\ Past /\ Pipeline /\ Said /\ spk[s] \in SpkT
  BY DEF IInv, Types
<1>1. /\ spk[s].at = "lock" /\ spk[s].voice = "av"
      /\ AvStarts(s, spk[s].gen, spk[s].req)
      /\ UNCHANGED <<gen, fence, asked, gpt, worker, heard, whole>>
  BY DEF AvLock, Waiting
<1>2. spk[s].gen \in Nat /\ spk[s].req \in Nat /\ spk[s].gen <= gen
  BY <1>0 DEF SpkT, Past
<1>3. PICK x : Becomes(s, x) /\ InAvFor(x, spk[s].gen, spk[s].req)
  BY <1>0, <1>1, <1>2, AvStartsDoes
<1>4. /\ x.voice = "av" /\ x.gen <= gen /\ x.req = spk[s].req /\ ~IsReader(x) /\ ~IsReader(spk[s])
      /\ x.at \notin {"launch", "retire"}
  BY <1>1, <1>2, <1>3 DEF InAvFor, IsReader
<1>5. NoGpt(x.req)
  BY <1>0, <1>1, <1>4 DEF Said, Stands
<1>6. Said'
  BY <1>0, <1>1, <1>3, <1>4, <1>5, SaidStep
<1>7. Past' /\ Pipeline'
  BY <1>0, <1>1, <1>3, <1>4, PipelineQuiet, PastStep DEF Begun
<1>8. av' \in AvT /\ synth' \in SynthT /\ spk' \in [Speakers -> SpkT]
  BY <1>0, <1>1, <1>2, <1>3, AvStartsDoes, SpkStep
<1>9. QED
  BY <1>0, <1>1, <1>6, <1>7, <1>8 DEF IInv, Types

\* A new worker has nothing but this sentence.
LEMMA LaunchReturnsKeeps ==
  ASSUME IInv, NEW s \in Speakers, LaunchReturns(s)
  PROVE  IInv'
<1> DEFINE x == [spk[s] EXCEPT !.at = "reading"]
           c == Command("synthesize", spk[s].gen, spk[s].req)
<1>0. Types /\ Past /\ Pipeline /\ Said /\ spk[s] \in SpkT /\ gpt \in GptT /\ worker \in WorkerT
  BY DEF IInv, Types
<1>1. /\ spk[s].at = "launch"
      /\ gpt' = [gpt EXCEPT !.conn = worker.n + 1, !.restart = FALSE, !.gen = spk[s].gen]
      /\ worker' = [NoWorker EXCEPT !.n = worker.n + 1, !.alive = TRUE, !.in = <<c>>]
      /\ spk' = [spk EXCEPT ![s] = x]
      /\ UNCHANGED <<gen, fence, asked, av, synth, heard, whole>>
  BY DEF LaunchReturns
<1>2. /\ x \in SpkT /\ x.at = "reading" /\ x.gen = spk[s].gen /\ x.req = spk[s].req
      /\ x.voice = spk[s].voice /\ x.seq = spk[s].seq
  BY <1>0 DEF SpkT, Points
<1>3. c \in CmdT /\ c.gen = spk[s].gen /\ c.req = spk[s].req
  BY <1>0 DEF CmdT, Command, SpkT
<1> HIDE DEF x, c
<1>4. Becomes(s, x)
  BY <1>1, <1>2 DEF Becomes
<1>5. /\ spk' \in [Speakers -> SpkT] /\ spk'[s] = x
      /\ \A t \in Speakers : t # s => spk'[t] = spk[t]
  BY <1>0, <1>4, SpkStep
<1>6. gpt' \in GptT /\ gpt'.conn = worker.n + 1 /\ gpt'.cancelled = gpt.cancelled
  <2>1. worker.n + 1 \in Nat /\ spk[s].gen \in Nat
    BY <1>0 DEF WorkerT, SpkT
  <2>2. QED
    BY <1>0, <1>1, <2>1 DEF GptT
<1>7. /\ worker'.n = worker.n + 1 /\ worker'.in = <<c>> /\ worker'.out = <<>>
      /\ worker'.job = NoJob /\ worker' \in WorkerT
  <2>1. worker.n + 1 \in Nat /\ <<c>> \in Seq(CmdT) /\ <<>> \in Seq(FrameT) /\ NoJob \in JobT
    BY <1>0, <1>3 DEF WorkerT, NoJob, JobT
  <2>2. QED
    BY <1>1, <2>1 DEF NoWorker, WorkerT
<1>8. Types'
  BY <1>0, <1>1, <1>5, <1>6, <1>7 DEF Types
<1>9. Past'
  BY <1>0, <1>1, <1>2, <1>3, <1>5, <1>6, <1>7 DEF Past, NoJob, Types
<1>10. spk[s].voice = "gpt" /\ heard[spk[s].req] = <<>> /\ spk[s].seq = 0
  <2>1. Stands(spk[s])
    BY <1>0, <1>1 DEF Said
  <2>2. QED
    BY <1>1, <2>1 DEF Stands
<1>11. Said'
  <2>1. Len(heard[x.req]) = x.seq
    BY <1>2, <1>10
  <2>2. QED
    BY <1>0, <1>1, <1>2, <1>4, <1>10, <2>1, SaidStep DEF NoGpt
<1>12. Pipeline'
  <2>1. InGpt(s)
    BY <1>1, <1>10 DEF InGpt
  <2>2. OneReader'
    BY <1>0, <1>5, <2>1 DEF Pipeline, OneReader, InGpt
  <2>3. Connected'
    BY <1>0, <1>6, <1>7 DEF Connected, WorkerT
  <2>4. ~JobNow'
    BY <1>0, <1>1, <1>7 DEF JobNow, NoJob, Types
  <2>5. \A t \in Readers' : t = s
    BY <1>0, <1>1, <1>5, <2>1 DEF Readers, IsReader, Pipeline, OneReader, InGpt
  <2>6. Own' /\ Ordered'
    BY <1>2, <1>3, <1>5, <1>7, <1>10, <2>4, <2>5 DEF Own, Ordered
  <2>7. Clean'
    <3>1. CASE x.gen = gen
      BY <1>1, <1>2, <1>5, <1>10, <3>1 DEF Clean, Readers, IsReader
    <3>2. CASE x.gen # gen
      BY <1>1, <1>2, <1>3, <1>7, <2>4, <3>2 DEF Clean, NoneAsked, Asks
    <3>3. QED
      BY <3>1, <3>2
  <2>8. InTurn' /\ AskedOnce' /\ DoneWhole'
    BY <1>7, <2>4 DEF InTurn, AskedOnce, DoneWhole
  <2>9. QED
    BY <2>2, <2>3, <2>6, <2>7, <2>8 DEF Pipeline
<1>13. QED
  BY <1>8, <1>9, <1>11, <1>12 DEF IInv

LEMMA RecordsTyped ==
  ASSUME gpt \in GptT, NEW b \in {RecordFailure(gpt), RecordRebuildFailure(gpt), RecordSuccess(gpt)}
  PROVE  b \in GptT /\ b.conn = gpt.conn /\ b.cancelled = gpt.cancelled
<1>0. Threshold \in Nat
  BY SpeechAssumption
<1>a. gpt.failures + 1 \in Nat
  BY DEF GptT
<1>1. CASE b = RecordFailure(gpt)
  <2>1. CASE gpt.open
    BY <1>1, <2>1 DEF RecordFailure
  <2>2. CASE ~gpt.open
    <3>1. (gpt.failures + 1 >= Threshold) \in BOOLEAN
      OBVIOUS
    <3>2. b = [gpt EXCEPT !.failures = @ + 1, !.open = gpt.failures + 1 >= Threshold]
      BY <1>1, <2>2 DEF RecordFailure
    <3>3. QED
      BY <1>a, <3>1, <3>2 DEF GptT
  <2>3. QED
    BY <2>1, <2>2
<1>2. CASE b = RecordRebuildFailure(gpt)
  <2> DEFINE n == IF gpt.failures + 1 > Threshold THEN gpt.failures + 1 ELSE Threshold
  <2>1. b = [gpt EXCEPT !.failures = n, !.open = TRUE]
    BY <1>2 DEF RecordRebuildFailure
  <2>2. n \in Nat
    BY <1>0, <1>a
  <2> HIDE DEF n
  <2>3. QED
    BY <2>1, <2>2 DEF GptT
<1>3. CASE b = RecordSuccess(gpt)
  BY <1>3 DEF GptT, RecordSuccess
<1>4. QED
  BY <1>1, <1>2, <1>3

LEMMA LaunchFailsKeeps ==
  ASSUME IInv, NEW s \in Speakers, LaunchFails(s)
  PROVE  IInv'
<1>0. Types /\ Past /\ Pipeline /\ Said /\ gpt \in GptT
  BY DEF IInv, Types
<1>1. /\ spk[s].at = "launch" /\ ~IsReader(spk[s])
      /\ gpt' \in {RecordFailure(gpt), RecordRebuildFailure(gpt), RecordSuccess(gpt)}
      /\ GptRaises(s, spk[s].gen, spk[s].req, "backend_unavailable")
      /\ UNCHANGED <<gen, fence, asked, worker, heard, whole>>
  BY DEF LaunchFails, IsReader
<1>2. gpt' \in GptT /\ gpt'.conn = gpt.conn /\ gpt'.cancelled = gpt.cancelled
  BY <1>0, <1>1, RecordsTyped
<1>3. Leaves(s) /\ av' \in AvT /\ synth' \in SynthT
  BY <1>0, <1>1, GptRaisesDoes
<1>4. spk' \in [Speakers -> SpkT] /\ Past' /\ Pipeline' /\ Said'
  BY <1>0, <1>1, <1>2, <1>3, LeavesKeep
<1>5. QED
  BY <1>0, <1>1, <1>2, <1>3, <1>4 DEF IInv, Types

LEMMA RetireEndsKeeps ==
  ASSUME IInv, NEW s \in Speakers, RetireEnds(s)
  PROVE  IInv'
<1>0. Types /\ Past /\ Pipeline /\ Said /\ gpt \in GptT
  BY DEF IInv, Types
<1>1. /\ spk[s].at = "retire" /\ ~IsReader(spk[s])
      /\ gpt' = [gpt EXCEPT !.gen = 0]
      /\ GptRaises(s, spk[s].gen, spk[s].req, "failed")
      /\ UNCHANGED <<gen, fence, asked, worker, heard, whole>>
  BY DEF RetireEnds, IsReader
<1>2. gpt' \in GptT /\ gpt'.conn = gpt.conn /\ gpt'.cancelled = gpt.cancelled
  BY <1>0, <1>1 DEF GptT
<1>3. Leaves(s) /\ av' \in AvT /\ synth' \in SynthT
  BY <1>0, <1>1, GptRaisesDoes
<1>4. spk' \in [Speakers -> SpkT] /\ Past' /\ Pipeline' /\ Said'
  BY <1>0, <1>1, <1>2, <1>3, LeavesKeep
<1>5. QED
  BY <1>0, <1>1, <1>2, <1>3, <1>4 DEF IInv, Types
-----------------------------------------------------------------------------
(* A task takes a frame.                                                   *)

LEMMA AppendIsNotEmpty ==
  ASSUME NEW S, NEW q \in Seq(S), NEW e \in S
  PROVE  Append(q, e) # <<>>
<1>1. Len(Append(q, e)) = Len(q) + 1 /\ Len(q) \in Nat
  OBVIOUS
<1>2. QED
  BY <1>1

LEMMA TailAt ==
  ASSUME NEW S, NEW q \in Seq(S), q # <<>>
  PROVE  /\ Tail(q) \in Seq(S) /\ Head(q) \in S /\ 1 \in DOMAIN q /\ q[1] = Head(q)
         /\ \A i \in DOMAIN Tail(q) : i + 1 \in DOMAIN q /\ i + 1 > 1 /\ Tail(q)[i] = q[i + 1]
         /\ \A i, j \in DOMAIN Tail(q) : i + 1 = j + 1 => i = j
         /\ \A i, j \in DOMAIN Tail(q) : i > j => i + 1 > j + 1
OBVIOUS

\* The reader stays, or the frame was the last word of its sentence.
LEMMA PipelineTaken ==
  ASSUME Types, Past, Pipeline, NEW s \in Speakers, NEW x, Becomes(s, x),
         worker.out # <<>>, worker' = Taken, UNCHANGED gen, gpt'.conn = gpt.conn,
         InGpt(s), x.gen <= gen, Begun \subseteq Begun',
         IsReader(spk[s]) =>
           Speaks(Head(worker.out)) /\ Head(worker.out).req = spk[s].req,
         IsReader(x) => /\ IsReader(spk[s]) /\ x.req = spk[s].req /\ x.seq > 0
                        /\ Head(worker.out).kind = "pcm",
         IsReader(spk[s]) /\ ~IsReader(x) => Head(worker.out).kind # "pcm",
         UNCHANGED fence, gpt'.cancelled \subseteq gpt.cancelled
  PROVE  Pipeline' /\ worker' \in WorkerT /\ Past'
<1>0. worker \in WorkerT /\ worker.out \in Seq(FrameT)
  BY DEF Types, WorkerT
<1>1. /\ spk'[s] = x /\ \A t \in Speakers : t # s => spk'[t] = spk[t]
  BY SpkStep
<1>2. /\ Tail(worker.out) \in Seq(FrameT)
      /\ 1 \in DOMAIN worker.out /\ worker.out[1] = Head(worker.out)
      /\ \A i \in DOMAIN Tail(worker.out) :
           i + 1 \in DOMAIN worker.out /\ i + 1 > 1 /\ Tail(worker.out)[i] = worker.out[i + 1]
      /\ \A i, j \in DOMAIN Tail(worker.out) : i > j => i + 1 > j + 1
  BY <1>0, TailAt
<1>3. /\ worker'.in = worker.in /\ worker'.out = Tail(worker.out) /\ worker'.job = worker.job
      /\ worker'.alive = worker.alive /\ worker'.n = worker.n /\ worker' \in WorkerT
  BY <1>0, <1>2 DEF WorkerT, Taken
<1>4. /\ \A i \in DOMAIN worker'.out :
           i + 1 \in DOMAIN worker.out /\ i + 1 > 1 /\ worker'.out[i] = worker.out[i + 1]
      /\ \A i, j \in DOMAIN worker'.out : i > j => i + 1 > j + 1
  BY <1>2, <1>3
<1>5. \A t \in Speakers : InGpt(t)' => InGpt(t)
  BY <1>1 DEF InGpt
<1>6. OneReader' /\ Connected'
  BY <1>3, <1>5 DEF OneReader, Connected, Pipeline
<1>7. Readers' \subseteq Readers
  BY <1>1 DEF Readers, IsReader
<1>a. \A t \in Readers' : t = s
  BY <1>5, <1>7 DEF OneReader, Pipeline, Readers, IsReader, InGpt
<1>b. UNCHANGED <<JobNow, NoneAsked>> /\ (\A f : Speaks(f)' = Speaks(f))
      /\ (\A c : Asks(c)' = Asks(c))
  BY <1>3 DEF JobNow, NoneAsked, Speaks, Asks
\* What follows a frame of the reader's sentence.
<1>c. ASSUME IsReader(spk[s])
      PROVE  /\ \A i \in DOMAIN worker'.out : Speaks(worker'.out[i]) =>
                  /\ worker'.out[i].req = spk[s].req
                  /\ Head(worker.out).kind = "pcm" /\ (worker'.out[i].kind = "pcm" => worker'.out[i].seq > 0)
             /\ JobNow => /\ worker.job.req = spk[s].req
                          /\ Head(worker.out).kind = "pcm" /\ worker.job.next > 0
             /\ NoneAsked
  <2>1. s \in Readers /\ Speaks(worker.out[1]) /\ worker.out[1].req = spk[s].req
    BY <1>2, <1>c DEF Readers
  <2>2. \A j \in DOMAIN worker.out : j > 1 /\ Speaks(worker.out[j]) => worker.out[j].req = spk[s].req
    BY <1>2, <2>1 DEF Pipeline, Ordered
  <2>3. \A j \in DOMAIN worker.out : j > 1 /\ Speaks(worker.out[j]) =>
          worker.out[1].kind = "pcm" /\ (worker.out[j].kind = "pcm" => worker.out[j].seq > 0)
    BY <1>2, <2>1, <2>2 DEF Pipeline, InTurn
  <2>4. JobNow => /\ worker.job.req = spk[s].req
                  /\ worker.out[1].kind = "pcm" /\ worker.job.next > 0
    BY <1>2, <2>1 DEF Pipeline, Ordered, InTurn
  <2>5. NoneAsked
    BY <1>2, <2>1 DEF Pipeline, Own, AskedOnce, NoneAsked
  <2>6. QED
    BY <1>2, <1>4, <2>2, <2>3, <2>4, <2>5
<1>8. Own'
  <2>1. ASSUME s \in Readers'
        PROVE  /\ \A i \in DOMAIN worker'.out : Speaks(worker'.out[i]) => Suits(worker'.out[i], x, Begun')
               /\ JobNow => Suits(Pcm(worker.job), x, Begun')
               /\ NoneAsked /\ x.seq > 0
    <3>1. IsReader(x) /\ IsReader(spk[s]) /\ x.req = spk[s].req /\ x.seq > 0
      BY <1>1, <1>7, <2>1 DEF Readers, IsReader
    <3>2. QED
      BY <1>c, <3>1 DEF Suits, Pcm
  <2>2. QED
    BY <1>1, <1>3, <1>a, <1>b, <2>1 DEF Own, NoneAsked
<1>d. Ordered'
  <2>1. s \in Readers' => IsReader(spk[s]) /\ spk'[s].req = spk[s].req
    BY <1>1 DEF Readers, IsReader
  <2>2. QED
    BY <1>3, <1>a, <1>b, <1>c, <2>1 DEF Ordered
<1>9. Clean'
  <2>1. CASE IsReader(spk[s]) /\ ~IsReader(x)
    <3>1. ~JobNow /\ NoneAsked /\ \A i \in DOMAIN worker'.out : ~Speaks(worker'.out[i])
      BY <1>c, <2>1
    <3>2. QED
      BY <1>b, <3>1 DEF Clean
  <2>2. CASE IsReader(x) \/ ~IsReader(spk[s])
    <3>1. Readers' = {} => Readers = {}
      BY <1>1, <2>2 DEF Readers, IsReader
    <3>2. \A f : LeftOver(f, Begun) => LeftOver(f, Begun')
      BY DEF LeftOver
    <3>3. QED
      BY <1>3, <1>4, <1>b, <3>1, <3>2 DEF Clean, Pipeline
  <2>3. QED
    BY <2>1, <2>2
<1>10. InTurn'
  <2>1. ASSUME NEW i \in DOMAIN worker'.out, Speaks(worker'.out[i])
        PROVE  /\ \A j \in DOMAIN worker'.out :
                    j > i /\ Speaks(worker'.out[j]) /\ worker'.out[j].req = worker'.out[i].req =>
                      worker'.out[i].kind = "pcm" /\ (worker'.out[j].kind = "pcm" => worker'.out[j].seq > 0)
               /\ JobNow /\ worker.job.req = worker'.out[i].req =>
                    worker'.out[i].kind = "pcm" /\ worker.job.next > 0
    <3>1. i + 1 \in DOMAIN worker.out /\ worker'.out[i] = worker.out[i + 1]
      BY <1>4
    <3>2. \A j \in DOMAIN worker'.out :
            j > i => j + 1 \in DOMAIN worker.out /\ j + 1 > i + 1 /\ worker'.out[j] = worker.out[j + 1]
      BY <1>4
    <3>3. QED
      BY <2>1, <3>1, <3>2 DEF Pipeline, InTurn
  <2>2. QED
    BY <1>3, <1>b, <2>1 DEF InTurn
<1>11. AskedOnce' /\ DoneWhole'
  BY <1>3, <1>4, <1>b DEF AskedOnce, DoneWhole, Pipeline
<1>12. Past'
  <2>1. \A t \in Speakers : spk'[t].gen <= gen
    BY <1>1 DEF Past
  <2>2. QED
    BY <1>3, <1>4, <2>1 DEF Past
<1>13. QED
  BY <1>3, <1>6, <1>8, <1>d, <1>9, <1>10, <1>11, <1>12 DEF Pipeline

\* What was heard of the other sentences is untouched, and so is how they stand.
LEMMA OthersStand ==
  ASSUME Types, Said, NEW s \in Speakers, spk[s].at # "idle", NEW x, Becomes(s, x),
         UNCHANGED <<gen, asked>>, whole' \subseteq whole \union {spk[s].req},
         heard' \in [Requests -> Seq(ItemT)],
         \A r \in Requests : r # spk[s].req => heard'[r] = heard[r],
         x.at # "idle" => x.req = spk[s].req
  PROVE  /\ spk[s].req \in Requests
         /\ \A t \in Speakers : t # s /\ spk'[t].at # "idle" => Stands(spk[t])'
         /\ \A r \in Requests : r # spk[s].req => Pure(r)' \/ NoGpt(r)'
         /\ \A t, u \in Speakers :
              t # u /\ spk'[t].at # "idle" /\ spk'[u].at # "idle" => spk'[t].req # spk'[u].req
         /\ \A r \in Requests : r > asked' => heard'[r] = <<>>
         /\ whole' \subseteq 1..asked'
         /\ \A r \in whole' : r # spk[s].req => NoGpt(r)' \/ Len(heard'[r]) = Chunks
<1>1. /\ spk'[s] = x /\ \A t \in Speakers : t # s => spk'[t] = spk[t]
  BY SpkStep
<1>2. 1..asked \subseteq Requests
  BY SpeechAssumption DEF Types, Requests
<1>3. spk[s].req \in 1..asked
  BY DEF Said, Stands
<1>4. \A r \in Requests : r # spk[s].req => Pure(r)' = Pure(r) /\ NoGpt(r)' = NoGpt(r)
  BY DEF Pure, NoGpt
<1>5. ASSUME NEW t \in Speakers, t # s, spk'[t].at # "idle"
      PROVE  Stands(spk[t])'
  <2>1. spk'[t] = spk[t] /\ Stands(spk[t]) /\ spk[t].req # spk[s].req /\ spk[t].req \in Requests
    <3>1. spk'[t] = spk[t]
      BY <1>1, <1>5
    <3>2. Stands(spk[t]) /\ spk[t].req # spk[s].req
      BY <1>5, <3>1 DEF Said
    <3>3. QED
      BY <1>2, <3>1, <3>2 DEF Stands
  <2>2. /\ heard'[spk[t].req] = heard[spk[t].req] /\ (NoGpt(spk[t].req) => NoGpt(spk[t].req)')
        /\ (Pure(spk[t].req) => Pure(spk[t].req)')
    BY <1>4, <2>1 DEF Pure, NoGpt
  <2>3. QED
    BY <2>1, <2>2 DEF Stands, IsReader, Pure, NoGpt
<1>6. \A t, u \in Speakers :
         t # u /\ spk'[t].at # "idle" /\ spk'[u].at # "idle" => spk'[t].req # spk'[u].req
  BY <1>1 DEF Said
<1>7. \A r \in Requests : r > asked => r # spk[s].req
  BY <1>3 DEF Types, Requests
<1>8. QED
  BY <1>2, <1>3, <1>4, <1>5, <1>6, <1>7 DEF Said

LEMMA SaidHeard ==
  ASSUME Types, Said, NEW s \in Speakers, spk[s].at # "idle", NEW x, Becomes(s, x),
         NEW chunk \in ItemT, UNCHANGED <<gen, asked, whole>>,
         heard' = [heard EXCEPT ![spk[s].req] = Append(@, chunk)],
         x.at = "chunk", x.req = spk[s].req, x.voice = spk[s].voice,
         x.voice = "gpt" =>
           /\ chunk = Chunk("gpt", x.req, Len(heard[x.req]))
           /\ Len(heard[x.req]) + 1 = x.seq,
         x.voice = "av" => chunk.voice # "gpt"
  PROVE  Said' /\ heard' \in [Requests -> Seq(ItemT)]
<1>0. PICK r : r = spk[s].req
  OBVIOUS
<1>1. spk'[s] = x
  BY SpkStep
<1>2. /\ r \in Requests /\ Stands(spk[s]) /\ heard[r] \in Seq(ItemT)
  BY <1>0, SpeechAssumption DEF Said, Stands, Types, Requests
<1>3. /\ heard'[r] = Append(heard[r], chunk)
      /\ \A q \in Requests : q # r => heard'[q] = heard[q]
      /\ heard' \in [Requests -> Seq(ItemT)]
  BY <1>0, <1>2 DEF Types
<1>4. /\ Len(heard'[r]) = Len(heard[r]) + 1 /\ Len(heard[r]) \in Nat
      /\ \A i \in DOMAIN heard'[r] : \/ i \in DOMAIN heard[r] /\ heard'[r][i] = heard[r][i]
                                     \/ i - 1 = Len(heard[r]) /\ heard'[r][i] = chunk
  BY <1>2, <1>3
<1>5. spk[s].voice = "gpt" => Pure(r)'
  BY <1>2, <1>4 DEF Stands, Pure
<1>6. spk[s].voice = "av" => NoGpt(r)'
  BY <1>2, <1>4 DEF Stands, NoGpt
<1>7. Stands(spk[s])'
  <2>1. x.req = r /\ r \in 1..asked' /\ r \notin whole' /\ x.voice \in {"gpt", "av"}
    BY <1>0, <1>2 DEF Stands
  <2>2. x.voice = "gpt" => Len(heard'[r]) = x.seq
    BY <1>4
  <2>3. IsReader(x)' => Len(heard'[r]) = x.seq
    BY <2>2 DEF IsReader
  <2>4. QED
    BY <1>1, <1>5, <1>6, <2>1, <2>3 DEF Stands
<1>8. whole' \subseteq whole \union {r} /\ (\A q \in whole' : q # r)
  BY <1>0, <1>2 DEF Stands
<1>9. /\ \A t \in Speakers : t # s /\ spk'[t].at # "idle" => Stands(spk[t])'
      /\ \A q \in Requests : q # r => Pure(q)' \/ NoGpt(q)'
      /\ \A t, u \in Speakers :
           t # u /\ spk'[t].at # "idle" /\ spk'[u].at # "idle" => spk'[t].req # spk'[u].req
      /\ \A q \in Requests : q > asked' => heard'[q] = <<>>
      /\ whole' \subseteq 1..asked'
      /\ \A q \in whole' : q # r => NoGpt(q)' \/ Len(heard'[q]) = Chunks
  BY <1>3, <1>8, OthersStand
<1>10. Pure(r)' \/ NoGpt(r)'
  BY <1>2, <1>5, <1>6 DEF Stands
<1>11. /\ \A q \in Requests : Pure(q)' \/ NoGpt(q)'
       /\ \A t \in Speakers : spk'[t].at # "idle" => Stands(spk[t])'
       /\ \A q \in whole' : NoGpt(q)' \/ Len(heard'[q]) = Chunks
  BY <1>7, <1>8, <1>9, <1>10
<1>12. QED
  BY <1>3, <1>9, <1>11 DEF Said

LEMMA SaidWhole ==
  ASSUME Types, Said, NEW s \in Speakers, spk[s].at # "idle", NEW x, Becomes(s, x),
         UNCHANGED <<gen, asked, heard>>, x.at = "idle",
         \/ whole' = whole
         \/ /\ whole' = whole \union {spk[s].req}
            /\ NoGpt(spk[s].req) \/ Len(heard[spk[s].req]) = Chunks
  PROVE  Said'
<1>0. PICK r : r = spk[s].req
  OBVIOUS
<1>1. spk'[s] = x /\ Stands(spk[s])
  BY SpkStep DEF Said
<1>2. heard' \in [Requests -> Seq(ItemT)]
  BY DEF Types
<1>3. whole' \subseteq whole \union {r}
  BY <1>0
<1>4. /\ \A t \in Speakers : t # s /\ spk'[t].at # "idle" => Stands(spk[t])'
      /\ \A q \in Requests : q # r => Pure(q)' \/ NoGpt(q)'
      /\ \A t, u \in Speakers :
           t # u /\ spk'[t].at # "idle" /\ spk'[u].at # "idle" => spk'[t].req # spk'[u].req
      /\ \A q \in Requests : q > asked' => heard'[q] = <<>>
      /\ whole' \subseteq 1..asked'
      /\ \A q \in whole' : q # r => NoGpt(q)' \/ Len(heard'[q]) = Chunks
      /\ r \in Requests
  BY <1>0, <1>2, <1>3, OthersStand
<1>5. \A q : (Pure(q) => Pure(q)') /\ (NoGpt(q) => NoGpt(q)')
  BY DEF Pure, NoGpt
<1>6. Pure(r)' \/ NoGpt(r)'
  BY <1>4, <1>5 DEF Said
<1>7. r \in whole' => NoGpt(r)' \/ Len(heard'[r]) = Chunks
  BY <1>0, <1>1, <1>5 DEF Stands
<1>8. /\ \A q \in Requests : Pure(q)' \/ NoGpt(q)'
      /\ \A t \in Speakers : spk'[t].at # "idle" => Stands(spk[t])'
      /\ \A q \in whole' : NoGpt(q)' \/ Len(heard'[q]) = Chunks
  BY <1>1, <1>4, <1>6, <1>7
<1>9. QED
  BY <1>4, <1>8 DEF Said

\* The worker is given up: nothing of it is used again.
LEMMA RetiresKeeps ==
  ASSUME Types, Past, Pipeline, Said, NEW s \in Speakers, spk[s].voice = "gpt",
         spk[s].at = "reading", Retires(s), UNCHANGED <<gen, fence, preferred, asked>>
  PROVE  IInv'
<1> DEFINE x == [spk[s] EXCEPT !.at = "retire"]
<1>0. gpt \in GptT /\ worker \in WorkerT /\ spk[s] \in SpkT
  BY DEF Types
<1>1. /\ gpt' = [RecordFailure(gpt) EXCEPT !.restart = @ \/ gpt.conn # 0, !.conn = 0]
      /\ worker' = [worker EXCEPT !.alive = FALSE]
      /\ spk' = [spk EXCEPT ![s] = x]
      /\ UNCHANGED <<active, av, synth, heard, whole>>
  BY DEF Retires
<1>2. /\ x \in SpkT /\ x.at = "retire" /\ x.voice = "gpt" /\ x.gen = spk[s].gen
      /\ x.req = spk[s].req
  BY <1>0 DEF SpkT, Points
<1> HIDE DEF x
<1>3. Becomes(s, x) /\ ~IsReader(x)
  BY <1>1, <1>2 DEF Becomes, IsReader
<1>4. /\ spk' \in [Speakers -> SpkT] /\ spk'[s] = x
      /\ \A t \in Speakers : t # s => spk'[t] = spk[t]
  BY <1>3, SpkStep
<1>5. gpt' \in GptT /\ gpt'.cancelled = gpt.cancelled
  <2>1. RecordFailure(gpt) \in GptT /\ RecordFailure(gpt).cancelled = gpt.cancelled
    BY <1>0, RecordsTyped
  <2>2. QED
    BY <1>1, <2>1 DEF GptT
<1>6. worker' \in WorkerT /\ worker'.in = worker.in /\ worker'.out = worker.out
      /\ worker'.job = worker.job
  BY <1>0, <1>1 DEF WorkerT
<1>7. Types'
  BY <1>1, <1>4, <1>5, <1>6 DEF Types
<1>8. Past'
  <2>1. \A t \in Speakers : spk'[t].gen <= gen
    BY <1>2, <1>4 DEF Past
  <2>2. QED
    BY <1>5, <1>6, <2>1 DEF Past
<1>9. Pipeline'
  <2>1. InGpt(s)
    BY DEF InGpt
  <2>2. \A t \in Speakers : InGpt(t)' => InGpt(t)
    BY <1>4, <2>1 DEF InGpt
  <2>3. \A t \in Speakers : IsReader(spk[t])' => IsReader(spk[t]) /\ spk'[t] = spk[t]
    BY <1>3, <1>4 DEF IsReader
  <2>4. QED
    BY <1>1, <2>2, <2>3, PipelineKilled
<1>10. Said'
  BY <1>1, <1>2, <1>3, SaidStep
<1>11. QED
  BY <1>7, <1>8, <1>9, <1>10 DEF IInv

\* The generator raised "cancelled", or is over for another reason: the task rests.
LEMMA RaisesCancelledKeeps ==
  ASSUME Types, Past, Pipeline, Said, NEW s \in Speakers, spk[s].voice = "gpt",
         spk[s].at = "reading", ~IsReader(spk[s]), RaisesCancelled(s),
         worker' = worker \/ (worker' = Taken /\ worker.out # <<>>),
         UNCHANGED <<gen, fence, preferred, asked>>
  PROVE  IInv'
<1>1. Leaves(s) /\ UNCHANGED <<av, synth, heard, whole>>
  BY EndsLeaves DEF RaisesCancelled
<1>2. gpt' \in GptT /\ gpt'.conn = gpt.conn /\ gpt'.cancelled = gpt.cancelled
  BY DEF RaisesCancelled, Types, GptT
<1>3. spk' \in [Speakers -> SpkT] /\ Past' /\ Pipeline' /\ Said' /\ worker' \in WorkerT
  <2>1. CASE worker' = worker
    <3>1. spk' \in [Speakers -> SpkT] /\ Past' /\ Pipeline' /\ Said'
      BY <1>1, <1>2, <2>1, LeavesKeep
    <3>2. QED
      BY <2>1, <3>1 DEF Types
  <2>2. CASE worker' = Taken /\ worker.out # <<>>
    <3>1. Becomes(s, Resting) /\ ~IsReader(Resting)
      BY DEF RaisesCancelled, Ends, Becomes, Resting, SpkT, Points, IsReader
    <3>2. InGpt(s) /\ Resting.gen <= gen /\ Resting.at = "idle"
      BY DEF InGpt, Resting, Types
    <3>3. Past' /\ Pipeline' /\ worker' \in WorkerT
      BY <1>1, <1>2, <2>2, <3>1, <3>2, PipelineTaken DEF Begun
    <3>4. Said'
      BY <1>1, <3>1, <3>2, SaidStep
    <3>5. QED
      BY <3>1, <3>3, <3>4, SpkStep
  <2>3. QED
    BY <2>1, <2>2
<1>4. QED
  BY <1>1, <1>2, <1>3 DEF IInv, Types

\* Only sentences of a past generation are marked cancelled.
LEMMA MarkedIsPast ==
  ASSUME Past, NEW s \in Speakers, spk[s].gen \in gpt.cancelled, Types
  PROVE  ~IsReader(spk[s])
BY DEF Past, IsReader, Types, SpkT

\* What the current generation's reader finds in the pipe is its own.
LEMMA GptHears ==
  ASSUME Types, Past, Pipeline, Said, NEW s \in Speakers, GptFrame(s),
         NEW f, f = Head(worker.out), f.kind = "pcm", PcmExpected(f, s),
         Hears(s, Chunk("gpt", f.req, f.seq)),
         worker' = Taken, UNCHANGED <<active, gpt, av, synth, whole, gen, fence, preferred, asked>>
  PROVE  IInv'
<1>0. spk[s].at = "reading" /\ spk[s].voice = "gpt" /\ spk[s] \in SpkT /\ InGpt(s)
      /\ worker.out \in Seq(FrameT) /\ worker.out # <<>> /\ spk[s].gen <= gen
  BY DEF GptFrame, Reading, InGpt, Types, WorkerT, Past
<1>1. CASE spk[s].gen = gen
  <2> DEFINE x == [spk[s] EXCEPT !.at = "chunk", !.seq = @ + 1]
  <2>1. /\ x \in SpkT /\ x.at = "chunk" /\ x.voice = "gpt" /\ x.gen = spk[s].gen
        /\ x.req = spk[s].req /\ x.seq = spk[s].seq + 1
    <3>1. spk[s].seq + 1 \in Nat /\ "chunk" \in Points
      BY <1>0 DEF SpkT, Points
    <3>2. QED
      BY <1>0, <3>1 DEF SpkT
  <2>2. /\ spk' = [spk EXCEPT ![s] = x]
        /\ heard' = [heard EXCEPT ![spk[s].req] = Append(@, Chunk("gpt", f.req, f.seq))]
    BY <1>1 DEF Hears
  <2> HIDE DEF x
  <2>3. Becomes(s, x) /\ IsReader(x) /\ IsReader(spk[s]) /\ s \in Readers
    BY <1>0, <1>1, <2>1, <2>2 DEF Becomes, IsReader, Readers
  <2>4. 1 \in DOMAIN worker.out /\ worker.out[1] = f /\ Speaks(f) /\ f \in FrameT
    BY <1>0, <1>1, TailAt DEF Speaks, PcmExpected
  <2>5. f.req = spk[s].req /\ f.seq = spk[s].seq
    <3>1. f.seq = spk[s].seq /\ Suits(f, spk[s], Begun)
      BY <2>3, <2>4 DEF Pipeline, Own, PcmExpected
    <3>2. QED
      BY <3>1 DEF Suits, LeftOver
  <2>6. Stands(spk[s]) /\ Len(heard[spk[s].req]) = spk[s].seq
    BY <1>0, <2>3 DEF Said, Stands
  <2>7. Chunk("gpt", f.req, f.seq) \in ItemT
    BY <1>0, <2>5 DEF Chunk, ItemT, SpkT
  <2>8. Chunk("gpt", f.req, f.seq) = Chunk("gpt", x.req, Len(heard[x.req]))
        /\ Len(heard[x.req]) + 1 = x.seq
    BY <2>1, <2>5, <2>6
  <2>9. Said' /\ heard' \in [Requests -> Seq(ItemT)]
    BY <1>0, <2>1, <2>2, <2>3, <2>7, <2>8, SaidHeard
  <2>a. Begun \subseteq Begun' /\ x.seq > 0
    <3>1. \A r \in Requests : heard[r] # <<>> => heard'[r] # <<>>
      BY <2>2, <2>7, AppendIsNotEmpty DEF Types
    <3>2. QED
      BY <1>0, <2>1, <3>1 DEF Begun, SpkT
  <2>10. Pipeline' /\ worker' \in WorkerT /\ Past'
    BY <1>0, <1>1, <2>1, <2>3, <2>4, <2>5, <2>a, PipelineTaken
  <2>11. QED
    BY <2>3, <2>9, <2>10, SpkStep DEF IInv, Types
<1>2. CASE spk[s].gen # gen
  <2> DEFINE x == [spk[s] EXCEPT !.at = "gone"]
  <2>1. /\ x \in SpkT /\ x.at = "gone" /\ x.voice = "gpt" /\ x.gen = spk[s].gen
        /\ x.req = spk[s].req
    BY <1>0 DEF SpkT, Points
  <2>2. spk' = [spk EXCEPT ![s] = x] /\ heard' = heard
    BY <1>2 DEF Hears
  <2> HIDE DEF x
  <2>3. Becomes(s, x) /\ ~IsReader(x) /\ ~IsReader(spk[s])
    BY <1>2, <2>1, <2>2 DEF Becomes, IsReader
  <2>4. Pipeline' /\ worker' \in WorkerT /\ Past'
    BY <1>0, <2>1, <2>2, <2>3, PipelineTaken DEF Begun
  <2>5. Said'
    BY <1>0, <2>1, <2>2, <2>3, SaidStep
  <2>6. QED
    BY <2>2, <2>3, <2>4, <2>5, SpkStep DEF IInv, Types
<1>3. QED
  BY <1>1, <1>2

LEMMA GptReceivesKeeps ==
  ASSUME IInv, NEW s \in Speakers, GptReceives(s)
  PROVE  IInv'
<1> DEFINE f == Head(worker.out)
<1>0. Types /\ Past /\ Pipeline /\ Said /\ spk[s] \in SpkT /\ gpt \in GptT
  BY DEF IInv, Types
<1>1. /\ GptFrame(s) /\ worker.out # <<>> /\ spk[s].at = "reading" /\ spk[s].voice = "gpt"
      /\ InGpt(s) /\ UNCHANGED <<gen, fence, preferred, asked>> /\ spk[s].gen <= gen
  BY <1>0 DEF GptReceives, GptFrame, Reading, InGpt, Past
<1>2. 1 \in DOMAIN worker.out /\ worker.out[1] = f /\ f \in FrameT
  BY <1>0, <1>1, TailAt DEF Types, WorkerT
<1>3. CASE /\ f.kind = "pcm" /\ PcmExpected(f, s) /\ Hears(s, Chunk("gpt", f.req, f.seq))
           /\ worker' = Taken /\ UNCHANGED <<active, gpt, av, synth, whole>>
  BY <1>0, <1>1, <1>3, GptHears
<1>4. CASE /\ spk[s].gen \in gpt.cancelled /\ spk' = [spk EXCEPT ![s].seq = @ + 1]
           /\ worker' = Taken /\ UNCHANGED <<active, gpt, av, synth, heard, whole>>
  <2> DEFINE x == [spk[s] EXCEPT !.seq = @ + 1]
  <2>1. /\ x \in SpkT /\ x.at = "reading" /\ x.voice = "gpt" /\ x.gen = spk[s].gen
        /\ x.req = spk[s].req
    BY <1>0, <1>1 DEF SpkT
  <2>2. spk' = [spk EXCEPT ![s] = x]
    BY <1>4
  <2>3. ~IsReader(spk[s])
    BY <1>0, <1>4, MarkedIsPast
  <2> HIDE DEF x
  <2>4. Becomes(s, x) /\ ~IsReader(x)
    BY <1>1, <2>1, <2>2, <2>3 DEF Becomes, IsReader
  <2>5. Pipeline' /\ worker' \in WorkerT /\ Past'
    BY <1>0, <1>1, <1>4, <2>1, <2>3, <2>4, PipelineTaken DEF Begun
  <2>6. Said'
    BY <1>0, <1>1, <1>4, <2>1, <2>3, <2>4, SaidStep
  <2>7. QED
    BY <1>0, <1>1, <1>4, <2>4, <2>5, <2>6, SpkStep DEF IInv, Types
<1>5. CASE Retires(s)
  BY <1>0, <1>1, <1>5, RetiresKeeps
<1>6. CASE spk[s].gen \in gpt.cancelled /\ RaisesCancelled(s) /\ worker' = Taken
  <2>1. ~IsReader(spk[s])
    BY <1>0, <1>6, MarkedIsPast
  <2>2. QED
    BY <1>0, <1>1, <1>6, <2>1, RaisesCancelledKeeps
<1>7. ASSUME Answers(f, s), f.kind = "done", f.seq = spk[s].seq, worker' = Taken, Ends(s),
             UNCHANGED <<av, synth, heard>>,
             gpt' \in GptT, gpt'.conn = gpt.conn, gpt'.cancelled = gpt.cancelled,
             \/ whole' = whole
             \/ ~f.cancelled /\ spk[s].gen = gen /\ whole' = whole \union {spk[s].req}
      PROVE  IInv'
  <2>1. Becomes(s, Resting) /\ ~IsReader(Resting) /\ Resting.gen <= gen /\ Resting.at = "idle"
    BY <1>0, <1>7 DEF Ends, Becomes, Resting, SpkT, Points, IsReader, Types
  <2>2. IsReader(spk[s]) => Speaks(f) /\ f.kind # "pcm" /\ f.req = spk[s].req
    BY <1>7 DEF IsReader, Speaks, Answers
  <2> HIDE DEF f
  <2>3. f = Head(worker.out)
    BY DEF f
  <2>4. Pipeline' /\ worker' \in WorkerT /\ Past'
    BY <1>0, <1>1, <1>7, <2>1, <2>2, <2>3, PipelineTaken DEF Begun
  <2>5. ~f.cancelled /\ spk[s].gen = gen => Len(heard[spk[s].req]) = Chunks
    <3>1. ASSUME ~f.cancelled, spk[s].gen = gen
          PROVE  Len(heard[spk[s].req]) = Chunks
      <4>1. f.seq = Chunks
        BY <1>0, <1>2, <1>7, <3>1 DEF Pipeline, DoneWhole
      <4>2. IsReader(spk[s]) /\ Stands(spk[s])
        BY <1>0, <1>1, <3>1 DEF IsReader, Said
      <4>3. QED
        BY <1>7, <4>1, <4>2 DEF Stands
    <3>2. QED
      BY <3>1
  <2>6. Said'
    BY <1>0, <1>1, <1>7, <2>1, <2>5, SaidWhole
  <2>7. QED
    BY <1>0, <1>1, <1>7, <2>1, <2>4, <2>6, SpkStep DEF IInv, Types
<1>8. CASE /\ Answers(f, s) /\ f.kind = "done" /\ f.seq = spk[s].seq
           /\ RaisesCancelled(s) /\ worker' = Taken
  <2>1. gpt' \in GptT /\ gpt'.conn = gpt.conn /\ gpt'.cancelled = gpt.cancelled
    BY <1>0, <1>8 DEF RaisesCancelled, GptT
  <2>2. Ends(s) /\ UNCHANGED <<av, synth, heard, whole>>
    BY <1>8 DEF RaisesCancelled
  <2>3. QED
    BY <1>7, <1>8, <2>1, <2>2
<1>9. CASE /\ Answers(f, s) /\ f.kind = "done" /\ f.seq = spk[s].seq
           /\ ~f.cancelled /\ spk[s].gen \notin gpt.cancelled
           /\ gpt' = [RecordSuccess(gpt) EXCEPT !.gen = 0]
           /\ Ends(s) /\ worker' = Taken
           /\ whole' = IF spk[s].gen = gen THEN whole \union {spk[s].req} ELSE whole
           /\ UNCHANGED <<av, synth, heard>>
  <2>1. gpt' \in GptT /\ gpt'.conn = gpt.conn /\ gpt'.cancelled = gpt.cancelled
    <3>1. /\ RecordSuccess(gpt) \in GptT /\ RecordSuccess(gpt).conn = gpt.conn
          /\ RecordSuccess(gpt).cancelled = gpt.cancelled
      BY <1>0, RecordsTyped
    <3>2. QED
      BY <1>9, <3>1 DEF GptT
  <2>2. QED
    BY <1>7, <1>9, <2>1
<1>10. QED
  <2>1. \/ /\ f.kind = "pcm" /\ PcmExpected(f, s) /\ Hears(s, Chunk("gpt", f.req, f.seq))
           /\ worker' = Taken /\ UNCHANGED <<active, gpt, av, synth, whole>>
        \/ /\ spk[s].gen \in gpt.cancelled /\ spk' = [spk EXCEPT ![s].seq = @ + 1]
           /\ worker' = Taken /\ UNCHANGED <<active, gpt, av, synth, heard, whole>>
        \/ Retires(s)
        \/ spk[s].gen \in gpt.cancelled /\ RaisesCancelled(s) /\ worker' = Taken
        \/ /\ Answers(f, s) /\ f.kind = "done" /\ f.seq = spk[s].seq
           /\ RaisesCancelled(s) /\ worker' = Taken
        \/ /\ Answers(f, s) /\ f.kind = "done" /\ f.seq = spk[s].seq
           /\ ~f.cancelled /\ spk[s].gen \notin gpt.cancelled
           /\ gpt' = [RecordSuccess(gpt) EXCEPT !.gen = 0]
           /\ Ends(s) /\ worker' = Taken
           /\ whole' = IF spk[s].gen = gen THEN whole \union {spk[s].req} ELSE whole
           /\ UNCHANGED <<av, synth, heard>>
    BY DEF GptReceives
  <2>2. QED
    BY <1>3, <1>4, <1>5, <1>6, <1>8, <1>9, <2>1

LEMMA GptEofKeeps ==
  ASSUME IInv, NEW s \in Speakers, GptEof(s)
  PROVE  IInv'
<1>0. /\ Types /\ Past /\ Pipeline /\ Said
      /\ spk[s].at = "reading" /\ spk[s].voice = "gpt"
      /\ UNCHANGED <<gen, fence, preferred, asked>>
  BY DEF IInv, GptEof, Reading
<1>1. CASE spk[s].gen \in gpt.cancelled /\ RaisesCancelled(s) /\ UNCHANGED worker
  <2>1. ~IsReader(spk[s])
    BY <1>0, <1>1, MarkedIsPast
  <2>2. QED
    BY <1>0, <1>1, <2>1, RaisesCancelledKeeps
<1>2. CASE Retires(s)
  BY <1>0, <1>2, RetiresKeeps
<1>3. QED
  BY <1>1, <1>2 DEF GptEof, ProtocolFault
-----------------------------------------------------------------------------
(* The consumer and the system voice.                                      *)

\* A task moves on in a sentence and hears nothing.
LEMMA MovesOn ==
  ASSUME Types, Past, Pipeline, Said, NEW s \in Speakers, spk[s].at \in {"reading", "chunk"},
         NEW at \in {"reading", "gone"}, spk' = [spk EXCEPT ![s].at = at],
         at = "gone" => spk[s].gen # gen \/ spk[s].at = "chunk",
         UNCHANGED <<gen, fence, asked, worker, heard, whole>>,
         gpt'.conn = gpt.conn, gpt'.cancelled = gpt.cancelled
  PROVE  spk' \in [Speakers -> SpkT] /\ Past' /\ Pipeline' /\ Said'
<1> DEFINE x == [spk[s] EXCEPT !.at = at]
<1>1. /\ x \in SpkT /\ x.at = at /\ x.voice = spk[s].voice /\ x.gen = spk[s].gen
      /\ x.req = spk[s].req /\ x.seq = spk[s].seq
  BY DEF Types, SpkT, Points
<1>2. spk' = [spk EXCEPT ![s] = x]
  OBVIOUS
<1> HIDE DEF x
<1>3. Becomes(s, x) /\ (IsReader(x) => IsReader(spk[s])) /\ x.gen <= gen
  BY <1>1, <1>2 DEF Becomes, IsReader, Past
<1>5. Stands(spk[s])
  BY DEF Said
<1>a. IsReader(spk[s]) /\ ~IsReader(x) => spk[s].seq > 0 /\ spk[s].req \in Begun
  <2>1. ASSUME IsReader(spk[s]), ~IsReader(x)
        PROVE  spk[s].seq > 0 /\ spk[s].req \in Begun
    <3>1. spk[s].at = "chunk" /\ s \in Readers
      BY <1>1, <2>1 DEF IsReader, Readers
    <3>2. spk[s].seq > 0 /\ Len(heard[spk[s].req]) = spk[s].seq /\ spk[s].req \in 1..asked
      BY <1>5, <2>1, <3>1 DEF Pipeline, Own, Stands
    <3>3. spk[s].req \in Requests
      BY <3>2, SpeechAssumption DEF Types, Requests
    <3>4. heard[spk[s].req] # <<>>
      BY <3>2
    <3>5. QED
      BY <3>2, <3>3, <3>4 DEF Begun
  <2>2. QED
    BY <2>1
<1>4. Pipeline'
  <2>1. Begun' = Begun
    BY DEF Begun
  <2>2. QED
    BY <1>1, <1>3, <1>a, <2>1, PipelineQuiet DEF InGpt
<1>6. Said'
  <2>1. /\ x.voice \in {"gpt", "av"} /\ (x.voice = "av" => NoGpt(x.req))
        /\ (IsReader(x) => Len(heard[x.req]) = x.seq)
    BY <1>1, <1>3, <1>5 DEF Stands
  <2>2. QED
    BY <1>1, <1>3, <2>1, SaidStep
<1>7. QED
  BY <1>3, <1>4, <1>6, SpkStep, PastStep

LEMMA SubmitReturnsKeeps ==
  ASSUME IInv, NEW s \in Speakers, SubmitReturns(s)
  PROVE  IInv'
<1>0. Types /\ Past /\ Pipeline /\ Said
  BY DEF IInv
<1>1. PICK at \in {"reading", "gone"} : spk' = [spk EXCEPT ![s].at = at]
  BY DEF SubmitReturns
<1>2. /\ spk[s].at = "chunk"
      /\ UNCHANGED <<gen, fence, preferred, active, asked, gpt, worker, av, synth, heard, whole>>
  BY DEF SubmitReturns
<1>3. spk' \in [Speakers -> SpkT] /\ Past' /\ Pipeline' /\ Said'
  BY <1>0, <1>1, <1>2, MovesOn
<1>4. QED
  BY <1>0, <1>2, <1>3 DEF IInv, Types

LEMMA DisownedTyped ==
  ASSUME Types
  PROVE  Disowned \in AvT
<1>1. av \in AvT /\ <<>> \in Seq(ItemT) /\ 0 \in Nat
  BY DEF Types
<1>2. QED
  BY <1>1 DEF Disowned, AvT

LEMMA GeneratorClosedKeeps ==
  ASSUME IInv, NEW s \in Speakers, GeneratorClosed(s)
  PROVE  IInv'
<1>0. Types /\ Past /\ Pipeline /\ Said
  BY DEF IInv
<1>1. /\ spk[s].at = "gone" /\ ~IsReader(spk[s]) /\ Leaves(s)
      /\ UNCHANGED <<gen, fence, preferred, asked, worker, synth, heard, whole>>
  BY EndsLeaves DEF GeneratorClosed, IsReader
<1>2. gpt' \in GptT /\ gpt'.conn = gpt.conn /\ gpt'.cancelled = gpt.cancelled /\ av' \in AvT
  <2>1. gpt \in GptT /\ av \in AvT /\ Disowned \in AvT
    BY <1>0, DisownedTyped DEF Types
  <2>2. CASE gpt' = [gpt EXCEPT !.gen = 0] /\ UNCHANGED av
    BY <2>1, <2>2 DEF GptT
  <2>3. CASE av' = Disowned /\ UNCHANGED gpt
    BY <2>1, <2>3
  <2>4. QED
    BY <2>2, <2>3 DEF GeneratorClosed
<1>3. spk' \in [Speakers -> SpkT] /\ Past' /\ Pipeline' /\ Said'
  BY <1>0, <1>1, <1>2, LeavesKeep
<1>4. QED
  BY <1>0, <1>1, <1>2, <1>3 DEF IInv, Types

LEMMA AvReceivesKeeps ==
  ASSUME IInv, NEW s \in Speakers, AvReceives(s)
  PROVE  IInv'
<1> DEFINE item == Head(av.queue)
<1>0. Types /\ Past /\ Pipeline /\ Said /\ spk[s] \in SpkT /\ av \in AvT
  BY DEF IInv, Types
<1>1. /\ spk[s].at = "reading" /\ spk[s].voice = "av" /\ ~IsReader(spk[s]) /\ spk[s].gen <= gen
      /\ av.queue # <<>> /\ UNCHANGED <<gen, fence, preferred, asked, gpt, worker, synth>>
  BY <1>0 DEF AvReceives, IsReader, Past
<1>2. item \in ItemT /\ Tail(av.queue) \in Seq(ItemT)
  BY <1>0, <1>1, TailAt DEF AvT
<1>3. Stands(spk[s]) /\ NoGpt(spk[s].req)
  BY <1>0, <1>1 DEF Said, Stands
<1>4. CASE /\ av' = Disowned /\ Ends(s) /\ UNCHANGED heard
           /\ whole' = IF item.voice = "end" /\ spk[s].gen = gen
                       THEN whole \union {spk[s].req} ELSE whole
  <2>1. /\ Becomes(s, Resting) /\ ~IsReader(Resting) /\ Resting.gen <= gen /\ Resting.at = "idle"
        /\ Resting.voice = "none"
    BY <1>0, <1>4 DEF Ends, Becomes, Resting, SpkT, Points, IsReader, Types
  <2>2. Pipeline' /\ Past'
    BY <1>0, <1>1, <1>4, <2>1, PipelineQuiet, PastStep DEF Begun
  <2>3. Said'
    BY <1>0, <1>1, <1>3, <1>4, <2>1, SaidWhole
  <2>4. QED
    BY <1>0, <1>1, <1>4, <2>1, <2>2, <2>3, DisownedTyped, SpkStep DEF IInv, Types
<1>5. ASSUME item.voice = "av", av' = [av EXCEPT !.queue = Tail(@)], UNCHANGED <<active, whole>>
      PROVE  IInv'
  <2>1. av' \in AvT
    BY <1>0, <1>2, <1>5 DEF AvT
  <2>2. CASE UNCHANGED <<spk, heard>>
    <3>1. Pipeline' /\ Said' /\ Past'
      BY <1>0, <1>1, <1>5, <2>2, PipelineSame, SaidSame DEF Past
    <3>2. QED
      BY <1>0, <1>1, <1>5, <2>1, <2>2, <3>1 DEF IInv, Types
  <2>3. CASE /\ spk[s].gen = gen
             /\ spk' = [spk EXCEPT ![s].at = "chunk", ![s].seq = @ + 1]
             /\ heard' = [heard EXCEPT ![spk[s].req] = Append(@, item)]
    <3> DEFINE x == [spk[s] EXCEPT !.at = "chunk", !.seq = @ + 1]
    <3>1. /\ x \in SpkT /\ x.at = "chunk" /\ x.voice = "av" /\ x.gen = spk[s].gen
          /\ x.req = spk[s].req
      <4>1. spk[s].seq + 1 \in Nat /\ "chunk" \in Points
        BY <1>0 DEF SpkT, Points
      <4>2. QED
        BY <1>0, <1>1, <4>1 DEF SpkT
    <3>2. spk' = [spk EXCEPT ![s] = x]
      BY <2>3
    <3> HIDE DEF x
    <3>3. Becomes(s, x) /\ ~IsReader(x)
      BY <3>1, <3>2 DEF Becomes, IsReader
    <3>a. Begun \subseteq Begun'
      <4>1. \A r \in Requests : heard[r] # <<>> => heard'[r] # <<>>
        BY <1>0, <1>2, <2>3, AppendIsNotEmpty DEF Types
      <4>2. QED
        BY <4>1 DEF Begun
    <3>4. Pipeline' /\ Past'
      BY <1>0, <1>1, <3>1, <3>3, <3>a, PipelineQuiet, PastStep
    <3>5. Said' /\ heard' \in [Requests -> Seq(ItemT)]
      BY <1>0, <1>1, <1>2, <1>5, <2>3, <3>1, <3>3, SaidHeard
    <3>6. QED
      BY <1>0, <1>1, <1>5, <2>1, <3>3, <3>4, <3>5, SpkStep DEF IInv, Types
  <2>4. CASE /\ spk[s].gen # gen
             /\ spk' = [spk EXCEPT ![s].at = "gone"] /\ UNCHANGED heard
    <3>1. spk' \in [Speakers -> SpkT] /\ Past' /\ Pipeline' /\ Said'
      BY <1>0, <1>1, <1>5, <2>4, MovesOn
    <3>2. QED
      BY <1>0, <1>1, <1>5, <2>1, <2>4, <3>1 DEF IInv, Types
  <2>5. QED
    <3>1. UNCHANGED <<spk, heard>> \/ Hears(s, item)
      BY <1>5 DEF AvReceives
    <3>2. QED
      BY <2>2, <2>3, <2>4, <3>1 DEF Hears
<1>6. QED
  <2>1. \/ /\ av' = Disowned /\ Ends(s) /\ UNCHANGED heard
           /\ whole' = IF item.voice = "end" /\ spk[s].gen = gen
                       THEN whole \union {spk[s].req} ELSE whole
        \/ /\ item.voice = "av" /\ av' = [av EXCEPT !.queue = Tail(@)]
           /\ UNCHANGED <<active, whole>>
    BY DEF AvReceives
  <2>2. QED
    BY <1>4, <1>5, <2>1
-----------------------------------------------------------------------------
(* The worker process.                                                     *)

LEMMA AppendAt ==
  ASSUME NEW S, NEW q \in Seq(S), NEW e \in S
  PROVE  /\ Append(q, e) \in Seq(S)
         /\ \A i \in DOMAIN Append(q, e) :
              \/ i = Len(q) + 1 /\ Append(q, e)[i] = e
              \/ i \in DOMAIN q /\ i # Len(q) + 1 /\ i < Len(q) + 1 /\ Append(q, e)[i] = q[i]
OBVIOUS

\* The synthesis thread writes a frame of its own sentence, its last one when it is over.
LEMMA PipelineWrites ==
  ASSUME Types, Past, Pipeline, NEW f \in FrameT, NEW j \in JobT,
         worker' = [worker EXCEPT !.job = j, !.out = Append(@, f)],
         UNCHANGED <<gen, fence, spk, gpt, heard>>,
         f.kind # "busy", f.gen = worker.job.gen, f.req = worker.job.req, ~worker.job.over,
         j.gen = worker.job.gen, j.req = worker.job.req, f.kind # "pcm" => j.over,
         f.kind = "pcm" => f.seq = worker.job.next /\ j.next > 0,
         f.kind = "done" /\ ~f.cancelled => f.seq = Chunks
  PROVE  Pipeline' /\ Past' /\ worker' \in WorkerT
<1>0. worker \in WorkerT /\ worker.out \in Seq(FrameT)
  BY DEF Types, WorkerT
<1>1. /\ Append(worker.out, f) \in Seq(FrameT)
      /\ \A i \in DOMAIN Append(worker.out, f) :
           \/ i = Len(worker.out) + 1 /\ Append(worker.out, f)[i] = f
           \/ /\ i \in DOMAIN worker.out /\ i < Len(worker.out) + 1
              /\ Append(worker.out, f)[i] = worker.out[i]
  BY <1>0, AppendAt
<1>2. /\ worker'.in = worker.in /\ worker'.out = Append(worker.out, f) /\ worker'.job = j
      /\ worker'.alive = worker.alive /\ worker'.n = worker.n /\ worker' \in WorkerT
  BY <1>0, <1>1 DEF WorkerT
<1>3. \A i \in DOMAIN worker'.out :
        \/ i = Len(worker.out) + 1 /\ worker'.out[i] = f
        \/ i \in DOMAIN worker.out /\ i < Len(worker.out) + 1 /\ worker'.out[i] = worker.out[i]
  BY <1>1, <1>2
<1>4. Readers' = Readers /\ Begun' = Begun
  BY DEF Readers, IsReader, Begun
<1>5. /\ JobNow' => JobNow /\ f.kind = "pcm" /\ j.next > 0 /\ worker'.job.req = worker.job.req
      /\ Speaks(f) => JobNow
      /\ NoneAsked' = NoneAsked
  BY <1>2 DEF JobNow, Speaks, NoneAsked, Asks
<1>6. (\A g : Speaks(g)' = Speaks(g)) /\ (\A c : Asks(c)' = Asks(c))
  BY DEF Speaks, Asks
<1>a. /\ \A x, B : Suits(Pcm(worker.job), x, B) => Suits(f, x, B)
      /\ \A B : LeftOver(Pcm(worker.job), B) => LeftOver(f, B)
  BY DEF Suits, LeftOver, Pcm
<1>b. j.next > 0 => /\ \A x, B : Suits(Pcm(worker.job), x, B) => Suits(Pcm(j), x, B)
                    /\ \A B : LeftOver(Pcm(worker.job), B) => LeftOver(Pcm(j), B)
  BY DEF Suits, LeftOver, Pcm
<1>7. OneReader' /\ Connected'
  BY <1>2 DEF OneReader, Connected, Pipeline, InGpt
<1>8. Own'
  <2>1. ASSUME NEW t \in Readers
        PROVE  /\ \A i \in DOMAIN worker'.out : Speaks(worker'.out[i]) => Suits(worker'.out[i], spk[t], Begun)
               /\ JobNow' => Suits(Pcm(worker'.job), spk[t], Begun)
    <3>1. JobNow => Suits(Pcm(worker.job), spk[t], Begun)
      BY DEF Pipeline, Own
    <3>2. \A i \in DOMAIN worker'.out : Speaks(worker'.out[i]) => Suits(worker'.out[i], spk[t], Begun)
      BY <1>3, <1>5, <1>a, <3>1 DEF Pipeline, Own
    <3>3. JobNow' => Suits(Pcm(worker'.job), spk[t], Begun)
      BY <1>2, <1>5, <1>b, <3>1
    <3>4. QED
      BY <3>2, <3>3
  <2>2. \A t \in Readers :
          /\ \A i \in DOMAIN worker'.in : Asks(worker'.in[i]) => worker'.in[i].req = spk[t].req /\ spk[t].seq = 0
          /\ spk[t].at = "chunk" => spk[t].seq > 0
    BY <1>2 DEF Pipeline, Own
  <2>3. QED
    BY <1>4, <1>6, <2>1, <2>2 DEF Own
<1>c. Ordered'
  <2>1. ASSUME NEW t \in Readers, NEW i \in DOMAIN worker'.out, Speaks(worker'.out[i]),
               worker'.out[i].req = spk[t].req
        PROVE  /\ \A k \in DOMAIN worker'.out : k > i /\ Speaks(worker'.out[k]) => worker'.out[k].req = spk[t].req
               /\ JobNow' => worker'.job.req = spk[t].req
    <3>1. CASE i = Len(worker.out) + 1 /\ worker'.out[i] = f
      <4>1. \A k \in DOMAIN worker'.out : ~(k > i)
        BY <1>2, <3>1
      <4>2. QED
        BY <1>5, <2>1, <3>1, <4>1
    <3>2. CASE i \in DOMAIN worker.out /\ worker'.out[i] = worker.out[i]
      <4>1. /\ \A k \in DOMAIN worker.out : k > i /\ Speaks(worker.out[k]) => worker.out[k].req = spk[t].req
            /\ JobNow => worker.job.req = spk[t].req
        BY <2>1, <3>2 DEF Pipeline, Ordered
      <4>2. QED
        BY <1>3, <1>5, <4>1
    <3>3. QED
      BY <1>3, <3>1, <3>2
  <2>2. QED
    BY <1>4, <1>6, <2>1 DEF Ordered
<1>9. Clean'
  <2>1. ASSUME worker.alive, Readers = {}
        PROVE  /\ \A i \in DOMAIN worker'.out : Speaks(worker'.out[i]) => LeftOver(worker'.out[i], Begun)
               /\ JobNow' => LeftOver(Pcm(worker'.job), Begun)
               /\ NoneAsked'
    <3>1. /\ \A i \in DOMAIN worker.out : Speaks(worker.out[i]) => LeftOver(worker.out[i], Begun)
          /\ JobNow => LeftOver(Pcm(worker.job), Begun)
          /\ NoneAsked
      BY <2>1 DEF Pipeline, Clean
    <3>2. QED
      BY <1>2, <1>3, <1>5, <1>a, <1>b, <3>1
  <2>2. QED
    BY <1>2, <1>4, <1>6, <2>1 DEF Clean
<1>10. InTurn'
  <2>1. ASSUME NEW i \in DOMAIN worker'.out, Speaks(worker'.out[i])
        PROVE  /\ \A k \in DOMAIN worker'.out :
                    k > i /\ Speaks(worker'.out[k]) /\ worker'.out[k].req = worker'.out[i].req =>
                      worker'.out[i].kind = "pcm" /\ (worker'.out[k].kind = "pcm" => worker'.out[k].seq > 0)
               /\ JobNow' /\ worker'.job.req = worker'.out[i].req =>
                    worker'.out[i].kind = "pcm" /\ worker'.job.next > 0
    <3>1. CASE i = Len(worker.out) + 1 /\ worker'.out[i] = f
      <4>1. \A k \in DOMAIN worker'.out : ~(k > i)
        BY <1>2, <3>1
      <4>2. QED
        BY <1>2, <1>5, <3>1, <4>1
    <3>2. CASE i \in DOMAIN worker.out /\ worker'.out[i] = worker.out[i]
      <4>1. /\ \A k \in DOMAIN worker.out :
                 k > i /\ Speaks(worker.out[k]) /\ worker.out[k].req = worker.out[i].req =>
                   worker.out[i].kind = "pcm" /\ (worker.out[k].kind = "pcm" => worker.out[k].seq > 0)
            /\ JobNow /\ worker.job.req = worker.out[i].req =>
                 worker.out[i].kind = "pcm" /\ worker.job.next > 0
        BY <2>1, <3>2 DEF Pipeline, InTurn
      <4>2. JobNow' /\ worker'.job.req = worker'.out[i].req =>
              worker'.out[i].kind = "pcm" /\ worker'.job.next > 0
        BY <1>2, <1>5, <3>2, <4>1
      <4>3. Speaks(f) /\ f.req = worker.out[i].req =>
              worker.out[i].kind = "pcm" /\ (f.kind = "pcm" => f.seq > 0)
        BY <1>5, <4>1
      <4>4. QED
        BY <1>3, <3>2, <4>1, <4>2, <4>3
    <3>3. QED
      BY <1>3, <3>1, <3>2
  <2>2. QED
    BY <1>6, <2>1 DEF InTurn
<1>11. AskedOnce'
  <2>1. ASSUME NEW i \in DOMAIN worker'.in, Asks(worker'.in[i])
        PROVE  /\ JobNow' => worker'.job.req # worker'.in[i].req
               /\ \A k \in DOMAIN worker'.out : Speaks(worker'.out[k]) => worker'.out[k].req # worker'.in[i].req
    <3>1. /\ JobNow => worker.job.req # worker.in[i].req
          /\ \A k \in DOMAIN worker.out : Speaks(worker.out[k]) => worker.out[k].req # worker.in[i].req
      BY <1>2, <2>1 DEF Pipeline, AskedOnce
    <3>2. QED
      BY <1>2, <1>3, <1>5, <3>1
  <2>2. QED
    BY <1>2, <1>6, <2>1 DEF AskedOnce, Pipeline
<1>12. DoneWhole'
  BY <1>3 DEF DoneWhole, Pipeline
<1>13. Past'
  <2>1. worker.job.gen <= gen
    BY DEF Past
  <2>2. \A i \in DOMAIN worker'.out : worker'.out[i].kind # "busy" => worker'.out[i].gen <= gen
    BY <1>3, <2>1 DEF Past
  <2>3. QED
    BY <1>2, <2>1, <2>2 DEF Past
<1>14. QED
  BY <1>2, <1>7, <1>8, <1>c, <1>9, <1>10, <1>11, <1>12, <1>13 DEF Pipeline

\* Whatever the worker did, the rest of the invariant follows.
LEMMA OutsideKeeps ==
  ASSUME IInv, UNCHANGED Outside, worker' \in WorkerT, Pipeline', Past'
  PROVE  IInv'
<1>1. Types'
  BY DEF IInv, Types, Outside
<1>2. Said'
  BY SaidSame DEF IInv, Outside
<1>3. QED
  BY <1>1, <1>2 DEF IInv

LEMMA WorkerWritesKeep ==
  ASSUME IInv, UNCHANGED Outside, Working, NEW f, NEW j,
         worker' = [worker EXCEPT !.job = j, !.out = Append(@, f)],
         \/ /\ f = Pcm(worker.job) /\ j = [worker.job EXCEPT !.next = @ + 1]
         \/ /\ f = Done(worker.job)
            /\ worker.job.stop \/ worker.job.next = Chunks
            /\ j = [worker.job EXCEPT !.over = TRUE]
         \/ f = Error(worker.job) /\ j = [worker.job EXCEPT !.over = TRUE]
  PROVE  IInv'
<1>0. worker.job \in JobT /\ ~worker.job.over /\ Types /\ Past /\ Pipeline
  BY DEF IInv, Types, WorkerT, Working
<1>1. /\ j \in JobT /\ j.gen = worker.job.gen /\ j.req = worker.job.req
      /\ f \in FrameT /\ f.kind # "busy" /\ f.gen = worker.job.gen /\ f.req = worker.job.req
      /\ f.kind # "pcm" => j.over
      /\ f.kind = "done" /\ ~f.cancelled => f.seq = Chunks
      /\ f.kind = "pcm" => f.seq = worker.job.next /\ j.next > 0
  <2>1. CASE f = Pcm(worker.job) /\ j = [worker.job EXCEPT !.next = @ + 1]
    <3>1. worker.job.next + 1 \in Nat
      BY <1>0 DEF JobT
    <3>2. j \in JobT /\ j.gen = worker.job.gen /\ j.req = worker.job.req /\ j.next > 0
      BY <1>0, <2>1, <3>1 DEF JobT
    <3>3. QED
      BY <1>0, <2>1, <3>2 DEF Pcm, FrameT, JobT
  <2>2. CASE /\ f = Done(worker.job)
             /\ worker.job.stop \/ worker.job.next = Chunks
             /\ j = [worker.job EXCEPT !.over = TRUE]
    <3>1. j \in JobT /\ j.gen = worker.job.gen /\ j.req = worker.job.req /\ j.over
      BY <1>0, <2>2 DEF JobT
    <3>2. f.kind = "done" /\ f.seq = worker.job.next /\ f.cancelled = worker.job.stop
      BY <2>2 DEF Done
    <3>3. f \in FrameT /\ f.gen = worker.job.gen /\ f.req = worker.job.req
      BY <1>0, <2>2 DEF Done, FrameT, JobT
    <3>4. QED
      BY <2>2, <3>1, <3>2, <3>3
  <2>3. CASE f = Error(worker.job) /\ j = [worker.job EXCEPT !.over = TRUE]
    <3>1. j \in JobT /\ j.gen = worker.job.gen /\ j.req = worker.job.req /\ j.over
      BY <1>0, <2>3 DEF JobT
    <3>2. QED
      BY <1>0, <2>3, <3>1 DEF Error, FrameT, JobT
  <2>4. QED
    BY <2>1, <2>2, <2>3
<1>2. Pipeline' /\ Past' /\ worker' \in WorkerT
  BY <1>0, <1>1, PipelineWrites DEF Outside
<1>3. QED
  BY <1>2, OutsideKeeps

\* The reader takes the next command: it starts a sentence, stops the one it names, or
\* answers that it is busy.
LEMMA WorkerReadsKeeps ==
  ASSUME IInv, WorkerReads
  PROVE  IInv'
<1> DEFINE c == Head(worker.in)
<1>0. /\ Types /\ Past /\ Pipeline /\ worker \in WorkerT /\ worker.in \in Seq(CmdT)
      /\ worker.in # <<>> /\ worker.job \in JobT /\ worker.out \in Seq(FrameT) /\ gen \in Nat
      /\ gen >= 1 /\ UNCHANGED Outside
  BY DEF IInv, Types, WorkerT, WorkerReads
<1>1. /\ Tail(worker.in) \in Seq(CmdT) /\ c \in CmdT
      /\ 1 \in DOMAIN worker.in /\ worker.in[1] = c
      /\ \A i \in DOMAIN Tail(worker.in) :
           i + 1 \in DOMAIN worker.in /\ i + 1 > 1 /\ Tail(worker.in)[i] = worker.in[i + 1]
      /\ \A i, j \in DOMAIN Tail(worker.in) : i + 1 = j + 1 => i = j
  BY <1>0, TailAt
<1> HIDE DEF c
<1>2. PICK j \in JobT, o \in {worker.out, Append(worker.out, Busy)} :
        /\ worker' = [worker EXCEPT !.in = Tail(worker.in), !.job = j, !.out = o]
        /\ \/ /\ c.kind = "synthesize" /\ worker.job = NoJob
              /\ j = [NoJob EXCEPT !.gen = c.gen, !.req = c.req]
           \/ /\ j.gen = worker.job.gen /\ j.req = worker.job.req /\ j.over = worker.job.over
              /\ j.next = worker.job.next
  <2> DEFINE j == CASE c.kind = "synthesize" /\ worker.job = NoJob ->
                         [NoJob EXCEPT !.gen = c.gen, !.req = c.req]
                    [] c.kind = "cancel" /\ worker.job # NoJob /\ worker.job.gen = c.gen ->
                         [worker.job EXCEPT !.stop = TRUE]
                    [] OTHER -> worker.job
             o == IF c.kind = "synthesize" /\ worker.job # NoJob
                  THEN Append(worker.out, Busy) ELSE worker.out
  <2>1. worker' = [worker EXCEPT !.in = Tail(worker.in), !.job = j, !.out = o]
    BY DEF WorkerReads, c
  <2>2. CASE c.kind = "synthesize" /\ worker.job = NoJob
    <3>1. j = [NoJob EXCEPT !.gen = c.gen, !.req = c.req]
      BY <2>2
    <3>2. j \in JobT
      <4>1. NoJob \in JobT
        BY DEF NoJob, JobT
      <4>2. c.gen \in Nat /\ c.req \in Nat
        BY <1>1 DEF CmdT
      <4>3. QED
        BY <3>1, <4>1, <4>2 DEF JobT
    <3>3. o \in {worker.out, Append(worker.out, Busy)}
      OBVIOUS
    <3> HIDE DEF j, o
    <3>4. QED
      BY <2>1, <2>2, <3>1, <3>2, <3>3
  <2>3. CASE ~(c.kind = "synthesize" /\ worker.job = NoJob)
    <3>1. j = [worker.job EXCEPT !.stop = TRUE] \/ j = worker.job
      BY <2>3
    <3>2. /\ j \in JobT /\ j.gen = worker.job.gen /\ j.req = worker.job.req
          /\ j.over = worker.job.over /\ j.next = worker.job.next
      BY <1>0, <3>1 DEF JobT
    <3>3. o \in {worker.out, Append(worker.out, Busy)}
      OBVIOUS
    <3> HIDE DEF j, o
    <3>4. QED
      BY <2>1, <3>2, <3>3
  <2>4. QED
    BY <2>2, <2>3
<1>3. o \in Seq(FrameT) /\ (\A i \in DOMAIN o : o[i] = Busy \/ (i \in DOMAIN worker.out /\ o[i] = worker.out[i]))
  <2>1. Busy \in FrameT
    BY DEF FrameT
  <2>2. QED
    BY <1>0, <2>1, AppendAt
<1>4. /\ worker'.in = Tail(worker.in) /\ worker'.out = o /\ worker'.job = j
      /\ worker'.alive = worker.alive /\ worker'.n = worker.n /\ worker' \in WorkerT
  BY <1>0, <1>1, <1>2, <1>3 DEF WorkerT
<1>5. UNCHANGED <<gen, fence, spk, gpt, heard>> /\ Begun' = Begun
  BY <1>0 DEF Outside, Begun
<1>6. Readers' = Readers /\ (\A f : Speaks(f)' = Speaks(f)) /\ (\A d : Asks(d)' = Asks(d))
  BY <1>5 DEF Readers, IsReader, Speaks, Asks
<1>7. \A i \in DOMAIN o : Speaks(o[i]) => i \in DOMAIN worker.out /\ o[i] = worker.out[i]
  BY <1>3 DEF Speaks, Busy
<1>8. JobNow' => \/ /\ JobNow /\ worker'.job.req = worker.job.req
                    /\ worker'.job.next = worker.job.next
                 \/ Asks(c) /\ worker'.job.req = c.req
  BY <1>0, <1>2, <1>4, <1>5 DEF JobNow, Asks, NoJob
<1>9. NoneAsked => NoneAsked' /\ ~Asks(c)
  BY <1>1, <1>4, <1>5 DEF NoneAsked, Asks
<1>10. Asks(c) => NoneAsked'
  <2>1. ASSUME Asks(c), NEW i \in DOMAIN Tail(worker.in), Asks(Tail(worker.in)[i])
        PROVE  FALSE
    BY <1>0, <1>1, <2>1 DEF Pipeline, AskedOnce
  <2>2. QED
    BY <1>4, <1>5, <2>1 DEF NoneAsked, Asks
<1>11. OneReader' /\ Connected'
  BY <1>0, <1>4, <1>5 DEF OneReader, Connected, Pipeline, InGpt
<1>a. JobNow' /\ ~Asks(c) => /\ \A x, B : Suits(Pcm(worker.job), x, B) => Suits(Pcm(worker'.job), x, B)
                             /\ \A B : LeftOver(Pcm(worker.job), B) => LeftOver(Pcm(worker'.job), B)
  BY <1>8 DEF Suits, LeftOver, Pcm
\* The command that is read asks for nothing of which there is a frame.
<1>b. Asks(c) => /\ \A i \in DOMAIN worker.out : Speaks(worker.out[i]) => worker.out[i].req # c.req
                 /\ \A t \in Readers : c.req = spk[t].req /\ spk[t].seq = 0
                 /\ JobNow => worker.job.req # c.req
  BY <1>0, <1>1 DEF Pipeline, Own, AskedOnce
<1>12. Own'
  <2>1. ASSUME NEW t \in Readers
        PROVE  /\ \A i \in DOMAIN o : Speaks(o[i]) => Suits(o[i], spk[t], Begun)
               /\ JobNow' => Suits(Pcm(worker'.job), spk[t], Begun)
               /\ \A i \in DOMAIN Tail(worker.in) : Asks(Tail(worker.in)[i]) =>
                    Tail(worker.in)[i].req = spk[t].req /\ spk[t].seq = 0
               /\ spk[t].at = "chunk" => spk[t].seq > 0
    <3>1. \A i \in DOMAIN o : Speaks(o[i]) => Suits(o[i], spk[t], Begun)
      BY <1>0, <1>7 DEF Pipeline, Own
    <3>2. JobNow' => Suits(Pcm(worker'.job), spk[t], Begun)
      <4>1. CASE Asks(c)
        <5>1. c.req = spk[t].req /\ spk[t].seq = 0
          BY <1>b, <2>1, <4>1
        <5>2. CASE JobNow /\ worker'.job.req = worker.job.req /\ worker'.job.next = worker.job.next
          <6>1. Pcm(worker'.job).req = Pcm(worker.job).req /\ Pcm(worker'.job).seq = Pcm(worker.job).seq
                /\ Pcm(worker'.job).kind = "pcm" /\ Pcm(worker.job).kind = "pcm"
            BY <5>2 DEF Pcm
          <6>2. Suits(Pcm(worker.job), spk[t], Begun)
            BY <1>0, <5>2, <2>1 DEF Pipeline, Own
          <6>3. QED
            BY <6>1, <6>2 DEF Suits, LeftOver
        <5>3. CASE worker'.job.req = c.req
          BY <5>1, <5>3 DEF Suits, Pcm
        <5>4. QED
          BY <1>8, <5>2, <5>3
      <4>2. CASE ~Asks(c)
        BY <1>0, <1>8, <1>a, <2>1, <4>2 DEF Pipeline, Own
      <4>3. QED
        BY <4>1, <4>2
    <3>3. /\ \A i \in DOMAIN Tail(worker.in) : Asks(Tail(worker.in)[i]) =>
               Tail(worker.in)[i].req = spk[t].req /\ spk[t].seq = 0
          /\ spk[t].at = "chunk" => spk[t].seq > 0
      BY <1>0, <1>1 DEF Pipeline, Own
    <3>4. QED
      BY <3>1, <3>2, <3>3
  <2>2. QED
    BY <1>4, <1>5, <1>6, <2>1 DEF Own
<1>c. Ordered'
  <2>1. ASSUME NEW t \in Readers, NEW i \in DOMAIN o, Speaks(o[i]), o[i].req = spk[t].req
        PROVE  /\ \A k \in DOMAIN o : k > i /\ Speaks(o[k]) => o[k].req = spk[t].req
               /\ JobNow' => worker'.job.req = spk[t].req
    <3>1. i \in DOMAIN worker.out /\ o[i] = worker.out[i]
      BY <1>7, <2>1
    <3>2. /\ \A k \in DOMAIN worker.out : k > i /\ Speaks(worker.out[k]) => worker.out[k].req = spk[t].req
          /\ JobNow => worker.job.req = spk[t].req
      BY <1>0, <2>1, <3>1 DEF Pipeline, Ordered
    <3>3. QED
      BY <1>7, <1>8, <1>b, <2>1, <3>2
  <2>2. QED
    BY <1>4, <1>5, <1>6, <2>1 DEF Ordered
<1>13. Clean'
  <2>1. ASSUME worker.alive, Readers = {}
        PROVE  /\ \A i \in DOMAIN o : Speaks(o[i]) => LeftOver(o[i], Begun)
               /\ JobNow' => LeftOver(Pcm(worker'.job), Begun)
               /\ NoneAsked'
    <3>1. /\ \A i \in DOMAIN worker.out : Speaks(worker.out[i]) => LeftOver(worker.out[i], Begun)
          /\ JobNow => LeftOver(Pcm(worker.job), Begun)
          /\ NoneAsked
      BY <1>0, <2>1 DEF Pipeline, Clean
    <3>2. QED
      BY <1>7, <1>8, <1>9, <1>a, <3>1
  <2>2. QED
    BY <1>4, <1>5, <1>6, <2>1 DEF Clean
<1>14. InTurn'
  <2>1. ASSUME NEW i \in DOMAIN o, Speaks(o[i])
        PROVE  /\ \A k \in DOMAIN o : k > i /\ Speaks(o[k]) /\ o[k].req = o[i].req =>
                    o[i].kind = "pcm" /\ (o[k].kind = "pcm" => o[k].seq > 0)
               /\ JobNow' /\ worker'.job.req = o[i].req => o[i].kind = "pcm" /\ worker'.job.next > 0
    <3>1. i \in DOMAIN worker.out /\ o[i] = worker.out[i]
      BY <1>7, <2>1
    <3>2. /\ \A k \in DOMAIN worker.out :
               k > i /\ Speaks(worker.out[k]) /\ worker.out[k].req = worker.out[i].req =>
                 worker.out[i].kind = "pcm" /\ (worker.out[k].kind = "pcm" => worker.out[k].seq > 0)
          /\ JobNow /\ worker.job.req = worker.out[i].req =>
               worker.out[i].kind = "pcm" /\ worker.job.next > 0
      BY <1>0, <2>1, <3>1 DEF Pipeline, InTurn
    <3>3. JobNow' /\ worker'.job.req = o[i].req => o[i].kind = "pcm" /\ worker'.job.next > 0
      BY <1>8, <1>b, <2>1, <3>1, <3>2
    <3>4. QED
      BY <1>7, <3>1, <3>2, <3>3
  <2>2. QED
    BY <1>4, <1>6, <2>1 DEF InTurn
<1>15. AskedOnce'
  <2>1. \A i, k \in DOMAIN Tail(worker.in) :
          Asks(Tail(worker.in)[i]) /\ Asks(Tail(worker.in)[k]) => i = k
    BY <1>0, <1>1 DEF Pipeline, AskedOnce
  <2>2. ASSUME NEW i \in DOMAIN Tail(worker.in), Asks(Tail(worker.in)[i])
        PROVE  /\ JobNow' => worker'.job.req # Tail(worker.in)[i].req
               /\ \A k \in DOMAIN o : Speaks(o[k]) => o[k].req # Tail(worker.in)[i].req
    <3>1. ~Asks(c)
      BY <1>4, <1>6, <1>10, <2>2 DEF NoneAsked
    <3>2. i + 1 \in DOMAIN worker.in /\ worker.in[i + 1] = Tail(worker.in)[i]
      BY <1>1
    <3>3. /\ JobNow => worker.job.req # worker.in[i + 1].req
          /\ \A k \in DOMAIN worker.out : Speaks(worker.out[k]) => worker.out[k].req # worker.in[i + 1].req
      BY <1>0, <2>2, <3>2 DEF Pipeline, AskedOnce
    <3>4. QED
      BY <1>7, <1>8, <3>1, <3>2, <3>3
  <2>3. QED
    BY <1>4, <1>6, <2>1, <2>2 DEF AskedOnce
<1>16. DoneWhole'
  BY <1>0, <1>3, <1>4 DEF DoneWhole, Pipeline, Busy
<1>17. Past'
  <2>1. c.gen <= gen /\ \A i \in DOMAIN Tail(worker.in) : Tail(worker.in)[i].gen <= gen
    BY <1>0, <1>1 DEF Past
  <2>2. j.gen <= gen
    BY <1>0, <1>2, <2>1 DEF Past, NoJob
  <2>3. \A i \in DOMAIN o : o[i].kind # "busy" => o[i].gen <= gen
    BY <1>0, <1>3 DEF Past, Busy
  <2>4. QED
    BY <1>0, <1>4, <1>5, <2>1, <2>2, <2>3 DEF Past
<1>18. QED
  BY <1>0, <1>4, <1>11, <1>12, <1>c, <1>13, <1>14, <1>15, <1>16, <1>17, OutsideKeeps DEF Pipeline

LEMMA ThreadEndsKeeps ==
  ASSUME IInv, ThreadEnds
  PROVE  IInv'
<1>0. /\ Types /\ Past /\ Pipeline /\ worker \in WorkerT /\ worker.job.over
      /\ worker' = [worker EXCEPT !.job = NoJob] /\ UNCHANGED Outside
      /\ gen \in Nat /\ gen >= 1
  BY DEF IInv, Types, ThreadEnds
<1>1. UNCHANGED <<gen, fence, spk, gpt, heard>> /\ Begun' = Begun
  BY <1>0 DEF Outside, Begun
<1>2. /\ worker'.in = worker.in /\ worker'.out = worker.out /\ worker'.job = NoJob
      /\ worker'.alive = worker.alive /\ worker'.n = worker.n /\ worker' \in WorkerT
  <2>1. NoJob \in JobT
    BY DEF NoJob, JobT
  <2>2. QED
    BY <1>0, <2>1 DEF WorkerT
<1>3. ~JobNow /\ ~JobNow' /\ Readers' = Readers
  BY <1>0, <1>1, <1>2 DEF JobNow, NoJob, Readers, IsReader
<1>4. Pipeline'
  BY <1>0, <1>1, <1>2, <1>3 DEF Pipeline, OneReader, InGpt, Connected, Own, Ordered,
     Clean, InTurn, AskedOnce, DoneWhole, Speaks, Asks, NoneAsked
<1>5. Past'
  BY <1>0, <1>1, <1>2 DEF Past, NoJob
<1>6. QED
  BY <1>0, <1>2, <1>4, <1>5, OutsideKeeps

\* A killed worker, by a fault or by the fence.
LEMMA WorkerTroubleKeeps ==
  ASSUME IInv, WorkerTrouble
  PROVE  IInv'
<1>0. Types /\ Past /\ Pipeline /\ worker \in WorkerT /\ UNCHANGED Outside
  BY DEF IInv, Types, WorkerTrouble
<1>1. UNCHANGED <<gen, fence, spk, gpt, heard>> /\ Begun' = Begun
  BY <1>0 DEF Outside, Begun
<1>2. CASE worker' = [worker EXCEPT !.alive = FALSE]
  <2>1. worker' \in WorkerT /\ worker'.in = worker.in /\ worker'.out = worker.out
        /\ worker'.job = worker.job
    BY <1>0, <1>2 DEF WorkerT
  <2>2. Pipeline'
    BY <1>0, <1>1, <1>2, PipelineKilled DEF InGpt, IsReader
  <2>3. Past'
    BY <1>0, <1>1, <2>1 DEF Past
  <2>4. QED
    BY <1>0, <2>1, <2>2, <2>3, OutsideKeeps
<1>3. CASE worker' = [worker EXCEPT !.hung = TRUE]
  <2>1. worker' \in WorkerT /\ worker'.in = worker.in /\ worker'.out = worker.out
        /\ worker'.job = worker.job /\ worker'.alive = worker.alive /\ worker'.n = worker.n
    BY <1>0, <1>3 DEF WorkerT
  <2>2. Pipeline'
    BY <1>0, <1>1, <2>1 DEF Pipeline, OneReader, InGpt, Connected, Own, Ordered, Clean, InTurn, AskedOnce,
       DoneWhole, Readers, IsReader, Speaks, JobNow, Asks, NoneAsked
  <2>3. Past'
    BY <1>0, <1>1, <2>1 DEF Past
  <2>4. QED
    BY <1>0, <2>1, <2>2, <2>3, OutsideKeeps
<1>4. CASE /\ Working
           /\ worker' = [worker EXCEPT !.job.over = TRUE, !.out = Append(@, Error(worker.job))]
  <2>1. worker' = [worker EXCEPT !.job = [worker.job EXCEPT !.over = TRUE],
                                 !.out = Append(@, Error(worker.job))]
    BY <1>4
  <2>2. QED
    BY <1>0, <1>4, <2>1, WorkerWritesKeep
<1>5. QED
  BY <1>2, <1>3, <1>4 DEF WorkerTrouble

LEMMA WorkerRunsKeeps ==
  ASSUME IInv, WorkerRuns
  PROVE  IInv'
<1>1. CASE WorkerSpeaks
  <2>1. worker' = [worker EXCEPT !.job = [worker.job EXCEPT !.next = @ + 1],
                                 !.out = Append(@, Pcm(worker.job))]
    BY <1>1 DEF WorkerSpeaks
  <2>2. Working /\ UNCHANGED Outside
    BY <1>1 DEF WorkerSpeaks
  <2>3. QED
    BY <2>1, <2>2, WorkerWritesKeep
<1>2. CASE WorkerFinishes
  <2>1. worker' = [worker EXCEPT !.job = [worker.job EXCEPT !.over = TRUE],
                                 !.out = Append(@, Done(worker.job))]
    BY <1>2 DEF WorkerFinishes
  <2>2. Working /\ UNCHANGED Outside /\ (worker.job.stop \/ worker.job.next = Chunks)
    BY <1>2 DEF WorkerFinishes
  <2>3. QED
    BY <2>1, <2>2, WorkerWritesKeep
<1>3. QED
  BY <1>1, <1>2, WorkerReadsKeeps, ThreadEndsKeeps DEF WorkerRuns
-----------------------------------------------------------------------------
(* The driver of the system voice and the coordinator.                     *)

\* A step of neither a sentence, nor the private voice, nor the fence.
LEMMA VoiceKeeps ==
  ASSUME IInv, UNCHANGED <<gen, fence, asked, spk, gpt, worker, heard, whole>>,
         av' \in AvT, synth' \in SynthT
  PROVE  IInv'
<1>1. Types' /\ Past'
  BY DEF IInv, Types, Past
<1>2. QED
  BY <1>1, PipelineSame, SaidSame DEF IInv

LEMMA PumpDeliversKeeps ==
  ASSUME IInv, PumpDelivers
  PROVE  IInv'
<1> DEFINE U == [req : Nat, next : Nat]
           u == Head(synth.utterances)
<1>0. /\ synth \in SynthT /\ av \in AvT /\ synth.utterances \in Seq(U)
      /\ synth.utterances # <<>> /\ synth.callback \in Nat
      /\ UNCHANGED <<gen, fence, asked, spk, gpt, worker, av, heard, whole>>
  BY DEF IInv, Types, SynthT, PumpDelivers
<1>1. u \in U /\ Tail(synth.utterances) \in Seq(U)
  BY <1>0, TailAt
<1>2. Buffer(u) \in ItemT
  BY <1>1 DEF Buffer, Chunk, ItemT
<1>3. [u EXCEPT !.next = @ + 1] \in U
  BY <1>1
<1>4. \A v \in U : <<v>> \o Tail(synth.utterances) \in Seq(U)
  BY <1>1
<1> DEFINE rest == IF u.next <= Chunks
                   THEN <<[u EXCEPT !.next = @ + 1]>> \o Tail(synth.utterances)
                   ELSE Tail(synth.utterances)
           p == [queue |-> synth.callback, item |-> Buffer(u)]
<1>5. rest \in Seq(U) /\ p \in [queue : Nat, item : ItemT]
  BY <1>0, <1>1, <1>2, <1>3, <1>4
<1>6. synth' = [synth EXCEPT !.puts = <<p>>, !.utterances = rest]
  BY DEF PumpDelivers
<1> HIDE DEF rest, p
<1>7. <<p>> \in Seq([queue : Nat, item : ItemT])
  BY <1>5
<1>8. synth' \in SynthT
  BY <1>0, <1>5, <1>6, <1>7 DEF SynthT
<1>9. QED
  BY <1>0, <1>8, VoiceKeeps

LEMMA SilencedTyped ==
  ASSUME synth \in SynthT
  PROVE  /\ Silenced \in SynthT /\ [Silenced EXCEPT !.puts = <<>>] \in SynthT
         /\ [synth EXCEPT !.puts = <<>>] \in SynthT
<1>1. <<>> \in Seq([req : Nat, next : Nat]) /\ <<>> \in Seq([queue : Nat, item : ItemT])
  OBVIOUS
<1>2. Silenced \in SynthT
  BY <1>1 DEF Silenced, SynthT
<1>3. QED
  BY <1>1, <1>2 DEF SynthT

LEMMA PutKeeps ==
  ASSUME IInv, Put
  PROVE  IInv'
<1> DEFINE p == Head(synth.puts)
<1>0. /\ synth \in SynthT /\ av \in AvT /\ synth.puts \in Seq([queue : Nat, item : ItemT])
      /\ synth.puts # <<>> /\ av.queue \in Seq(ItemT)
      /\ UNCHANGED <<gen, fence, asked, spk, gpt, worker, heard, whole>>
  BY DEF IInv, Types, SynthT, AvT, Put
<1>a. p \in [queue : Nat, item : ItemT]
  BY <1>0, TailAt
<1> HIDE DEF p
<1>1. p.item \in ItemT
  BY <1>a
<1>2. synth' \in {[synth EXCEPT !.puts = <<>>], [Silenced EXCEPT !.puts = <<>>]}
  BY DEF Put
<1>3. /\ <<p.item>> \in Seq(ItemT) /\ Append(av.queue, p.item) \in Seq(ItemT)
      /\ <<Chunk("error", 0, 0)>> \in Seq(ItemT)
  <2>1. Chunk("error", 0, 0) \in ItemT
    BY DEF Chunk, ItemT
  <2>2. QED
    BY <1>0, <1>1, <2>1
<1>4. \/ av' = av
      \/ av' = [av EXCEPT !.queue = <<p.item>>]
      \/ av' = [av EXCEPT !.queue = Append(av.queue, p.item)]
      \/ av' = [av EXCEPT !.queue = <<Chunk("error", 0, 0)>>]
  BY DEF Put, p
<1>5. av' \in AvT
  BY <1>0, <1>3, <1>4 DEF AvT
<1>6. QED
  BY <1>0, <1>2, <1>5, SilencedTyped, VoiceKeeps

\* Nothing is of the generation that begins.
LEMMA FenceMovesKeeps ==
  ASSUME IInv, FenceMoves
  PROVE  IInv'
<1>0. /\ Types /\ Past /\ Pipeline /\ Said /\ gen \in Nat /\ gen' = gen + 1
      /\ fence' = [at |-> "playback", prev |-> gen, req |-> 0]
      /\ UNCHANGED <<preferred, active, asked, spk, gpt, worker, av, synth, heard, whole>>
      /\ worker \in WorkerT /\ spk \in [Speakers -> SpkT] /\ gpt \in GptT
  BY DEF IInv, Types, FenceMoves
<1>1. Types'
  BY <1>0 DEF Types
<1>2. \A g \in Nat : g <= gen => g <= gen' /\ g # gen' /\ g < gen'
  BY <1>0
<1>3. Past'
  <2>1. \A c \in gpt.cancelled : c < gen'
    BY <1>0, <1>2 DEF Past, GptT
  <2>2. \A s \in Speakers : spk[s].gen <= gen'
    BY <1>0, <1>2 DEF Past, SpkT
  <2>3. worker.job.gen <= gen'
    BY <1>0, <1>2 DEF Past, WorkerT, JobT
  <2>4. \A i \in DOMAIN worker.out : worker.out[i].kind # "busy" => worker.out[i].gen <= gen'
    <3>1. ASSUME NEW i \in DOMAIN worker.out, worker.out[i].kind # "busy"
          PROVE  worker.out[i].gen \in Nat
      <4>1. worker.out[i] \in FrameT
        BY <1>0 DEF WorkerT
      <4>2. QED
        BY <3>1, <4>1 DEF FrameT, Busy
    <3>2. QED
      BY <1>0, <1>2, <3>1 DEF Past
  <2>5. \A i \in DOMAIN worker.in : worker.in[i].gen <= gen'
    <3>1. \A i \in DOMAIN worker.in : worker.in[i] \in CmdT
      BY <1>0 DEF WorkerT
    <3>2. QED
      BY <1>0, <1>2, <3>1 DEF Past, CmdT
  <2>6. fence'.prev < gen'
    BY <1>0
  <2>7. QED
    BY <1>0, <2>1, <2>2, <2>3, <2>4, <2>5, <2>6 DEF Past
<1>4. \A s \in Speakers : ~IsReader(spk[s])'
  BY <1>0 DEF Past, IsReader, SpkT
<1>5. /\ \A i \in DOMAIN worker.out : ~Speaks(worker.out[i])'
      /\ ~JobNow' /\ NoneAsked' /\ \A i \in DOMAIN worker.in : ~Asks(worker.in[i])'
  <2>1. ASSUME NEW i \in DOMAIN worker.out, Speaks(worker.out[i])'
        PROVE  FALSE
    <3>1. worker.out[i].kind # "busy" /\ worker.out[i].gen = gen + 1
      BY <1>0, <2>1 DEF Speaks
    <3>2. QED
      BY <1>0, <3>1 DEF Past
  <2>2. ASSUME NEW i \in DOMAIN worker.in, Asks(worker.in[i])'
        PROVE  FALSE
    BY <1>0, <2>2 DEF Past, Asks
  <2>3. ~JobNow'
    BY <1>0 DEF Past, JobNow
  <2>4. QED
    BY <1>0, <2>1, <2>2, <2>3 DEF NoneAsked
<1>6. OneReader' /\ Connected' /\ DoneWhole'
  BY <1>0 DEF Pipeline, OneReader, Connected, DoneWhole, InGpt
<1>7. Own' /\ Ordered' /\ Clean' /\ InTurn' /\ AskedOnce'
  BY <1>0, <1>4, <1>5 DEF Own, Ordered, Clean, InTurn, AskedOnce, Readers
<1>8. Said'
  <2>1. \A s \in Speakers : spk'[s].at # "idle" => Stands(spk[s])'
    BY <1>0, <1>4 DEF Said, Stands, Pure, NoGpt
  <2>2. QED
    BY <1>0, <2>1 DEF Said, Pure, NoGpt
<1>9. QED
  BY <1>1, <1>3, <1>6, <1>7, <1>8 DEF IInv, Pipeline

\* The worker is told to stop a past generation.
LEMMA CommandKeeps ==
  ASSUME IInv, NEW g \in Nat, g < gen,
         worker' = [worker EXCEPT !.in = Append(@, Command("cancel", g, 0))],
         UNCHANGED <<gen, asked, spk, heard, whole, av, synth>>,
         gpt' \in GptT, gpt'.conn = gpt.conn, gpt'.cancelled \subseteq gpt.cancelled \union {g},
         fence' = [fence EXCEPT !.at = "gpt", !.req = fence'.req]
  PROVE  IInv'
<1> DEFINE c == Command("cancel", g, 0)
<1>0. /\ Types /\ Past /\ Pipeline /\ Said /\ worker \in WorkerT /\ worker.in \in Seq(CmdT)
      /\ c \in CmdT /\ c.kind = "cancel" /\ c.gen = g /\ gen \in Nat
  BY DEF IInv, Types, WorkerT, Command, CmdT
<1> HIDE DEF c
<1>1. /\ Append(worker.in, c) \in Seq(CmdT)
      /\ \A i \in DOMAIN Append(worker.in, c) :
           \/ Append(worker.in, c)[i] = c
           \/ i \in DOMAIN worker.in /\ Append(worker.in, c)[i] = worker.in[i]
  BY <1>0, AppendAt
<1>2. /\ worker'.in = Append(worker.in, c) /\ worker'.out = worker.out /\ worker'.job = worker.job
      /\ worker'.alive = worker.alive /\ worker'.n = worker.n /\ worker' \in WorkerT
  BY <1>0, <1>1 DEF WorkerT, c
<1>3. \A i \in DOMAIN worker'.in : Asks(worker'.in[i]) =>
        i \in DOMAIN worker.in /\ worker'.in[i] = worker.in[i]
  BY <1>0, <1>1, <1>2 DEF Asks
<1>4. /\ fence'.at = "gpt" /\ fence'.prev = fence.prev
      /\ fence' = [at |-> fence'.at, prev |-> fence'.prev, req |-> fence'.req]
  BY <1>0 DEF Types
<1>5. Types'
  BY <1>0, <1>2, <1>4 DEF Types
<1>6. Past'
  <2>1. \A i \in DOMAIN worker'.in : worker'.in[i].gen <= gen
    BY <1>0, <1>1, <1>2 DEF Past
  <2>2. \A d \in gpt'.cancelled : d < gen
    BY <1>0 DEF Past
  <2>3. QED
    BY <1>0, <1>2, <1>4, <2>1, <2>2 DEF Past
<1>7. Readers' = Readers /\ Begun' = Begun /\ (NoneAsked => NoneAsked')
  BY <1>3 DEF Readers, IsReader, Begun, NoneAsked, Asks
<1>8. Pipeline'
  <2>1. OneReader' /\ Connected' /\ DoneWhole'
    BY <1>0, <1>2 DEF Pipeline, OneReader, Connected, DoneWhole, InGpt
  <2>2. Own' /\ Ordered'
    BY <1>0, <1>2, <1>3, <1>7 DEF Pipeline, Own, Ordered, Speaks, JobNow, Asks
  <2>3. Clean' /\ InTurn'
    BY <1>0, <1>2, <1>7 DEF Pipeline, Clean, InTurn, Speaks, JobNow
  <2>4. AskedOnce'
    BY <1>0, <1>2, <1>3, <1>7 DEF Pipeline, AskedOnce, Speaks, Asks, JobNow
  <2>5. QED
    BY <2>1, <2>2, <2>3, <2>4 DEF Pipeline
<1>9. Said'
  BY <1>0, SaidSame
<1>10. QED
  BY <1>5, <1>6, <1>8, <1>9 DEF IInv

\* The worker is as it was, or disowned and killed.
LEMMA DisownKeeps ==
  ASSUME IInv, UNCHANGED <<gen, asked, spk, heard, whole>>,
         av' \in AvT, synth' \in SynthT, gpt' \in GptT,
         \/ UNCHANGED worker /\ (gpt'.conn = gpt.conn \/ ~worker.alive)
         \/ worker' = [worker EXCEPT !.alive = FALSE],
         gpt'.cancelled \subseteq gpt.cancelled \union {fence.prev},
         gpt'.cancelled \subseteq gpt.cancelled \/ fence.prev < gen,
         fence' = NoFence
  PROVE  IInv'
<1>0. Types /\ Past /\ Pipeline /\ Said /\ worker \in WorkerT
  BY DEF IInv, Types
<1>1. /\ worker'.in = worker.in /\ worker'.out = worker.out /\ worker'.job = worker.job
      /\ worker' \in WorkerT
  BY <1>0 DEF WorkerT
<1>2. Types'
  BY <1>0, <1>1 DEF Types, NoFence
<1>3. Past'
  BY <1>0, <1>1 DEF Past, NoFence
<1>4. Pipeline'
  <2>1. CASE UNCHANGED worker /\ gpt'.conn = gpt.conn
    BY <1>0, <2>1, PipelineSame
  <2>2. CASE UNCHANGED worker /\ ~worker.alive
    <3>1. worker' = [worker EXCEPT !.alive = FALSE]
      BY <1>0, <2>2 DEF WorkerT
    <3>2. QED
      BY <1>0, <3>1, PipelineKilled DEF InGpt, IsReader
  <2>3. CASE worker' = [worker EXCEPT !.alive = FALSE]
    BY <1>0, <2>3, PipelineKilled DEF InGpt, IsReader
  <2>4. QED
    BY <2>1, <2>2, <2>3
<1>5. Said'
  BY <1>0, SaidSame
<1>6. QED
  BY <1>2, <1>3, <1>4, <1>5 DEF IInv

LEMMA FenceRunsKeeps ==
  ASSUME IInv, FenceRuns
  PROVE  IInv'
<1> DEFINE g == fence.prev
<1>0. /\ Types /\ Past /\ g \in Nat /\ gpt \in GptT /\ av \in AvT /\ synth \in SynthT
      /\ UNCHANGED <<gen, preferred, active, asked, spk, heard, whole>>
  BY DEF IInv, Types, FenceRuns, FenceCancels, FenceDone, FenceTimesOut
<1> DEFINE marked == [gpt EXCEPT !.cancelled = @ \union {g}]
<1>1. marked \in GptT /\ marked.conn = gpt.conn /\ marked.cancelled = gpt.cancelled \union {g}
  BY <1>0 DEF GptT
<1>2. fence.at = "playback" => g < gen
  BY <1>0 DEF Past
<1>3. CASE FenceDone
  BY <1>0, <1>3, DisownKeeps DEF FenceDone
<1>4. CASE FenceTimesOut
  <2>1. /\ gpt' = [gpt EXCEPT !.restart = @ \/ gpt.conn # 0, !.conn = 0]
        /\ worker' = [worker EXCEPT !.alive = FALSE] /\ fence' = NoFence /\ UNCHANGED <<av, synth>>
    BY <1>4 DEF FenceTimesOut, DropsWorker
  <2>2. gpt' \in GptT /\ gpt'.cancelled = gpt.cancelled
    BY <1>0, <2>1 DEF GptT
  <2>3. QED
    BY <1>0, <2>1, <2>2, DisownKeeps
<1>5. CASE FenceCancels
  <2>0. fence.at = "playback" /\ g < gen
    BY <1>2, <1>5 DEF FenceCancels
  <2>1. CASE fence' = NoFence /\ UNCHANGED <<gpt, worker, av, synth>>
    BY <1>0, <2>0, <2>1, DisownKeeps
  <2>2. CASE fence' = NoFence /\ AvCancel(g) /\ UNCHANGED <<gpt, worker>>
    <3>1. Chunk("end", 0, 0) \in ItemT
      BY DEF Chunk, ItemT
    <3>2. <<Chunk("end", 0, 0)>> \in Seq(ItemT) /\ av.queue \in Seq(ItemT)
          /\ av.cancelled \union {g} \in SUBSET Nat
      BY <1>0, <3>1 DEF AvT
    <3>3. av' \in AvT
      <4>1. CASE av.gen = g
        BY <1>0, <2>2, <3>2, <4>1 DEF AvCancel, AvT
      <4>2. CASE av.gen # g
        BY <1>0, <2>2, <3>2, <4>2 DEF AvCancel, AvT
      <4>3. QED
        BY <4>1, <4>2
    <3>4. synth' \in SynthT
      BY <1>0, <2>2, SilencedTyped DEF AvCancel
    <3>5. QED
      BY <1>0, <2>0, <2>2, <3>3, <3>4, DisownKeeps
  <2>3. CASE GptCancel(g) /\ UNCHANGED <<av, synth>>
    <3>1. CASE fence' = NoFence /\ gpt' = marked /\ UNCHANGED worker
      BY <1>0, <1>1, <2>0, <2>3, <3>1, DisownKeeps
    <3>2. CASE /\ gpt' = marked
               /\ worker' = [worker EXCEPT !.in = Append(@, Command("cancel", g, 0))]
               /\ fence' = [fence EXCEPT !.at = "gpt", !.req = Owner(g)]
      <4>1. fence'.req = Owner(g)
        BY <1>0, <3>2 DEF Types
      <4>2. fence' = [fence EXCEPT !.at = "gpt", !.req = fence'.req]
        BY <3>2, <4>1
      <4>3. gpt' \in GptT /\ gpt'.conn = gpt.conn /\ gpt'.cancelled \subseteq gpt.cancelled \union {g}
        BY <1>1, <3>2
      <4> HIDE DEF g, marked
      <4>4. QED
        BY <1>0, <2>0, <2>3, <3>2, <4>2, <4>3, CommandKeeps
    <3>3. CASE /\ ~worker.alive /\ gpt' = [marked EXCEPT !.conn = 0, !.restart = TRUE]
               /\ fence' = NoFence /\ UNCHANGED worker
      <4>1. gpt' \in GptT /\ gpt'.cancelled = gpt.cancelled \union {g}
        <5> HIDE DEF marked
        <5>1. QED
          BY <1>1, <3>3 DEF GptT
      <4>2. QED
        BY <1>0, <2>0, <2>3, <3>3, <4>1, DisownKeeps
    <3>4. QED
      BY <2>3, <3>1, <3>2, <3>3 DEF GptCancel
  <2>4. QED
    BY <1>5, <2>1, <2>2, <2>3 DEF FenceCancels
<1>6. QED
  BY <1>3, <1>4, <1>5 DEF FenceRuns
-----------------------------------------------------------------------------
\* Every reachable state of the voices satisfies the invariant, whatever the fence,
\* the worker and the tasks do and in whatever order.
THEOREM Invariance == Spec => []IInv
<1>1. Init => IInv
  BY Start
<1>2. ASSUME IInv, [Next]_vars
      PROVE  IInv'
  <2>1. ASSUME NEW s \in Speakers, Progress(s)
        PROVE  IInv'
    BY <1>2, <2>1, GptLockKeeps, AvLockKeeps, LaunchReturnsKeeps, GptReceivesKeeps, GptEofKeeps,
       RetireEndsKeeps, SubmitReturnsKeeps, GeneratorClosedKeeps, AvReceivesKeeps DEF Progress
  <2>2. CASE UNCHANGED vars
    <3>1. UNCHANGED <<gen, fence, asked, spk, gpt, worker, av, synth, heard, whole>>
      BY <2>2 DEF vars
    <3>2. av' \in AvT /\ synth' \in SynthT
      BY <1>2, <3>1 DEF IInv, Types
    <3>3. QED
      BY <1>2, <3>1, <3>2, VoiceKeeps
  <2>3. QED
    BY <1>2, <2>1, <2>2, SpeakKeeps, LaunchFailsKeeps, WorkerRunsKeeps, WorkerTroubleKeeps,
       PumpDeliversKeeps, PutKeeps, FenceMovesKeeps, FenceRunsKeeps DEF Next
<1>3. QED
  BY <1>1, <1>2, PTL DEF Spec

\* What is heard of a sentence the private voice began is that sentence, in order, and
\* all of it when the sentence is stored as spoken (gpt_sovits.py:364-388).
THEOREM ThePrivateVoiceSaysItsOwn == Spec => []GptSpeaksItsOwn
<1>1. IInv => GptSpeaksItsOwn
  <2> SUFFICES ASSUME IInv, NEW r \in Requests,
                      \E i \in DOMAIN heard[r] : heard[r][i].voice = "gpt"
               PROVE  /\ \A i \in DOMAIN heard[r] : heard[r][i] = Chunk("gpt", r, i - 1)
                      /\ r \in whole => Len(heard[r]) = Chunks
    BY DEF GptSpeaksItsOwn
  <2>1. ~NoGpt(r) /\ Said
    BY DEF NoGpt, IInv
  <2>2. QED
    BY <2>1 DEF Said, Pure
<1>2. QED
  BY Invariance, <1>1, PTL
=============================================================================
