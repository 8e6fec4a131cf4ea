----------------------------- MODULE UiHostProofs -----------------------------
(***************************************************************************)
(* Machine-checked proofs about UiHost, for every set of threads and every *)
(* bound: a call keeps its thread, no engine is built beside another or    *)
(* left open by the end, and the page converges.  The last part is about   *)
(* the engine below the host, EngineStreams: a raised flush flag is never  *)
(* forgotten by the executor, for every set of devices and of events.      *)
(***************************************************************************)
EXTENDS UiHost, EngineStreams, TLAPS

-----------------------------------------------------------------------------
(* The host.                                                               *)

\* Where the builder of an engine can be: in the startup task, which ends with
\* the host's run, or in a command that is not answered yet.
BuildPlaced ==
  /\ build \in {NoBuild} \cup [by : {"startup", "command"}, at : {"factory", "start"}]
  /\ build.by = "startup" => host = "run" /\ ~started
  /\ build.by = "command" => command = "refresh" /\ started

\* The host closes the runtime only when no client and no handler is left.
ClosedInOrder ==
  /\ host \in {"run", "tasks", "server", "ended"}
  /\ host # "run" => started
  /\ host \in {"server", "ended"} => command = None /\ conn = "gone"

EngineOwned ==
  /\ engine => started /\ ~Refreshing
  /\ host = "ended" => ~engine

\* The thread a call will bind is chosen before the engine is asked.
CallChosen == command = "mic_on" => engine /\ session = active /\ call \in {None, active}

\* The inductive invariant.
IInv ==
  /\ BuildPlaced
  /\ ClosedInOrder
  /\ EngineOwned
  /\ CallChosen
  /\ CallKeepsThread
-----------------------------------------------------------------------------
LEMMA InitEstablishes == Init => IInv
BY DEF Init, IInv, BuildPlaced, ClosedInOrder, EngineOwned, CallChosen, CallKeepsThread,
       NoBuild, None, Refreshing

\* The feed to the page touches nothing of the engine's life.
LEMMA FeedPreserves ==
  ASSUME IInv, Tick \/ TakeEvent \/ Sent \/ SpeechBegins \/ TurnEnds \/ MicrophoneLost
               \/ Connect \/ Disconnect \/ GetStatus \/ ForgetMemory
  PROVE  IInv'
<1> USE DEF IInv, BuildPlaced, ClosedInOrder, EngineOwned, CallChosen, CallKeepsThread,
            Refreshing, life, talk
<1>1. CASE Tick BY <1>1 DEF Tick, client
<1>2. CASE TakeEvent BY <1>2 DEF TakeEvent, client
<1>3. CASE Sent BY <1>3 DEF Sent
<1>4. CASE SpeechBegins BY <1>4 DEF SpeechBegins, client
<1>5. CASE TurnEnds BY <1>5 DEF TurnEnds, client
<1>6. CASE MicrophoneLost BY <1>6 DEF MicrophoneLost, client
<1>7. CASE Connect BY <1>7 DEF Connect
<1>8. CASE Disconnect BY <1>8 DEF Disconnect
<1>9. CASE GetStatus BY <1>9 DEF GetStatus
<1>10. CASE ForgetMemory BY <1>10 DEF ForgetMemory
<1> QED BY <1>1, <1>2, <1>3, <1>4, <1>5, <1>6, <1>7, <1>8, <1>9, <1>10

\* No command but set_microphone touches the call, and while a call is on no
\* command but those of its own thread moves the engine's.
LEMMA CommandsPreserve ==
  ASSUME IInv, (\E th \in Threads : SelectThread(th)) \/ SubmitText
               \/ MicrophoneOn \/ MicrophoneOff
               \/ RequestMicrophoneAccess \/ CheckAudioDevices \/ EngineAnswered
  PROVE  IInv'
<1> USE DEF IInv, BuildPlaced, ClosedInOrder, EngineOwned, CallChosen, CallKeepsThread,
            Refreshing, Ready, InCallThread, life, talk, feed, None
<1>1. ASSUME NEW th \in Threads, SelectThread(th) PROVE IInv'
  BY <1>1 DEF SelectThread
<1>2. CASE SubmitText BY <1>2 DEF SubmitText
<1>3. CASE MicrophoneOn BY <1>3 DEF MicrophoneOn
<1>4. CASE MicrophoneOff BY <1>4 DEF MicrophoneOff
<1>5. CASE RequestMicrophoneAccess BY <1>5 DEF RequestMicrophoneAccess
<1>6. CASE CheckAudioDevices BY <1>6 DEF CheckAudioDevices, RequestMicrophoneAccess
<1>7. CASE EngineAnswered BY <1>7 DEF EngineAnswered
<1> QED BY <1>1, <1>2, <1>3, <1>4, <1>5, <1>6, <1>7

\* A call begins in the thread that was chosen when the command began.
LEMMA MicrophoneAnsweredPreserves == IInv /\ MicrophoneAnswered => IInv'
<1> SUFFICES ASSUME IInv, MicrophoneAnswered PROVE IInv'
  OBVIOUS
<1> USE DEF IInv, MicrophoneAnswered, Refreshing, life, None
<1>1. BuildPlaced' /\ ClosedInOrder' /\ EngineOwned'
  BY DEF BuildPlaced, ClosedInOrder, EngineOwned
<1>2. CallChosen' /\ CallKeepsThread'
  BY DEF CallChosen, CallKeepsThread
<1> QED BY <1>1, <1>2

\* An engine is built only where there is none, and kept by whoever asked for it.
LEMMA BuildPreserves ==
  ASSUME IInv, NEW by \in {"startup", "command"},
         BeginRefresh(by) \/ NothingToBuild \/ FactoryFailed \/ FactoryReturned
           \/ StartFailed \/ EngineStarted
  PROVE  IInv'
<1> USE DEF IInv, BuildPlaced, ClosedInOrder, EngineOwned, CallChosen, CallKeepsThread,
            Refreshing, Refreshed, NoBuild, None, talk
<1>1. CASE BeginRefresh(by) BY <1>1 DEF BeginRefresh, Ready
<1>2. CASE NothingToBuild BY <1>2 DEF NothingToBuild, client
<1>3. CASE FactoryFailed BY <1>3 DEF FactoryFailed
<1>4. CASE FactoryReturned BY <1>4 DEF FactoryReturned, client
<1>5. CASE StartFailed BY <1>5 DEF StartFailed
<1>6. CASE EngineStarted BY <1>6 DEF EngineStarted
<1> QED BY <1>1, <1>2, <1>3, <1>4, <1>5, <1>6

\* The cleanup ends what is being built before it closes the engine.
LEMMA CleanupPreserves ==
  ASSUME IInv, Stop \/ CloseServer \/ CloseRuntime
  PROVE  IInv'
<1> USE DEF IInv, BuildPlaced, ClosedInOrder, EngineOwned, CallChosen, CallKeepsThread,
            Refreshing, NoBuild, None
<1>1. CASE Stop BY <1>1 DEF Stop, talk
<1>2. CASE CloseServer BY <1>2 DEF CloseServer, talk
<1>3. CASE CloseRuntime BY <1>3 DEF CloseRuntime, client
<1> QED BY <1>1, <1>2, <1>3

LEMMA StutterPreserves == IInv /\ UNCHANGED vars => IInv'
BY DEF IInv, BuildPlaced, ClosedInOrder, EngineOwned, CallChosen, CallKeepsThread, Refreshing,
       vars, life, talk, client

LEMMA NextPreserves == IInv /\ [Next]_vars => IInv'
<1> SUFFICES ASSUME IInv, [Next]_vars PROVE IInv'
  OBVIOUS
<1>1. CASE Tick \/ TakeEvent \/ Sent \/ SpeechBegins \/ TurnEnds \/ MicrophoneLost
          \/ Connect \/ Disconnect
  BY <1>1, FeedPreserves
<1>2. CASE Handle
  <2>1. CASE GetStatus \/ ForgetMemory BY <2>1, FeedPreserves
  <2>2. CASE BeginRefresh("command") BY <2>2, BuildPreserves
  <2>3. CASE CheckAudioDevices \/ RequestMicrophoneAccess \/ MicrophoneOn \/ MicrophoneOff
            \/ SubmitText
    BY <2>3, CommandsPreserve
  <2>4. CASE \E th \in Threads : SelectThread(th) BY <2>4, CommandsPreserve
  <2> QED BY <1>2, <2>1, <2>2, <2>3, <2>4 DEF Handle
<1>3. CASE MicrophoneAnswered BY <1>3, MicrophoneAnsweredPreserves
<1>4. CASE EngineAnswered BY <1>4, CommandsPreserve
<1>5. CASE BeginRefresh("startup") \/ NothingToBuild \/ FactoryFailed \/ FactoryReturned
          \/ StartFailed \/ EngineStarted
  BY <1>5, BuildPreserves
<1>6. CASE Stop \/ CloseServer \/ CloseRuntime BY <1>6, CleanupPreserves
<1>7. CASE UNCHANGED vars BY <1>7, StutterPreserves
<1> QED BY <1>1, <1>2, <1>3, <1>4, <1>5, <1>6, <1>7 DEF Next
-----------------------------------------------------------------------------
\* The inductive invariant holds in every reachable state.
THEOREM Invariance == Spec => []IInv
BY InitEstablishes, NextPreserves, PTL DEF Spec

\* While a call is on, the engine's thread is the call's, whatever thread the page
\* selects, however long the engine takes to turn the microphone on, and although
\* the call is stored apart from the thread the engine is in.
THEOREM CallsKeepTheirThread == Spec => []CallKeepsThread
<1>1. IInv => CallKeepsThread
  BY DEF IInv
<1> QED BY <1>1, Invariance, PTL

\* The runtime never builds an engine beside the one it has, and when the host has
\* ended there is none left that it owns, whoever was building one at shutdown.
THEOREM EnginesAreAccounted == Spec => []EnginesAccounted
<1>1. IInv => EnginesAccounted
  BY DEF IInv, BuildPlaced, ClosedInOrder, EngineOwned, EnginesAccounted, Refreshing, NoBuild,
         None
<1> QED BY <1>1, Invariance, PTL
-----------------------------------------------------------------------------
(* The page.  Events carry versions, so what the page will show once all   *)
(* that is on its way has arrived can be said without replaying it: q is   *)
(* the event queue, m and ms what the store has, p the frame being sent.   *)

MemoryEvents  == [kind : {"memory_updated"}, mem : Nat]
MessageEvents == [kind : {"message_added"}, thread : Threads, msg : Nat \ {0}]
Events        == MemoryEvents \cup MessageEvents
MaybeThread   == Threads \cup {None}
IsSnapshot(f) == /\ f.kind = "snapshot"
                 /\ f.mem \in Nat /\ f.msgs \in Nat /\ f.thread \in MaybeThread
IsFrame(f)    == f \in Events \/ IsSnapshot(f)
Pages == [known : BOOLEAN, thread : MaybeThread, mem : Nat, msgs : [Threads -> Seq(Nat)]]
Memory(n)      == [kind |-> "memory_updated", mem |-> n]
Message(th, n) == [kind |-> "message_added", thread |-> th, msg |-> n]
Sending(f, to, clean) == [kind |-> "frame", frame |-> f, to |-> to, clean |-> clean]

\* A result waits only behind a frame of the pump, and only a client has a page.
FeedTyped ==
  /\ mem \in Nat /\ msgs \in [Threads -> Nat]
  /\ session \in Threads /\ active \in MaybeThread
  /\ queue \in Seq(Events) /\ overflowed \in BOOLEAN /\ lossy \in BOOLEAN
  /\ view \in Pages
  /\ pump # NoFrame =>
       /\ pump.to \in BOOLEAN /\ pump.clean \in BOOLEAN
       /\ IsSnapshot(pump.frame) \/ (pump.frame \in Events /\ ~pump.clean)
  /\ reply # NoFrame => IsSnapshot(reply) /\ pump # NoFrame /\ conn = "in"
  /\ view.known => conn = "in"

\* Before there is an engine there is nothing to show.
NothingYet == ~engine => mem = 0 /\ msgs = [th \in Threads |-> 0]

TellsMemory(f)      == f.kind \in {"snapshot", "memory_updated"}
TellsMessages(f)    == f.kind = "snapshot" /\ f.thread # None
QueuedMem(q, n)     == \E i \in DOMAIN q : q[i] = Memory(n)
QueuedMsg(q, th, n) == \E i \in DOMAIN q : q[i] = Message(th, n)

\* No frame is ahead of the store, and whatever a frame does not say yet is queued.
Past(f, m, ms) ==
  /\ TellsMemory(f) => f.mem <= m
  /\ TellsMessages(f) => f.msgs <= ms[f.thread]
  /\ f.kind = "message_added" => f.msg <= ms[f.thread]
Fresh(n, q, m)        == n = m \/ QueuedMem(q, m)
Coming(th, k, q, ms) == \A n \in (k + 1)..ms[th] : QueuedMsg(q, th, n)
Follows(f, q, m, ms) ==
  /\ TellsMemory(f) => Fresh(f.mem, q, m)
  /\ TellsMessages(f) => Coming(f.thread, f.msgs, q, ms)
  /\ f.kind = "message_added" => Coming(f.thread, f.msg, q, ms)
FrameOk(f, q, m, ms) == Past(f, m, ms) /\ Follows(f, q, m, ms)

\* Events travel in the order they happened in.
Before(e, f) ==
  /\ e.kind = "memory_updated" /\ f.kind = "memory_updated" => e.mem < f.mem
  /\ e.kind = "message_added" /\ f.kind = "message_added" /\ e.thread = f.thread => e.msg < f.msg
Flow(q, m, ms, p) ==
  /\ \A i \in DOMAIN q : FrameOk(q[i], q, m, ms)
  /\ \A i, j \in DOMAIN q : i < j => Before(q[i], q[j])
  /\ p # NoFrame => FrameOk(p.frame, q, m, ms) /\ \A i \in DOMAIN q : Before(p.frame, q[i])

\* The frame being sent will be heard, unless the client is dropped for it; with it
\* and the queue the page is complete.
OnItsWay(p) == p # NoFrame /\ p.to
Shown(v, th, q, ms, p) ==
  LET s == v.msgs[th] IN
  /\ \A i \in 1..Len(s) : s[i] = i
  /\ Len(s) <= ms[th]
  /\ \A n \in (Len(s) + 1)..ms[th] :
       QueuedMsg(q, th, n) \/ (OnItsWay(p) /\ p.frame = Message(th, n))
PageOk(v, q, m, ms, p) ==
  v.known =>
    /\ Fresh(v.mem, q, m) \/ (OnItsWay(p) /\ TellsMemory(p.frame))
    /\ v.thread # None => Shown(v, v.thread, q, ms, p)
                            \/ (OnItsWay(p) /\ p.frame.kind = "snapshot")

FlightOk(q, m, ms, p, r, v) ==
  /\ Flow(q, m, ms, p)
  /\ r # NoFrame => FrameOk(r, q, m, ms)
  /\ PageOk(v, q, m, ms, p)

\* Nothing was dropped, or what was dropped before is in the snapshot on its way.
Whole == ~lossy \/ (OnItsWay(pump) /\ pump.clean /\ ~overflowed)
InFlight == Whole => FlightOk(queue, mem, msgs, pump, reply, view)

\* The inductive invariant of the feed, while the host runs.
PageInv == host = "run" => FeedTyped /\ NothingYet /\ InFlight
-----------------------------------------------------------------------------
(* What happens to frames and page when the store changes.                 *)

\* One change, and the event that tells of it.
Arises(e, q, m, ms, q2, m2, ms2) ==
  /\ q2 = Append(q, e)
  /\ \/ e = Memory(m + 1) /\ m2 = m + 1 /\ ms2 = ms
     \/ \E th \in Threads : /\ e = Message(th, ms[th] + 1) /\ m2 = m
                            /\ ms2 = [ms EXCEPT ![th] = @ + 1]

\* A change keeps queue and store well typed.
LEMMA HappensTyped ==
  ASSUME NEW q \in Seq(Events), NEW m \in Nat, NEW ms \in [Threads -> Nat], NEW e,
         NEW q2, NEW m2, NEW ms2, Arises(e, q, m, ms, q2, m2, ms2)
  PROVE  e \in Events /\ q2 \in Seq(Events) /\ m2 \in Nat /\ ms2 \in [Threads -> Nat]
<1>1. e \in Events /\ m2 \in Nat /\ ms2 \in [Threads -> Nat]
  <2>1. CASE e = Memory(m + 1) /\ m2 = m + 1 /\ ms2 = ms
    BY <2>1 DEF Events, MemoryEvents, Memory
  <2>2. ASSUME NEW t \in Threads, e = Message(t, ms[t] + 1), m2 = m, ms2 = [ms EXCEPT ![t] = @ + 1]
        PROVE  e \in Events /\ m2 \in Nat /\ ms2 \in [Threads -> Nat]
    <3>1. ms[t] + 1 \in Nat \ {0}
      OBVIOUS
    <3>2. QED
      BY <2>2, <3>1 DEF Events, MessageEvents, Message
  <2>3. QED
    BY <2>1, <2>2 DEF Arises
<1>2. QED
  BY <1>1 DEF Arises

\* What was queued still is, and so is what has just happened.
LEMMA AppendQueues ==
  ASSUME NEW q \in Seq(Events), NEW e \in Events
  PROVE  /\ \A n : QueuedMem(q, n) => QueuedMem(Append(q, e), n)
         /\ \A th, n : QueuedMsg(q, th, n) => QueuedMsg(Append(q, e), th, n)
         /\ \A n : e = Memory(n) => QueuedMem(Append(q, e), n)
         /\ \A th, n : e = Message(th, n) => QueuedMsg(Append(q, e), th, n)
<1>1. /\ DOMAIN Append(q, e) = 1..(Len(q) + 1) /\ Append(q, e)[Len(q) + 1] = e
      /\ \A i \in DOMAIN q : i \in DOMAIN Append(q, e) /\ Append(q, e)[i] = q[i]
  OBVIOUS
<1>2. Len(q) + 1 \in DOMAIN Append(q, e)
  BY <1>1
<1>3. QED
  BY <1>1, <1>2 DEF QueuedMem, QueuedMsg

\* What was still coming to a thread's k-th message is still coming.
LEMMA HappensComing ==
  ASSUME NEW q \in Seq(Events), NEW m \in Nat, NEW ms \in [Threads -> Nat], NEW e,
         NEW q2, NEW m2, NEW ms2, Arises(e, q, m, ms, q2, m2, ms2)
  PROVE  /\ \A n \in Nat : Fresh(n, q2, m2) \/ (m2 = m /\ ~Fresh(n, q, m))
         /\ \A n, th : QueuedMsg(q, th, n) => QueuedMsg(q2, th, n)
         /\ \A th \in Threads : ms2[th] \in {ms[th], ms[th] + 1}
         /\ \A th \in Threads : ms2[th] # ms[th] => QueuedMsg(q2, th, ms2[th])
<1>0. e \in Events /\ q2 = Append(q, e)
  <2>1. e \in Events
    BY HappensTyped
  <2>2. QED
    BY <2>1 DEF Arises
<1>1. CASE e = Memory(m + 1) /\ m2 = m + 1 /\ ms2 = ms
  BY <1>0, <1>1, AppendQueues DEF Fresh
<1>2. ASSUME NEW t \in Threads, e = Message(t, ms[t] + 1), m2 = m, ms2 = [ms EXCEPT ![t] = @ + 1]
      PROVE  /\ \A n \in Nat : Fresh(n, q2, m2) \/ (m2 = m /\ ~Fresh(n, q, m))
             /\ \A n, th : QueuedMsg(q, th, n) => QueuedMsg(q2, th, n)
             /\ \A th \in Threads : ms2[th] \in {ms[th], ms[th] + 1}
             /\ \A th \in Threads : ms2[th] # ms[th] => QueuedMsg(q2, th, ms2[th])
  <2>1. ms2[t] = ms[t] + 1 /\ \A th \in Threads : th # t => ms2[th] = ms[th]
    BY <1>2
  <2>2. QED
    BY <1>0, <1>2, <2>1, AppendQueues DEF Fresh
<1>3. QED
  BY <1>1, <1>2 DEF Arises

\* A frame that misses nothing still misses nothing, for the event tells the rest; it
\* was sent, or queued, before the event.
LEMMA HappensFrame ==
  ASSUME NEW q \in Seq(Events), NEW m \in Nat, NEW ms \in [Threads -> Nat], NEW e,
         NEW q2, NEW m2, NEW ms2, Arises(e, q, m, ms, q2, m2, ms2),
         NEW f, IsFrame(f), FrameOk(f, q, m, ms)
  PROVE  FrameOk(f, q2, m2, ms2) /\ Before(f, e)
<1>1. /\ TellsMemory(f) => f.mem \in Nat
      /\ TellsMessages(f) => f.msgs \in Nat /\ f.thread \in Threads
      /\ f.kind = "message_added" => f.msg \in Nat /\ f.thread \in Threads
  BY DEF IsFrame, IsSnapshot, Events, MemoryEvents, MessageEvents, TellsMemory, TellsMessages, MaybeThread
<1>2. m <= m2 /\ m2 \in Nat /\ \A th \in Threads : ms[th] <= ms2[th] /\ {ms[th], ms2[th]} \subseteq Nat
  <2>1. m2 \in {m, m + 1}
    BY DEF Arises
  <2>2. \A th \in Threads : ms2[th] \in {ms[th], ms[th] + 1} /\ ms[th] \in Nat
    BY HappensComing
  <2>3. QED
    BY <2>1, <2>2
<1>3. Past(f, m2, ms2)
  BY <1>1, <1>2 DEF FrameOk, Past
<1>4. ASSUME NEW th \in Threads, NEW k \in Nat, Coming(th, k, q, ms)
      PROVE  Coming(th, k, q2, ms2)
  <2>1. SUFFICES ASSUME NEW n \in (k + 1)..ms2[th] PROVE QueuedMsg(q2, th, n)
    BY DEF Coming
  <2>2. ms2[th] \in {ms[th], ms[th] + 1} /\ ms[th] \in Nat
    BY HappensComing
  <2>3. CASE n <= ms[th]
    BY <2>2, <2>3, <1>4, HappensComing DEF Coming
  <2>4. CASE n > ms[th]
    <3>1. n = ms2[th] /\ ms2[th] # ms[th]
      BY <2>2, <2>4
    <3>2. QED
      BY <3>1, HappensComing
  <2>5. QED
    BY <2>2, <2>3, <2>4
<1>5. Follows(f, q2, m2, ms2)
  BY <1>1, <1>4, HappensComing DEF FrameOk, Follows
<1>6. Before(f, e)
  <2>1. CASE e = Memory(m + 1)
    BY <1>1, <2>1 DEF Before, Memory, FrameOk, Past, TellsMemory
  <2>2. ASSUME NEW t \in Threads, e = Message(t, ms[t] + 1)
        PROVE Before(f, e)
    BY <1>1, <2>2 DEF Before, Message, FrameOk, Past, TellsMemory
  <2>3. QED
    BY <2>1, <2>2 DEF Arises
<1>7. QED
  BY <1>3, <1>5, <1>6 DEF FrameOk

\* The new event itself is up to date.
LEMMA HappensNew ==
  ASSUME NEW q \in Seq(Events), NEW m \in Nat, NEW ms \in [Threads -> Nat], NEW e,
         NEW q2, NEW m2, NEW ms2, Arises(e, q, m, ms, q2, m2, ms2)
  PROVE  FrameOk(e, q2, m2, ms2)
<1>1. CASE e = Memory(m + 1) /\ m2 = m + 1 /\ ms2 = ms
  BY <1>1 DEF Memory, FrameOk, Past, Follows, Fresh, TellsMemory, TellsMessages
<1>2. ASSUME NEW t \in Threads, e = Message(t, ms[t] + 1), m2 = m, ms2 = [ms EXCEPT ![t] = @ + 1]
      PROVE  FrameOk(e, q2, m2, ms2)
  <2>1. ms2[t] = ms[t] + 1 /\ ms[t] \in Nat
    BY <1>2
  <2>2. (ms[t] + 1 + 1)..ms2[t] = {}
    BY <2>1
  <2>3. QED
    BY <1>2, <2>1, <2>2 DEF Message, FrameOk, Past, Follows, Coming, TellsMemory, TellsMessages
<1>3. QED
  BY <1>1, <1>2 DEF Arises

\* Queue and frame being sent stay in order and miss nothing.
LEMMA HappensFlow ==
  ASSUME NEW q \in Seq(Events), NEW m \in Nat, NEW ms \in [Threads -> Nat], NEW e,
         NEW q2, NEW m2, NEW ms2, Arises(e, q, m, ms, q2, m2, ms2),
         NEW p, p # NoFrame => IsFrame(p.frame), Flow(q, m, ms, p)
  PROVE  Flow(q2, m2, ms2, p)
<1>1. /\ DOMAIN q2 = 1..(Len(q) + 1) /\ q2[Len(q) + 1] = e /\ Len(q) \in Nat
      /\ \A i \in 1..Len(q) : q2[i] = q[i] /\ q[i] \in Events /\ i \in DOMAIN q
  BY HappensTyped DEF Arises
<1>2. \A i \in 1..Len(q) : FrameOk(q2[i], q2, m2, ms2) /\ Before(q2[i], e)
  BY <1>1, HappensFrame DEF Flow, IsFrame
<1>3. FrameOk(e, q2, m2, ms2)
  BY HappensNew
<1>4. \A i \in DOMAIN q2 : i \in 1..Len(q) \/ i = Len(q) + 1
  BY <1>1
<1>5. p # NoFrame => FrameOk(p.frame, q2, m2, ms2) /\ Before(p.frame, e)
  BY HappensFrame DEF Flow
<1>6. \A i, j \in DOMAIN q2 : i < j => Before(q2[i], q2[j])
  <2>1. TAKE i, j \in DOMAIN q2
  <2>2. HAVE i < j
  <2>3. i \in 1..Len(q) /\ (j \in 1..Len(q) \/ j = Len(q) + 1)
    BY <1>1, <2>2
  <2>4. QED
    BY <1>1, <1>2, <2>2, <2>3 DEF Flow
<1>7. p # NoFrame => \A i \in DOMAIN q2 : Before(p.frame, q2[i])
  BY <1>1, <1>4, <1>5 DEF Flow
<1>8. QED
  BY <1>1, <1>2, <1>3, <1>4, <1>5, <1>6, <1>7 DEF Flow

\* What the page will show stays complete.
LEMMA HappensPage ==
  ASSUME NEW q \in Seq(Events), NEW m \in Nat, NEW ms \in [Threads -> Nat], NEW e,
         NEW q2, NEW m2, NEW ms2, Arises(e, q, m, ms, q2, m2, ms2),
         NEW p, NEW v \in Pages, PageOk(v, q, m, ms, p)
  PROVE  PageOk(v, q2, m2, ms2, p)
<1>1. v.mem \in Nat /\ v.thread \in MaybeThread /\ v.msgs \in [Threads -> Seq(Nat)]
  BY DEF Pages
<1>2. Fresh(v.mem, q, m) => Fresh(v.mem, q2, m2)
  BY <1>1, HappensComing
<1>3. ASSUME NEW th \in Threads, Shown(v, th, q, ms, p)
      PROVE  Shown(v, th, q2, ms2, p)
  <2>1. ms2[th] \in {ms[th], ms[th] + 1} /\ ms[th] \in Nat /\ Len(v.msgs[th]) \in Nat
    <3>1. v.msgs[th] \in Seq(Nat)
      BY <1>1
    <3>2. Len(v.msgs[th]) \in Nat
      BY <3>1
    <3>3. ms2[th] \in {ms[th], ms[th] + 1} /\ ms[th] \in Nat
      BY HappensComing
    <3>4. QED
      BY <3>2, <3>3
  <2>2. ASSUME NEW n \in (Len(v.msgs[th]) + 1)..ms2[th]
        PROVE  QueuedMsg(q2, th, n) \/ (OnItsWay(p) /\ p.frame = Message(th, n))
    <3>1. CASE n <= ms[th]
      BY <2>1, <3>1, <1>3, HappensComing DEF Shown
    <3>2. CASE n > ms[th]
      <4>1. n = ms2[th] /\ ms2[th] # ms[th]
        BY <2>1, <3>2
      <4>2. QED
        BY <4>1, HappensComing
    <3>3. QED
      BY <2>1, <3>1, <3>2
  <2>3. Len(v.msgs[th]) <= ms2[th]
    BY <1>3, <2>1 DEF Shown
  <2>4. QED
    BY <1>3, <2>2, <2>3 DEF Shown
<1>4. QED
  BY <1>1, <1>2, <1>3 DEF PageOk, MaybeThread
-----------------------------------------------------------------------------
(* What the pump and the results do to them.                               *)

\* A frame being sent is not the absence of one.
LEMMA SendingIsSomething == \A f, to, clean : Sending(f, to, clean) # NoFrame
<1>1. \A f, to, clean : Sending(f, to, clean).kind = "frame"
  BY DEF Sending
<1>2. NoFrame.kind = "none"
  BY DEF NoFrame, None
<1>3. QED
  BY <1>1, <1>2

\* A snapshot of the store as it is says everything.
Honest(f, m, ms) ==
  IsSnapshot(f) /\ f.mem = m /\ (f.thread # None => f.msgs = ms[f.thread])

\* Such a snapshot is not ahead of the store and misses nothing.
LEMMA HonestIsOk ==
  ASSUME NEW q, NEW m \in Nat, NEW ms \in [Threads -> Nat], NEW f, Honest(f, m, ms)
  PROVE  IsFrame(f) /\ FrameOk(f, q, m, ms)
<1>1. f.thread # None => ms[f.thread] \in Nat /\ (f.msgs + 1)..ms[f.thread] = {}
  BY DEF Honest, IsSnapshot, MaybeThread
<1>2. Follows(f, q, m, ms)
  BY <1>1 DEF Honest, IsSnapshot, Follows, Fresh, Coming, TellsMessages
<1>3. Past(f, m, ms)
  BY <1>1 DEF Honest, IsSnapshot, Past, TellsMessages
<1>4. QED
  BY <1>2, <1>3 DEF Honest, IsFrame, FrameOk

\* A frame leaves a page a page, and an event does not make it known.
LEMMA AppliedTyped ==
  ASSUME NEW v \in Pages, NEW f, IsFrame(f)
  PROVE  /\ Applied(v, f) \in Pages
         /\ ~v.known /\ f \in Events => ~Applied(v, f).known
<1>0. /\ v.known \in BOOLEAN /\ v.mem \in Nat /\ v.thread \in MaybeThread
      /\ v.msgs \in [Threads -> Seq(Nat)]
  BY DEF Pages
<1>1. CASE f \in MemoryEvents
  BY <1>1 DEF MemoryEvents, Pages, Applied
<1>2. CASE f \in MessageEvents
  <2>1. f.kind = "message_added" /\ f.thread \in Threads /\ f.msg \in Nat
    BY <1>2 DEF MessageEvents
  <2>2. v.msgs[f.thread] \in Seq(Nat) /\ Append(v.msgs[f.thread], f.msg) \in Seq(Nat)
    BY <1>0, <2>1
  <2>3. QED
    BY <2>1, <2>2 DEF Pages, Applied
<1>3. CASE IsSnapshot(f)
  <2>1. [th \in Threads |-> IF th = f.thread THEN [i \in 1..f.msgs |-> i] ELSE <<>>]
          \in [Threads -> Seq(Nat)]
    <3>1. [i \in 1..f.msgs |-> i] \in Seq(Nat) /\ <<>> \in Seq(Nat)
      BY <1>3 DEF IsSnapshot
    <3>2. QED
      BY <3>1
  <2>2. f \notin Events
    BY <1>3 DEF IsSnapshot, Events, MemoryEvents, MessageEvents
  <2>3. QED
    BY <1>3, <2>1, <2>2 DEF IsSnapshot, Pages, Applied
<1>4. QED
  BY <1>1, <1>2, <1>3 DEF IsFrame, Events

\* A page that a snapshot has just replaced lacks only what is queued.
LEMMA SnapshotShows ==
  ASSUME NEW q, NEW m \in Nat, NEW ms \in [Threads -> Nat], NEW v \in Pages, NEW p,
         NEW f, IsSnapshot(f), FrameOk(f, q, m, ms)
  PROVE  PageOk(Applied(v, f), q, m, ms, p)
<1> DEFINE w == Applied(v, f)
<1>1. w = [known |-> TRUE, thread |-> f.thread, mem |-> f.mem,
           msgs |-> [th \in Threads |-> IF th = f.thread THEN [i \in 1..f.msgs |-> i] ELSE <<>>]]
  BY DEF Applied, IsSnapshot
<1>2. Fresh(w.mem, q, m)
  BY <1>1 DEF FrameOk, Follows, TellsMemory, IsSnapshot
<1>3. ASSUME w.thread # None PROVE Shown(w, w.thread, q, ms, p)
  <2>1. w.thread = f.thread /\ f.thread \in Threads /\ TellsMessages(f) /\ f.msgs \in Nat
    BY <1>1, <1>3 DEF IsSnapshot, MaybeThread, TellsMessages
  <2>2. w.msgs[w.thread] = [i \in 1..f.msgs |-> i] /\ Len(w.msgs[w.thread]) = f.msgs
    BY <1>1, <2>1
  <2>3. f.msgs <= ms[f.thread] /\ Coming(f.thread, f.msgs, q, ms)
    BY <2>1 DEF FrameOk, Follows, Past
  <2>4. QED
    BY <2>1, <2>2, <2>3 DEF Shown, Coming
<1>4. QED
  BY <1>2, <1>3 DEF PageOk

\* The queue without its head.
LEMMA TailQueue ==
  ASSUME NEW q \in Seq(Events), q # <<>>
  PROVE  /\ 1 \in DOMAIN q /\ Head(q) = q[1] /\ Head(q) \in Events /\ Tail(q) \in Seq(Events)
         /\ \A i \in DOMAIN Tail(q) : /\ i \in Nat /\ 1 < i + 1 /\ i + 1 \in DOMAIN q
                                      /\ Tail(q)[i] = q[i + 1] /\ Tail(q)[i] \in Events
         /\ \A n : QueuedMem(q, n) => QueuedMem(Tail(q), n) \/ Head(q) = Memory(n)
         /\ \A th, n : QueuedMsg(q, th, n) => QueuedMsg(Tail(q), th, n) \/ Head(q) = Message(th, n)
<1>1. /\ 1 \in DOMAIN q /\ Head(q) = q[1] /\ Head(q) \in Events /\ Tail(q) \in Seq(Events)
      /\ \A i \in DOMAIN Tail(q) : /\ i \in Nat /\ 1 < i + 1 /\ i + 1 \in DOMAIN q
                                   /\ Tail(q)[i] = q[i + 1]
      /\ \A i \in DOMAIN q : i # 1 => i - 1 \in DOMAIN Tail(q) /\ Tail(q)[i - 1] = q[i]
  OBVIOUS
<1>2. \A i \in DOMAIN Tail(q) : Tail(q)[i] \in Events
  BY <1>1
<1>3. QED
  BY <1>1, <1>2 DEF QueuedMem, QueuedMsg

\* An event that is not older than the head does not miss it.
LEMMA TailFrame ==
  ASSUME NEW q \in Seq(Events), q # <<>>, NEW m \in Nat, NEW ms \in [Threads -> Nat],
         NEW f \in Events, f = Head(q) \/ Before(Head(q), f), FrameOk(f, q, m, ms)
  PROVE  FrameOk(f, Tail(q), m, ms)
<1>1. CASE f \in MemoryEvents
  <2>1. f.kind = "memory_updated" /\ f.mem \in Nat /\ f.mem <= m /\ Fresh(f.mem, q, m)
    BY <1>1 DEF MemoryEvents, FrameOk, Past, Follows, TellsMemory
  <2>2. Head(q) = Memory(m) => f.mem = m
    BY <2>1 DEF Before, Memory
  <2>3. Fresh(f.mem, Tail(q), m)
    BY <2>1, <2>2, TailQueue DEF Fresh
  <2>4. QED
    BY <2>1, <2>3 DEF FrameOk, Past, Follows, TellsMessages, TellsMemory
<1>2. CASE f \in MessageEvents
  <2>1. /\ f.kind = "message_added" /\ f.thread \in Threads /\ f.msg \in Nat
        /\ f.msg <= ms[f.thread] /\ Coming(f.thread, f.msg, q, ms) /\ ms[f.thread] \in Nat
    BY <1>2 DEF MessageEvents, FrameOk, Past, Follows
  <2>2. \A n \in (f.msg + 1)..ms[f.thread] : Head(q) # Message(f.thread, n)
    <3>1. SUFFICES ASSUME NEW n \in (f.msg + 1)..ms[f.thread], Head(q) = Message(f.thread, n)
                   PROVE  FALSE
      OBVIOUS
    <3>2. Head(q).kind = "message_added" /\ Head(q).thread = f.thread /\ Head(q).msg = n
      BY <3>1 DEF Message
    <3>3. n \in Nat /\ n > f.msg
      BY <2>1
    <3>4. QED
      BY <2>1, <3>2, <3>3 DEF Before
  <2>3. Coming(f.thread, f.msg, Tail(q), ms)
    BY <2>1, <2>2, TailQueue DEF Coming
  <2>4. QED
    BY <2>1, <2>3 DEF FrameOk, Past, Follows, TellsMessages, TellsMemory
<1>3. QED
  BY <1>1, <1>2 DEF Events

\* The pump takes the first event.
LEMMA TakeFlow ==
  ASSUME NEW q \in Seq(Events), q # <<>>, NEW m \in Nat, NEW ms \in [Threads -> Nat],
         Flow(q, m, ms, NoFrame), NEW to, NEW clean
  PROVE  Flow(Tail(q), m, ms, Sending(Head(q), to, clean))
<1>1. \A i \in DOMAIN Tail(q) : /\ Before(Head(q), Tail(q)[i])
                                /\ FrameOk(Tail(q)[i], q, m, ms)
  BY TailQueue DEF Flow
<1>2. \A i \in DOMAIN Tail(q) : FrameOk(Tail(q)[i], Tail(q), m, ms)
  BY <1>1, TailQueue, TailFrame
<1>3. FrameOk(Head(q), Tail(q), m, ms)
  BY TailQueue, TailFrame DEF Flow
<1>4. \A i, j \in DOMAIN Tail(q) : i < j => Before(Tail(q)[i], Tail(q)[j])
  <2>1. TAKE i, j \in DOMAIN Tail(q)
  <2>2. HAVE i < j
  <2>3. i + 1 < j + 1
    BY <2>2, TailQueue
  <2>4. QED
    BY <2>3, TailQueue DEF Flow
<1>5. Sending(Head(q), to, clean).frame = Head(q)
  BY DEF Sending
<1>6. QED
  BY <1>1, <1>2, <1>3, <1>4, <1>5 DEF Flow

\* What a page lacks is then in the frame being sent or still in the queue.
LEMMA TakePage ==
  ASSUME NEW q \in Seq(Events), q # <<>>, NEW m, NEW ms, NEW clean,
         NEW v, PageOk(v, q, m, ms, NoFrame)
  PROVE  PageOk(v, Tail(q), m, ms, Sending(Head(q), TRUE, clean))
<1> DEFINE p == Sending(Head(q), TRUE, clean)
<1>1. OnItsWay(p) /\ p.frame = Head(q) /\ ~OnItsWay(NoFrame)
  BY SendingIsSomething DEF OnItsWay, Sending
<1>2. Fresh(v.mem, q, m) => Fresh(v.mem, Tail(q), m) \/ TellsMemory(p.frame)
  <2>1. Head(q) = Memory(m) => TellsMemory(Head(q))
    BY DEF Memory, TellsMemory
  <2>2. QED
    BY <1>1, <2>1, TailQueue DEF Fresh
<1>3. \A th : Shown(v, th, q, ms, NoFrame) => Shown(v, th, Tail(q), ms, p)
  BY <1>1, TailQueue DEF Shown
<1>4. QED
  BY <1>1, <1>2, <1>3 DEF PageOk

\* A list of the first messages stays one when a message is merged into it that is
\* not beyond the next.
LEMMA MessageAdded ==
  ASSUME NEW s \in Seq(Nat), \A i \in 1..Len(s) : s[i] = i,
         NEW n \in Nat \ {0}, NEW top \in Nat, n <= top, Len(s) <= top,
         \A k \in (Len(s) + 1)..top : k = n \/ n < k,
         NEW r, r = IF n \in ToSet(s) THEN s ELSE Append(s, n)
  PROVE  /\ \A i \in 1..Len(r) : r[i] = i
         /\ Len(r) <= top /\ Len(r) \in {Len(s), n} /\ Len(s) <= Len(r) /\ n <= Len(r)
<1>1. Len(s) \in Nat /\ ToSet(s) = {s[i] : i \in 1..Len(s)}
  BY DEF ToSet
<1>2. n \in ToSet(s) <=> n <= Len(s)
  <2>1. n \in ToSet(s) => \E i \in 1..Len(s) : n = i
    BY <1>1
  <2>2. n \in 1..Len(s) => n \in ToSet(s)
    BY <1>1
  <2>3. QED
    BY <1>1, <2>1, <2>2
<1>3. CASE n <= Len(s)
  BY <1>1, <1>2, <1>3
<1>4. CASE n > Len(s)
  <2>1. n = Len(s) + 1
    BY <1>1, <1>4
  <2>2. r = Append(s, n)
    BY <1>1, <1>2, <1>4
  <2>3. Len(r) = n /\ \A i \in 1..n : r[i] = i
    BY <1>1, <2>1, <2>2
  <2>4. QED
    BY <1>1, <1>4, <2>3
<1>5. QED
  BY <1>1, <1>3, <1>4

\* The frame was heard, or is for nobody.
LEMMA HeardPage ==
  ASSUME NEW q \in Seq(Events), NEW m \in Nat, NEW ms \in [Threads -> Nat],
         NEW p, p # NoFrame, IsFrame(p.frame), Flow(q, m, ms, p),
         NEW v \in Pages, PageOk(v, q, m, ms, p)
  PROVE  PageOk(Applied(v, p.frame), q, m, ms, NoFrame)
<1>0. /\ v.mem \in Nat /\ v.msgs \in [Threads -> Seq(Nat)]
      /\ ~OnItsWay(NoFrame) /\ v.known \in BOOLEAN
  BY DEF Pages, OnItsWay
<1>1. CASE IsSnapshot(p.frame)
  BY <1>1, SnapshotShows DEF Flow
<1>2. CASE p.frame \in MemoryEvents
  <2>1. /\ Applied(v, p.frame) = [v EXCEPT !.mem = p.frame.mem] /\ TellsMemory(p.frame)
        /\ p.frame.kind = "memory_updated"
    BY <1>2 DEF MemoryEvents, Applied, TellsMemory
  <2>2. Fresh(p.frame.mem, q, m)
    BY <2>1 DEF Flow, FrameOk, Follows
  <2>3. \A th, n : p.frame # Message(th, n)
    BY <2>1 DEF Message
  <2>4. \A th : Shown(v, th, q, ms, p) => Shown(Applied(v, p.frame), th, q, ms, NoFrame)
    BY <2>1, <2>3 DEF Shown, Pages
  <2>5. Applied(v, p.frame).mem = p.frame.mem /\ Applied(v, p.frame).known = v.known
        /\ Applied(v, p.frame).thread = v.thread
    BY <2>1 DEF Pages
  <2>6. QED
    BY <2>1, <2>2, <2>4, <2>5 DEF PageOk
<1>3. CASE p.frame \in MessageEvents
  <2>1. PICK th \in Threads, n \in Nat \ {0} : p.frame = Message(th, n)
    BY <1>3 DEF MessageEvents, Message
  <2>2. PICK s \in Seq(Nat) : s = v.msgs[th]
    BY <1>0
  <2>3. PICK w : w = Applied(v, p.frame)
    OBVIOUS
  <2>4. PICK r : r = IF n \in ToSet(s) THEN s ELSE Append(s, n)
    OBVIOUS
  <2>5. w = [v EXCEPT !.msgs[th] = r]
    BY <2>1, <2>2, <2>3, <2>4 DEF Applied, Message
  <2>6. /\ w.mem = v.mem /\ w.known = v.known /\ w.thread = v.thread /\ w.msgs[th] = r
        /\ \A t \in Threads : t # th => w.msgs[t] = v.msgs[t]
    BY <1>0, <2>5 DEF Pages
  <2>7. n <= ms[th] /\ ms[th] \in Nat /\ \A i \in DOMAIN q : Before(Message(th, n), q[i])
    BY <2>1 DEF Flow, FrameOk, Past, Message
  <2>8. \A k \in Nat : QueuedMsg(q, th, k) => n < k
    BY <2>7 DEF QueuedMsg, Message, Before
  <2>9. ~TellsMemory(p.frame) /\ p.frame.kind # "snapshot"
    BY <2>1 DEF TellsMemory, Message
  <2>0. \A t, k : p.frame = Message(t, k) => t = th /\ k = n
    <3>1. TAKE t, k
    <3>2. HAVE p.frame = Message(t, k)
    <3>3. Message(th, n) = Message(t, k)
      BY <2>1, <3>2
    <3>4. QED
      BY <3>3 DEF Message
  <2>10. Shown(v, th, q, ms, p) => Shown(w, th, q, ms, NoFrame)
    <3>1. HAVE Shown(v, th, q, ms, p)
    <3>2. /\ \A i \in 1..Len(s) : s[i] = i
          /\ Len(s) <= ms[th]
          /\ \A k \in (Len(s) + 1)..ms[th] : QueuedMsg(q, th, k) \/ k = n
      BY <2>0, <2>2, <3>1 DEF Shown
    <3>3. \A k \in (Len(s) + 1)..ms[th] : k = n \/ n < k
      BY <2>7, <2>8, <3>2
    <3>4. /\ \A i \in 1..Len(r) : r[i] = i
          /\ Len(r) <= ms[th] /\ Len(r) \in {Len(s), n} /\ Len(s) <= Len(r) /\ n <= Len(r)
      BY <2>4, <2>7, <3>2, <3>3, MessageAdded
    <3>5. \A k \in (Len(r) + 1)..ms[th] : QueuedMsg(q, th, k)
      BY <2>7, <3>2, <3>4
    <3>6. QED
      BY <2>6, <3>4, <3>5 DEF Shown
  <2>11. \A t \in Threads : t # th /\ Shown(v, t, q, ms, p) => Shown(w, t, q, ms, NoFrame)
    BY <2>0, <2>6 DEF Shown
  <2>12. v.thread \in Threads \cup {None}
    BY DEF Pages, MaybeThread
  <2>13. PageOk(w, q, m, ms, NoFrame)
    BY <1>0, <2>6, <2>9, <2>10, <2>11, <2>12 DEF PageOk
  <2>14. QED
    BY <2>3, <2>13
<1>4. QED
  BY <1>1, <1>2, <1>3 DEF IsFrame, Events

\* A frame that nobody hears is not needed to make the page complete.
LEMMA UnheardPage ==
  ASSUME NEW q, NEW m, NEW ms, NEW p, ~OnItsWay(p), NEW v, PageOk(v, q, m, ms, p)
  PROVE  PageOk(v, q, m, ms, NoFrame)
BY DEF PageOk, Shown, OnItsWay

\* A frame that starts on its way takes nothing from the page.
LEMMA SendingPage ==
  ASSUME NEW q, NEW m, NEW ms, NEW p, NEW v, PageOk(v, q, m, ms, NoFrame)
  PROVE  PageOk(v, q, m, ms, p)
BY DEF PageOk, Shown, OnItsWay
-----------------------------------------------------------------------------
(* The steps.                                                              *)

\* Together: a change and its event keep all that is in flight complete.
LEMMA HappensFlight ==
  ASSUME NEW q \in Seq(Events), NEW m \in Nat, NEW ms \in [Threads -> Nat], NEW e,
         NEW q2, NEW m2, NEW ms2, Arises(e, q, m, ms, q2, m2, ms2),
         NEW p, p # NoFrame => IsFrame(p.frame), NEW r, r # NoFrame => IsFrame(r), NEW v \in Pages,
         FlightOk(q, m, ms, p, r, v)
  PROVE  FlightOk(q2, m2, ms2, p, r, v)
<1>1. Flow(q2, m2, ms2, p)
  BY HappensFlow DEF FlightOk
<1>2. r # NoFrame => FrameOk(r, q2, m2, ms2)
  BY HappensFrame DEF FlightOk
<1>3. PageOk(v, q2, m2, ms2, p)
  BY HappensPage DEF FlightOk
<1>4. QED
  BY <1>1, <1>2, <1>3 DEF FlightOk

\* The smaller of two numbers, for the cut of publish_ui_event.
LEMMA MinOfTwo ==
  ASSUME NEW a \in Nat, NEW b \in Nat
  PROVE  Min({a, b}) \in {a, b} /\ (b <= a => Min({a, b}) = b)
<1>1. \E x \in {a, b} : \A y \in {a, b} : x <= y
  <2>1. CASE a <= b BY <2>1
  <2>2. CASE b <= a BY <2>2
  <2>3. QED BY <2>1, <2>2
<1>2. Min({a, b}) \in {a, b} /\ \A y \in {a, b} : Min({a, b}) <= y
  BY <1>1 DEF Min
<1>3. QED
  BY <1>2

\* An event is queued or the drop is remembered.
LEMMA PublishStep ==
  ASSUME queue \in Seq(Events), overflowed \in BOOLEAN, lossy \in BOOLEAN, host = "run",
         NEW events \in Seq(Events), Publish(events)
  PROVE  /\ queue' \in Seq(Events) /\ overflowed' \in BOOLEAN /\ lossy' \in BOOLEAN
         /\ \/ queue' = queue \o events /\ UNCHANGED <<overflowed, lossy>>
            \/ overflowed' /\ lossy'
<1> DEFINE all == queue \o events
           n   == Min({Capacity, Len(all)})
<1>1. all \in Seq(Events) /\ Len(all) \in Nat /\ Capacity \in Nat
  BY UiBounds
<1>2. n \in Nat /\ n \in {Capacity, Len(all)} /\ (Len(all) <= Capacity => n = Len(all))
  BY <1>1, MinOfTwo
<1>3. n <= Len(all)
  BY <1>1, <1>2
<1>4. SubSeq(all, 1, n) \in Seq(Events)
  <2> HIDE DEF all, n
  <2>1. QED BY <1>1, <1>2, <1>3
<1>5. Len(all) <= Capacity => SubSeq(all, 1, n) = all
  <2> HIDE DEF all, n
  <2>1. QED BY <1>1, <1>2
<1>6. queue' = SubSeq(all, 1, n)
  BY DEF Publish
<1>7. /\ overflowed' = (overflowed \/ ~(Len(all) <= Capacity \/ host # "run"))
      /\ lossy' = (lossy \/ ~(Len(all) <= Capacity \/ host # "run"))
  BY DEF Publish
<1>8. CASE Len(all) <= Capacity
  BY <1>4, <1>5, <1>6, <1>7, <1>8
<1>9. CASE ~(Len(all) <= Capacity)
  BY <1>4, <1>6, <1>7, <1>9
<1>10. QED
  BY <1>8, <1>9

\* Events that tell all of a change keep the feed whole; a drop breaks it.
LEMMA StoreStep ==
  ASSUME host = "run", FeedTyped, InFlight, NEW events \in Seq(Events), Publish(events), pump' = pump,
         FlightOk(queue, mem, msgs, pump, reply, view)
           => FlightOk(queue \o events, mem', msgs', pump, reply, view)
  PROVE  Whole' => FlightOk(queue', mem', msgs', pump', reply, view)
<1>1. \/ queue' = queue \o events /\ UNCHANGED <<overflowed, lossy>>
      \/ overflowed' /\ lossy'
  BY PublishStep DEF FeedTyped
<1>2. Whole' => Whole /\ queue' = queue \o events
  BY <1>1 DEF Whole
<1>3. QED
  BY <1>2 DEF InFlight

\* A result shows the store as it is, at once or after the frame being sent.
LEMMA ReplyStep ==
  ASSUME FeedTyped, conn = "in", NEW f, Reply(f), NEW q, NEW m \in Nat, NEW ms \in [Threads -> Nat],
         Honest(f, m, ms)
  PROVE  /\ view' \in Pages
         /\ reply' # NoFrame => IsSnapshot(reply') /\ pump # NoFrame
         /\ FlightOk(q, m, ms, pump, reply, view) => FlightOk(q, m, ms, pump, reply', view')
<1>1. IsFrame(f) /\ IsSnapshot(f) /\ FrameOk(f, q, m, ms)
  BY HonestIsOk DEF Honest
<1>2. CASE view' = Applied(view, f) /\ reply' = reply
  <2>1. view' \in Pages
    BY <1>1, <1>2, AppliedTyped DEF FeedTyped
  <2>2. PageOk(Applied(view, f), q, m, ms, pump)
    BY <1>1, SnapshotShows DEF FeedTyped
  <2>3. QED
    BY <1>2, <2>1, <2>2 DEF FlightOk, FeedTyped
<1>3. CASE pump # NoFrame /\ reply' = f /\ view' = view
  BY <1>1, <1>3 DEF FlightOk, FeedTyped
<1>4. QED
  BY <1>2, <1>3 DEF Reply

\* Steps that leave store and queue alone, whatever else they do.
CalmStep ==
  /\ host = "run" /\ UNCHANGED <<mem, msgs, queue, overflowed, pump, lossy>>
  /\ session' \in Threads /\ active' \in MaybeThread
  /\ engine => engine'
  /\ conn = "in" => conn' = "in"
  /\ \/ UNCHANGED <<reply, view>>
     \/ conn = "in" /\ \E f : Honest(f, mem, msgs) /\ Reply(f)

\* Such a step keeps the invariant.
LEMMA CalmPreserves ==
  ASSUME PageInv, CalmStep
  PROVE  PageInv'
<1>1. FeedTyped /\ NothingYet /\ InFlight
  BY DEF PageInv, CalmStep
<1>2. /\ view' \in Pages
      /\ reply' # NoFrame => IsSnapshot(reply') /\ pump # NoFrame /\ conn' = "in"
      /\ view'.known => conn' = "in"
      /\ Whole => FlightOk(queue, mem, msgs, pump, reply', view')
  <2>1. CASE UNCHANGED <<reply, view>>
    BY <1>1, <2>1 DEF FeedTyped, InFlight, CalmStep
  <2>2. ASSUME NEW f, conn = "in", Honest(f, mem, msgs), Reply(f)
        PROVE  /\ view' \in Pages
               /\ reply' # NoFrame => IsSnapshot(reply') /\ pump # NoFrame /\ conn' = "in"
               /\ view'.known => conn' = "in"
               /\ Whole => FlightOk(queue, mem, msgs, pump, reply', view')
    <3>1. mem \in Nat /\ msgs \in [Threads -> Nat]
      BY <1>1 DEF FeedTyped
    <3>2. /\ view' \in Pages
          /\ reply' # NoFrame => IsSnapshot(reply') /\ pump # NoFrame
          /\ FlightOk(queue, mem, msgs, pump, reply, view)
               => FlightOk(queue, mem, msgs, pump, reply', view')
      BY <1>1, <2>2, <3>1, ReplyStep
    <3>3. QED
      BY <1>1, <2>2, <3>2 DEF InFlight, CalmStep
  <2>3. QED
    BY <2>1, <2>2 DEF CalmStep
<1>3. FeedTyped'
  BY <1>1, <1>2 DEF FeedTyped, CalmStep, IsSnapshot
<1>4. NothingYet'
  BY <1>1 DEF NothingYet, CalmStep
<1>5. InFlight'
  <2>1. Whole' = Whole
    BY DEF Whole, OnItsWay, CalmStep, NoFrame
  <2>2. QED
    BY <1>2, <2>1 DEF InFlight, CalmStep
<1>6. QED
  BY <1>3, <1>4, <1>5 DEF PageInv
-----------------------------------------------------------------------------
\* runtime.snapshot() shows the store as it is: before start() has ended there is
\* no engine, and without an engine there are no rows.
LEMMA SnapshotHonest ==
  ASSUME FeedTyped, NothingYet, EngineOwned
  PROVE  /\ Honest(Snapshot, mem, msgs)
         /\ \E rest, th, a, b : Snapshot = [kind |-> "snapshot", rest |-> rest, thread |-> th,
                                            mem |-> a, msgs |-> b]
<1>1. CASE ~started
  <2>1. Snapshot = StartingSnapshot /\ mem = 0
    BY <1>1 DEF Snapshot, NothingYet, EngineOwned
  <2>2. QED
    BY <2>1 DEF StartingSnapshot, Honest, IsSnapshot, MaybeThread
<1>2. CASE started
  <2>1. Snapshot = [kind |-> "snapshot", rest |-> <<started, engine, call, busy>>, thread |-> active,
                    mem |-> IF engine THEN mem ELSE 0,
                    msgs |-> IF engine /\ active # None THEN msgs[active] ELSE 0]
    BY <1>2 DEF Snapshot
  <2>2. (IF engine THEN mem ELSE 0) = mem /\ mem \in Nat /\ active \in MaybeThread
    BY DEF NothingYet, FeedTyped
  <2>3. active # None => /\ msgs[active] \in Nat
                         /\ (IF engine /\ active # None THEN msgs[active] ELSE 0) = msgs[active]
    BY <2>2 DEF NothingYet, FeedTyped, MaybeThread
  <2>4. QED
    BY <2>1, <2>2, <2>3 DEF Honest, IsSnapshot
<1>3. QED
  BY <1>1, <1>2

\* A snapshot with another rest, and perhaps of another thread, is as honest.
LEMMA HonestVariants ==
  ASSUME FeedTyped, NothingYet, EngineOwned
  PROVE  /\ \A rest : Honest([Snapshot EXCEPT !.rest = rest], mem, msgs)
         /\ \A rest : \A th \in Threads :
              Honest([Snapshot EXCEPT !.rest = rest, !.thread = th, !.mem = mem, !.msgs = msgs[th]],
                     mem, msgs)
         /\ \A th \in Threads : Honest([Snapshot EXCEPT !.thread = th, !.msgs = msgs[th]], mem, msgs)
         /\ Honest([Snapshot EXCEPT !.mem = mem + 1], mem + 1, msgs)
<1>1. PICK rest, t, a, b : Snapshot = [kind |-> "snapshot", rest |-> rest, thread |-> t,
                                       mem |-> a, msgs |-> b]
  BY SnapshotHonest
<1>2. Honest(Snapshot, mem, msgs) /\ mem \in Nat /\ mem + 1 \in Nat
  BY SnapshotHonest DEF FeedTyped
<1>3. a = mem /\ b \in Nat /\ t \in MaybeThread /\ (t # None => b = msgs[t])
  BY <1>1, <1>2 DEF Honest, IsSnapshot
<1>4. \A th \in Threads : msgs[th] \in Nat /\ th \in MaybeThread
  BY DEF FeedTyped, MaybeThread
<1>5. QED
  BY <1>1, <1>2, <1>3, <1>4 DEF Honest, IsSnapshot

\* The snapshot of a tick says all that is not queued behind it.
LEMMA TickPreserves ==
  ASSUME IInv, PageInv, Tick
  PROVE  PageInv'
<1>1. host = "run" /\ host' = "run" /\ pump = NoFrame /\ FeedTyped /\ NothingYet /\ InFlight
  BY DEF Tick, Pumping, life, PageInv
<1>2. reply = NoFrame /\ reply' = NoFrame /\ UNCHANGED <<mem, msgs, queue, lossy, view, conn>>
  BY <1>1 DEF Tick, FeedTyped, truth, client
<1>3. Honest(Snapshot, mem, msgs) /\ mem \in Nat /\ msgs \in [Threads -> Nat]
  BY <1>1, SnapshotHonest DEF IInv, FeedTyped
<1>4. CASE UNCHANGED pump
  <2>1. FeedTyped' /\ NothingYet'
    BY <1>1, <1>2, <1>4 DEF FeedTyped, NothingYet, Tick, life, talk, NoFrame
  <2>2. Whole' => Whole
    BY <1>1, <1>2, <1>4 DEF Whole, OnItsWay
  <2>3. QED
    BY <1>1, <1>2, <1>4, <2>1, <2>2 DEF PageInv, InFlight, NoFrame
<1>5. CASE pump' = Sending(Snapshot, conn = "in", queue = <<>>)
  <2>1. /\ pump' # NoFrame /\ pump'.frame = Snapshot /\ pump'.to = (conn = "in")
        /\ pump'.clean = (queue = <<>>)
    BY <1>5, SendingIsSomething DEF Sending
  <2>2. FeedTyped' /\ NothingYet'
    BY <1>1, <1>2, <1>3, <2>1 DEF FeedTyped, NothingYet, Tick, life, talk, Honest, IsSnapshot
  <2>3. FrameOk(Snapshot, queue, mem, msgs) /\ Snapshot.kind = "snapshot"
    BY <1>3, HonestIsOk DEF Honest, IsSnapshot
  <2>4. ASSUME ~lossy PROVE FlightOk(queue, mem, msgs, pump', reply, view)
    <3>1. Flow(queue, mem, msgs, NoFrame) /\ PageOk(view, queue, mem, msgs, NoFrame)
      BY <1>1, <2>4 DEF InFlight, Whole, FlightOk
    <3>2. PageOk(view, queue, mem, msgs, pump')
      BY <3>1, SendingPage
    <3>3. Flow(queue, mem, msgs, pump')
      BY <2>1, <2>3, <3>1 DEF Flow, Before
    <3>4. QED
      BY <1>2, <3>2, <3>3 DEF FlightOk
  <2>5. ASSUME conn = "in", queue = <<>> PROVE FlightOk(queue, mem, msgs, pump', reply, view)
    <3>1. Flow(queue, mem, msgs, pump')
      BY <2>1, <2>3, <2>5 DEF Flow
    <3>2. PageOk(view, queue, mem, msgs, pump')
      BY <2>1, <2>3, <2>5 DEF PageOk, OnItsWay, TellsMemory
    <3>3. QED
      BY <1>2, <3>1, <3>2 DEF FlightOk
  <2>6. Whole' => FlightOk(queue, mem, msgs, pump', reply, view)
    BY <1>2, <2>1, <2>4, <2>5 DEF Whole, OnItsWay
  <2>7. QED
    BY <1>2, <2>2, <2>6 DEF PageInv, InFlight
<1>6. QED
  BY <1>4, <1>5 DEF Tick, Sending

\* An event moves from the queue to the frame being sent.
LEMMA TakeEventPreserves ==
  ASSUME PageInv, TakeEvent
  PROVE  PageInv'
<1>1. /\ host = "run" /\ pump = NoFrame /\ queue # <<>> /\ FeedTyped /\ NothingYet /\ InFlight
      /\ pump' = Sending(Head(queue), conn = "in", FALSE) /\ queue' = Tail(queue)
      /\ reply = NoFrame /\ UNCHANGED <<host, engine, session, active, mem, msgs, overflowed, lossy,
                                        view, reply, conn>>
  BY DEF TakeEvent, Pumping, PageInv, FeedTyped, life, talk, truth, client, Sending
<1>2. /\ pump' # NoFrame /\ pump'.frame = Head(queue) /\ pump'.to = (conn = "in")
      /\ pump'.clean = FALSE
  BY <1>1, SendingIsSomething DEF Sending
<1>3. Head(queue) \in Events /\ Tail(queue) \in Seq(Events)
  BY <1>1, TailQueue DEF FeedTyped
<1>4. FeedTyped' /\ NothingYet'
  BY <1>1, <1>2, <1>3 DEF FeedTyped, NothingYet
<1>5. Whole' => Whole
  BY <1>1, <1>2 DEF Whole, OnItsWay
<1>6. ASSUME Whole PROVE FlightOk(queue', mem, msgs, pump', reply, view)
  <2>1. Flow(queue, mem, msgs, NoFrame) /\ PageOk(view, queue, mem, msgs, NoFrame)
    BY <1>1, <1>6 DEF InFlight, FlightOk
  <2>2. Flow(queue', mem, msgs, pump')
    BY <1>1, <2>1, TakeFlow DEF FeedTyped
  <2>3. PageOk(view, queue', mem, msgs, pump')
    <3>1. CASE conn = "in"
      <4>1. pump' = Sending(Head(queue), TRUE, FALSE)
        BY <1>1, <3>1
      <4>2. queue \in Seq(Events) /\ queue # <<>>
        BY <1>1 DEF FeedTyped
      <4>3. PageOk(view, Tail(queue), mem, msgs, Sending(Head(queue), TRUE, FALSE))
        BY <2>1, <4>2, TakePage
      <4>4. QED
        BY <1>1, <4>1, <4>3
    <3>2. CASE conn # "in"
      BY <1>1, <3>2 DEF PageOk, FeedTyped
    <3>3. QED
      BY <3>1, <3>2
  <2>4. QED
    BY <1>1, <2>2, <2>3 DEF FlightOk
<1>7. QED
  BY <1>1, <1>4, <1>5, <1>6 DEF PageInv, InFlight

\* The client heard the frame, was dropped for it, or it was for nobody; the result
\* that waited is applied after it.
LEMMA SentPreserves ==
  ASSUME PageInv, Sent
  PROVE  PageInv'
<1>1. SUFFICES ASSUME host = "run" PROVE PageInv'
  BY DEF Sent, PageInv, life
<1>2. PICK heard \in IF pump.to /\ conn = "in" THEN BOOLEAN ELSE {FALSE} :
        /\ conn' = IF pump.to /\ ~heard THEN "gone" ELSE conn
        /\ view' = IF heard THEN Applied(Applied(view, pump.frame), reply)
                   ELSE IF pump.to THEN Blank ELSE Applied(view, reply)
        /\ lossy' = (lossy /\ ~(heard /\ pump.clean /\ ~overflowed))
  BY DEF Sent
<1>3. /\ pump # NoFrame /\ pump' = NoFrame /\ reply' = NoFrame /\ FeedTyped /\ NothingYet /\ InFlight
      /\ UNCHANGED <<host, engine, session, active, mem, msgs, queue, overflowed>>
  BY <1>1 DEF Sent, PageInv, life, talk, truth
<1>4. /\ mem \in Nat /\ msgs \in [Threads -> Nat] /\ queue \in Seq(Events) /\ view \in Pages
      /\ IsFrame(pump.frame) /\ (reply # NoFrame => IsFrame(reply) /\ IsSnapshot(reply))
  BY <1>3 DEF FeedTyped, IsFrame
<1>5. heard \in BOOLEAN /\ (heard => pump.to /\ conn = "in") /\ pump.to \in BOOLEAN
  BY <1>2, <1>3 DEF FeedTyped
<1>6. \A v : Applied(v, NoFrame) = v
  BY DEF Applied, NoFrame, None
<1>7. ~OnItsWay(NoFrame)
  BY DEF OnItsWay
  \* The page that heard the frame, or that it was not meant for, then the result.
<1>8. ASSUME NEW u \in Pages, view' = Applied(u, reply),
             u.known \/ reply # NoFrame => conn' = "in",
             Whole => PageOk(u, queue, mem, msgs, NoFrame)
      PROVE  /\ view' \in Pages /\ (view'.known => conn' = "in")
             /\ Whole => PageOk(view', queue, mem, msgs, NoFrame)
  <2>1. CASE reply = NoFrame
    BY <1>6, <1>8, <2>1
  <2>2. CASE reply # NoFrame
    <3>1. Whole => FrameOk(reply, queue, mem, msgs)
      BY <1>3, <2>2 DEF InFlight, FlightOk
    <3>2. view' \in Pages
      BY <1>4, <1>8, <2>2, AppliedTyped
    <3>3. QED
      BY <1>4, <1>8, <2>2, <3>1, <3>2, SnapshotShows
  <2>3. QED
    BY <2>1, <2>2
<1>9. /\ view' \in Pages /\ (view'.known => conn' = "in")
      /\ (heard \/ ~pump.to) /\ Whole => PageOk(view', queue, mem, msgs, NoFrame)
      /\ view'.known => heard \/ ~pump.to
  <2>1. CASE heard
    <3>1. PICK u : u = Applied(view, pump.frame)
      OBVIOUS
    <3>2. u \in Pages
      BY <1>4, <3>1, AppliedTyped
    <3>3. Whole => PageOk(u, queue, mem, msgs, NoFrame)
      BY <1>3, <1>4, <3>1, HeardPage DEF InFlight, FlightOk
    <3>4. view' = Applied(u, reply) /\ conn' = "in"
      BY <1>2, <1>5, <2>1, <3>1
    <3>5. QED
      BY <1>8, <2>1, <3>2, <3>3, <3>4
  <2>2. CASE ~heard /\ pump.to
    BY <1>2, <2>2 DEF Blank, Pages, MaybeThread
  <2>3. CASE ~heard /\ ~pump.to
    <3>1. view' = Applied(view, reply) /\ conn' = conn
      BY <1>2, <2>3
    <3>2. view.known \/ reply # NoFrame => conn = "in"
      BY <1>3 DEF FeedTyped
    <3>3. Whole => PageOk(view, queue, mem, msgs, NoFrame)
      BY <1>3, <2>3, UnheardPage DEF InFlight, FlightOk, OnItsWay
    <3>4. QED
      BY <1>4, <1>8, <2>3, <3>1, <3>2, <3>3
  <2>4. QED
    BY <1>5, <2>1, <2>2, <2>3
<1>10. Whole' => Whole
  BY <1>2, <1>3, <1>5 DEF Whole, OnItsWay
<1>11. Whole' => FlightOk(queue, mem, msgs, NoFrame, NoFrame, view')
  <2>1. Whole => Flow(queue, mem, msgs, NoFrame)
    BY <1>3 DEF InFlight, FlightOk, Flow
  <2>2. ~view'.known => PageOk(view', queue, mem, msgs, NoFrame)
    BY DEF PageOk
  <2>3. QED
    BY <1>9, <1>10, <2>1, <2>2 DEF FlightOk
<1>12. lossy' \in BOOLEAN
  BY <1>2
<1>13. FeedTyped' /\ NothingYet'
  BY <1>3, <1>9, <1>12 DEF FeedTyped, NothingYet
<1>14. QED
  BY <1>3, <1>11, <1>13 DEF PageInv, InFlight

\* A turn's messages and memory are told of as they are stored.
LEMMA TurnEndsPreserves ==
  ASSUME PageInv, TurnEnds
  PROVE  PageInv'
<1>1. SUFFICES ASSUME host = "run" PROVE PageInv'
  BY DEF TurnEnds, PageInv, life
<1>2. /\ engine /\ FeedTyped /\ NothingYet /\ InFlight
      /\ UNCHANGED <<host, engine, session, active, pump, reply, view, conn>>
  BY <1>1 DEF TurnEnds, PageInv, life, client
<1>3. CASE UNCHANGED <<truth, queue, overflowed, lossy>>
  BY <1>1, <1>2, <1>3, CalmPreserves DEF CalmStep, truth, FeedTyped
<1>4. ASSUME NEW events \in Seq(Events), Publish(events), mem' \in Nat, msgs' \in [Threads -> Nat],
             FlightOk(queue, mem, msgs, pump, reply, view)
               => FlightOk(queue \o events, mem', msgs', pump, reply, view)
      PROVE  PageInv'
  <2>1. queue' \in Seq(Events) /\ overflowed' \in BOOLEAN /\ lossy' \in BOOLEAN
    BY <1>1, <1>2, <1>4, PublishStep DEF FeedTyped
  <2>2. FeedTyped' /\ NothingYet'
    BY <1>2, <1>4, <2>1 DEF FeedTyped, NothingYet
  <2>3. Whole' => FlightOk(queue', mem', msgs', pump', reply, view)
    BY <1>1, <1>2, <1>4, StoreStep
  <2>4. QED
    BY <1>2, <2>2, <2>3 DEF PageInv, InFlight
<1>5. /\ queue \in Seq(Events) /\ mem \in Nat /\ msgs \in [Threads -> Nat] /\ session \in Threads
      /\ view \in Pages /\ (pump # NoFrame => IsFrame(pump.frame)) /\ (reply # NoFrame => IsFrame(reply))
  BY <1>2 DEF FeedTyped, IsFrame
<1>6. PICK ms2 : ms2 = [msgs EXCEPT ![session] = @ + 1]
  OBVIOUS
<1>7. MemoryEvent = Memory(mem + 1) /\ MessageEvent(session) = Message(session, msgs[session] + 1)
  BY DEF MemoryEvent, MessageEvent, Memory, Message
<1>8. CASE msgs' = ms2 /\ mem' = mem /\ Publish(<<MessageEvent(session)>>)
  <2>1. Arises(MessageEvent(session), queue, mem, msgs, Append(queue, MessageEvent(session)), mem, ms2)
    BY <1>5, <1>6, <1>7 DEF Arises
  <2>2. MessageEvent(session) \in Events /\ ms2 \in [Threads -> Nat]
    BY <1>5, <2>1, HappensTyped
  <2>3. FlightOk(queue, mem, msgs, pump, reply, view)
          => FlightOk(Append(queue, MessageEvent(session)), mem, ms2, pump, reply, view)
    BY <1>5, <2>1, HappensFlight
  <2>4. /\ Append(queue, MessageEvent(session)) = queue \o <<MessageEvent(session)>>
        /\ <<MessageEvent(session)>> \in Seq(Events)
    BY <1>5, <2>2
  <2>5. QED
    BY <1>4, <1>5, <1>8, <2>2, <2>3, <2>4
<1>9. CASE msgs' = ms2 /\ mem' = mem + 1 /\ Publish(<<MemoryEvent, MessageEvent(session)>>)
  <2>1. PICK q1, e1, e2, q2 : /\ e1 = MemoryEvent /\ e2 = MessageEvent(session)
                              /\ q1 = Append(queue, e1) /\ q2 = Append(q1, e2)
    OBVIOUS
  <2>2. Arises(e1, queue, mem, msgs, q1, mem + 1, msgs)
    BY <1>7, <2>1 DEF Arises
  <2>3. e1 \in Events /\ q1 \in Seq(Events) /\ mem + 1 \in Nat
    BY <1>5, <2>2, HappensTyped
  <2>4. Arises(e2, q1, mem + 1, msgs, q2, mem + 1, ms2)
    BY <1>5, <1>6, <1>7, <2>1 DEF Arises
  <2>5. e2 \in Events /\ ms2 \in [Threads -> Nat]
    BY <1>5, <2>3, <2>4, HappensTyped
  <2>6. FlightOk(queue, mem, msgs, pump, reply, view) => FlightOk(q1, mem + 1, msgs, pump, reply, view)
    BY <1>5, <2>2, HappensFlight
  <2>7. FlightOk(q1, mem + 1, msgs, pump, reply, view) => FlightOk(q2, mem + 1, ms2, pump, reply, view)
    BY <1>5, <2>3, <2>4, HappensFlight
  <2>8. q2 = queue \o <<e1, e2>> /\ <<e1, e2>> \in Seq(Events)
    BY <1>5, <2>1, <2>3, <2>5
  <2>9. QED
    BY <1>4, <1>9, <2>1, <2>3, <2>5, <2>6, <2>7, <2>8
<1>10. QED
  BY <1>2, <1>3, <1>6, <1>8, <1>9 DEF TurnEnds, Notify

\* forget_memory tells the page twice: by the event and by its own result.
LEMMA ForgetMemoryPreserves ==
  ASSUME IInv, PageInv, ForgetMemory
  PROVE  PageInv'
<1>1. SUFFICES ASSUME host = "run" PROVE PageInv'
  BY DEF ForgetMemory, PageInv, life
<1>2. /\ engine /\ conn = "in" /\ FeedTyped /\ NothingYet /\ InFlight
      /\ mem' = mem + 1 /\ msgs' = msgs /\ Publish(<<MemoryEvent>>)
      /\ Reply([Snapshot EXCEPT !.mem = mem + 1])
      /\ UNCHANGED <<host, engine, session, active, pump, conn>>
  BY <1>1 DEF ForgetMemory, Ready, Notify, PageInv, life, talk
<1>3. /\ queue \in Seq(Events) /\ mem \in Nat /\ mem + 1 \in Nat /\ msgs \in [Threads -> Nat]
      /\ view \in Pages /\ (pump # NoFrame => IsFrame(pump.frame)) /\ (reply # NoFrame => IsFrame(reply))
  BY <1>2 DEF FeedTyped, IsFrame
<1>4. Arises(MemoryEvent, queue, mem, msgs, Append(queue, MemoryEvent), mem + 1, msgs)
  BY DEF Arises, MemoryEvent, Memory
<1>5. MemoryEvent \in Events
  BY <1>3, <1>4, HappensTyped
<1>6. FlightOk(queue, mem, msgs, pump, reply, view)
        => FlightOk(Append(queue, MemoryEvent), mem + 1, msgs, pump, reply, view)
  BY <1>3, <1>4, HappensFlight
<1>7. Append(queue, MemoryEvent) = queue \o <<MemoryEvent>> /\ <<MemoryEvent>> \in Seq(Events)
  BY <1>3, <1>5
<1>8. queue' \in Seq(Events) /\ overflowed' \in BOOLEAN /\ lossy' \in BOOLEAN
  BY <1>1, <1>2, <1>7, PublishStep DEF FeedTyped
<1>9. Whole' => FlightOk(queue', mem', msgs', pump', reply, view)
  BY <1>1, <1>2, <1>6, <1>7, StoreStep
<1>10. Honest([Snapshot EXCEPT !.mem = mem + 1], mem + 1, msgs)
  BY <1>2, HonestVariants DEF IInv
<1>11. /\ view' \in Pages
       /\ reply' # NoFrame => IsSnapshot(reply') /\ pump # NoFrame
       /\ FlightOk(queue', mem + 1, msgs, pump, reply, view)
            => FlightOk(queue', mem + 1, msgs, pump, reply', view')
  BY <1>2, <1>3, <1>10, ReplyStep
<1>12. FeedTyped' /\ NothingYet'
  BY <1>2, <1>3, <1>8, <1>11 DEF FeedTyped, NothingYet
<1>13. QED
  BY <1>2, <1>9, <1>11, <1>12 DEF PageInv, InFlight

\* With the client goes the page.
LEMMA DisconnectPreserves ==
  ASSUME PageInv, Disconnect
  PROVE  PageInv'
<1>1. SUFFICES ASSUME host = "run" PROVE PageInv'
  BY DEF Disconnect, PageInv, life
<1>2. /\ FeedTyped /\ NothingYet /\ InFlight /\ reply' = NoFrame /\ view' = Blank
      /\ UNCHANGED <<host, engine, session, active, mem, msgs, queue, overflowed, pump, lossy>>
  BY <1>1 DEF Disconnect, PageInv, life, talk, truth, feed
<1>3. Blank \in Pages /\ ~Blank.known
  BY DEF Blank, Pages, MaybeThread
<1>4. FeedTyped' /\ NothingYet'
  BY <1>2, <1>3 DEF FeedTyped, NothingYet
<1>5. Whole => FlightOk(queue, mem, msgs, pump, NoFrame, Blank)
  BY <1>2, <1>3 DEF InFlight, FlightOk, PageOk
<1>6. Whole' = Whole
  BY <1>2 DEF Whole, OnItsWay, NoFrame
<1>7. QED
  BY <1>2, <1>4, <1>5, <1>6 DEF PageInv, InFlight

\* The steps of the engine and of the commands that change nothing that is shown.
LEMMA QuietPreserves ==
  ASSUME PageInv, SpeechBegins \/ MicrophoneLost \/ Connect \/ MicrophoneOn \/ MicrophoneOff
                  \/ RequestMicrophoneAccess \/ (\E by : BeginRefresh(by)) \/ NothingToBuild
                  \/ FactoryReturned
  PROVE  PageInv'
<1>1. host' = host
  BY DEF SpeechBegins, MicrophoneLost, Connect, MicrophoneOn, MicrophoneOff, RequestMicrophoneAccess,
         BeginRefresh, NothingToBuild, FactoryReturned, life
<1>2. SUFFICES ASSUME host = "run" PROVE PageInv'
  BY <1>1 DEF PageInv
<1>3. FeedTyped
  BY <1>2 DEF PageInv
<1> USE DEF CalmStep, FeedTyped, MaybeThread, life, talk, truth, feed, client
<1>4. CASE SpeechBegins BY <1>2, <1>3, <1>4, CalmPreserves DEF SpeechBegins
<1>5. CASE MicrophoneLost BY <1>2, <1>3, <1>5, CalmPreserves DEF MicrophoneLost
<1>6. CASE Connect BY <1>2, <1>3, <1>6, CalmPreserves DEF Connect
<1>7. CASE MicrophoneOn BY <1>2, <1>3, <1>7, CalmPreserves DEF MicrophoneOn
<1>8. CASE MicrophoneOff BY <1>2, <1>3, <1>8, CalmPreserves DEF MicrophoneOff
<1>9. CASE RequestMicrophoneAccess BY <1>2, <1>3, <1>9, CalmPreserves DEF RequestMicrophoneAccess
<1>10. ASSUME NEW by, BeginRefresh(by) PROVE PageInv'
  BY <1>2, <1>3, <1>10, CalmPreserves DEF BeginRefresh
<1>11. CASE NothingToBuild BY <1>2, <1>3, <1>11, CalmPreserves DEF NothingToBuild
<1>12. CASE FactoryReturned BY <1>2, <1>3, <1>12, CalmPreserves DEF FactoryReturned
<1>13. QED
  BY <1>4, <1>5, <1>6, <1>7, <1>8, <1>9, <1>10, <1>11, <1>12

\* The steps that answer with a snapshot.
LEMMA AnswerPreserves ==
  ASSUME IInv, PageInv,
         GetStatus \/ (\E th \in Threads : SelectThread(th)) \/ SubmitText \/ MicrophoneAnswered
         \/ EngineAnswered \/ FactoryFailed \/ StartFailed \/ EngineStarted
  PROVE  PageInv'
<1>1. host' = host
  BY DEF GetStatus, SelectThread, SubmitText, MicrophoneAnswered, EngineAnswered, FactoryFailed,
         StartFailed, EngineStarted, life
<1>2. SUFFICES ASSUME host = "run" PROVE PageInv'
  BY <1>1 DEF PageInv
<1>3. FeedTyped /\ NothingYet /\ EngineOwned
  BY <1>2 DEF PageInv, IInv
<1>4. /\ session \in Threads /\ active \in MaybeThread /\ Threads \subseteq MaybeThread
      /\ (active # None => active \in Threads)
  BY <1>3 DEF FeedTyped, MaybeThread
<1>5. SUFFICES CalmStep
  BY CalmPreserves
<1>6. Honest(Snapshot, mem, msgs)
  BY <1>3, SnapshotHonest
<1>7. /\ \A rest : Honest([Snapshot EXCEPT !.rest = rest], mem, msgs)
      /\ \A th \in Threads : Honest([Snapshot EXCEPT !.thread = th, !.msgs = msgs[th]], mem, msgs)
      /\ \A rest : Honest([Snapshot EXCEPT !.rest = rest, !.thread = session, !.mem = mem,
                                           !.msgs = msgs[session]], mem, msgs)
  BY <1>3, <1>4, HonestVariants
<1> USE DEF CalmStep, life, talk, truth, feed
<1>8. CASE GetStatus BY <1>2, <1>4, <1>6, <1>8 DEF GetStatus, Ready
<1>9. ASSUME NEW th \in Threads, SelectThread(th) PROVE CalmStep
  BY <1>2, <1>4, <1>7, <1>9 DEF SelectThread, Ready
<1>10. CASE SubmitText
  BY <1>2, <1>4, <1>7, <1>10 DEF SubmitText, Ready
<1>11. CASE MicrophoneAnswered
  BY <1>2, <1>4, <1>7, <1>11 DEF MicrophoneAnswered
<1>12. CASE EngineAnswered BY <1>2, <1>4, <1>6, <1>12 DEF EngineAnswered
<1>13. CASE FactoryFailed BY <1>2, <1>4, <1>6, <1>13 DEF FactoryFailed, Refreshed
<1>14. CASE StartFailed BY <1>2, <1>4, <1>6, <1>14 DEF StartFailed, Refreshed
<1>15. CASE EngineStarted BY <1>2, <1>4, <1>7, <1>15 DEF EngineStarted, Refreshed
<1>16. QED
  BY <1>8, <1>9, <1>10, <1>11, <1>12, <1>13, <1>14, <1>15

\* The feed ends with the host's run.
LEMMA EndPreserves ==
  ASSUME PageInv, Stop \/ CloseServer \/ CloseRuntime
  PROVE  PageInv'
BY DEF PageInv, Stop, CloseServer, CloseRuntime

\* A stutter keeps the invariant.
LEMMA PageStutters == PageInv /\ UNCHANGED vars => PageInv'
<1>1. SUFFICES ASSUME PageInv, UNCHANGED vars, host = "run" PROVE PageInv'
  BY DEF PageInv, vars, life
<1>2. CalmStep
  BY <1>1 DEF vars, life, talk, truth, feed, client, CalmStep, PageInv, FeedTyped
<1>3. QED
  BY <1>1, <1>2, CalmPreserves

\* The initial states satisfy the invariant.
LEMMA PageInit == Init => PageInv
<1>1. SUFFICES ASSUME Init PROVE PageInv
  OBVIOUS
<1>2. Blank \in Pages /\ ~Blank.known
  BY DEF Blank, Pages, MaybeThread
<1>3. FirstThread \in Threads
  BY UiBounds DEF FirstThread
<1>4. FeedTyped
  <2>1. /\ mem = 0 /\ msgs = [th \in Threads |-> 0] /\ session \in Threads /\ active = None
        /\ queue = <<>> /\ overflowed = FALSE /\ lossy = FALSE /\ pump = NoFrame /\ reply = NoFrame
        /\ view = Blank
    BY <1>1, <1>3 DEF Init
  <2>2. <<>> \in Seq(Events) /\ None \in MaybeThread /\ [th \in Threads |-> 0] \in [Threads -> Nat]
    BY DEF MaybeThread
  <2>3. QED
    BY <1>2, <2>1, <2>2 DEF FeedTyped
<1>5. NothingYet
  BY <1>1 DEF Init, NothingYet
<1>6. InFlight
  BY <1>1, <1>2 DEF Init, InFlight, FlightOk, Flow, PageOk
<1>7. QED
  BY <1>4, <1>5, <1>6 DEF PageInv

\* Every step keeps it.
LEMMA PageNext == IInv /\ PageInv /\ [Next]_vars => PageInv'
<1> SUFFICES ASSUME IInv, PageInv, [Next]_vars PROVE PageInv'
  OBVIOUS
<1>1. CASE Tick BY <1>1, TickPreserves
<1>2. CASE TakeEvent BY <1>2, TakeEventPreserves
<1>3. CASE Sent BY <1>3, SentPreserves
<1>4. CASE TurnEnds BY <1>4, TurnEndsPreserves
<1>5. CASE Disconnect BY <1>5, DisconnectPreserves
<1>6. CASE SpeechBegins \/ MicrophoneLost \/ Connect \/ BeginRefresh("startup") \/ NothingToBuild
           \/ FactoryReturned
  BY <1>6, QuietPreserves
<1>7. CASE MicrophoneAnswered \/ EngineAnswered \/ FactoryFailed \/ StartFailed \/ EngineStarted
  BY <1>7, AnswerPreserves
<1>8. CASE Handle
  <2>1. CASE GetStatus \/ SubmitText \/ \E th \in Threads : SelectThread(th)
    BY <2>1, AnswerPreserves
  <2>2. CASE \/ BeginRefresh("command") \/ CheckAudioDevices \/ RequestMicrophoneAccess
             \/ MicrophoneOn \/ MicrophoneOff
    BY <2>2, QuietPreserves DEF CheckAudioDevices
  <2>3. CASE ForgetMemory BY <2>3, ForgetMemoryPreserves
  <2>4. QED BY <1>8, <2>1, <2>2, <2>3 DEF Handle
<1>9. CASE Stop \/ CloseServer \/ CloseRuntime BY <1>9, EndPreserves
<1>10. CASE UNCHANGED vars BY <1>10, PageStutters
<1>11. QED
  BY <1>1, <1>2, <1>3, <1>4, <1>5, <1>6, <1>7, <1>8, <1>9, <1>10 DEF Next
-----------------------------------------------------------------------------
\* The invariant of the feed holds in every reachable state.
THEOREM FeedInvariance == Spec => []PageInv
BY PageInit, PageNext, Invariance, PTL DEF Spec

\* With any number of threads, any capacity and any number of changes: however the
\* event queue overflows and however events, snapshots and results overtake each other,
\* a page to which everything has been sent shows the memories of the store and the
\* messages of its thread, each of them once and in their order.
THEOREM PagesConverge == Spec => []PageConverges
<1>1. PageInv => PageConverges
  <2>1. SUFFICES ASSUME PageInv, AtRest
                 PROVE  /\ view.mem = mem
                        /\ view.thread # None =>
                             view.msgs[view.thread] = [i \in 1..msgs[view.thread] |-> i]
    BY DEF PageConverges
  <2>2. /\ FeedTyped /\ PageOk(view, queue, mem, msgs, NoFrame) /\ queue = <<>> /\ view.known
    BY <2>1 DEF PageInv, AtRest, InFlight, Whole, FlightOk
  <2>3. /\ \A n : ~QueuedMem(queue, n) /\ \A th : ~QueuedMsg(queue, th, n)
        /\ ~OnItsWay(NoFrame)
    BY <2>2 DEF QueuedMem, QueuedMsg, OnItsWay
  <2>4. view.mem = mem
    BY <2>2, <2>3 DEF PageOk, Fresh
  <2>5. ASSUME view.thread # None
        PROVE  view.msgs[view.thread] = [i \in 1..msgs[view.thread] |-> i]
    <3>1. Shown(view, view.thread, queue, msgs, NoFrame) /\ view.thread \in Threads
      BY <2>2, <2>3, <2>5 DEF PageOk, FeedTyped, Pages, MaybeThread
    <3>2. PICK s \in Seq(Nat) : s = view.msgs[view.thread]
      BY <2>2, <3>1 DEF FeedTyped, Pages
    <3>3. PICK top \in Nat : top = msgs[view.thread]
      BY <2>2, <3>1 DEF FeedTyped
    <3>4. /\ \A i \in 1..Len(s) : s[i] = i
          /\ Len(s) <= top /\ \A n \in (Len(s) + 1)..top : FALSE
      BY <2>3, <3>1, <3>2, <3>3 DEF Shown
    <3>5. Len(s) = top
      <4>1. Len(s) \in Nat /\ (Len(s) < top => Len(s) + 1 \in (Len(s) + 1)..top)
        OBVIOUS
      <4>2. QED
        BY <3>4, <4>1
    <3>6. s = [i \in 1..top |-> i]
      BY <3>4, <3>5
    <3>7. QED
      BY <3>2, <3>3, <3>6
  <2>6. QED
    BY <2>4, <2>5
<1>2. QED
  BY <1>1, FeedInvariance, PTL
-----------------------------------------------------------------------------
(* The engine's executor.  The flush flag is raised on the event loop      *)
(* before the executor sees the job that lowers it, so the argument is     *)
(* about the queue of jobs: a job that lowers the flag leaves the queue    *)
(* only by lowering it, or by being the refused rebuild that the property  *)
(* names.                                                                  *)

Snaps == Devices \cup {Nothing}
Points == {"idle", "dead", "lock", "ask", "permit", "query", "rebuild", "adopt", "open", "off",
           "undo", "offcancel", "devcancel", "healcancel", "errcancel", "shutdown", "shutoff",
           "closeall", "write", "blocks"}
Jobs  == [task : Tasks \cup {"writer"}, op : Points, snap : Snaps]
Lowering == {"rebuild", "adopt", "offcancel", "devcancel", "healcancel", "errcancel", "shutdown",
             "closeall"}
Lowers(s) == \E i \in DOMAIN s : s[i].op \in Lowering

StreamsTyped ==
  /\ default \in Snaps /\ resolved \in Snaps /\ snapshot \in Snaps
  /\ task \in [Tasks \cup {"writer"} -> [at : Points, cmd : {Nothing, "check"}, snap : Snaps]]
  /\ jobs \in Seq(Jobs)
  /\ done \in Seq([task : Tasks \cup {"writer"}, ok : BOOLEAN, val : Snaps])

QueueInv == StreamsTyped /\ FlushExplained

LEMMA HeadIn ==
  ASSUME NEW S, NEW s \in Seq(S), s # <<>>
  PROVE  Head(s) \in S
OBVIOUS

LEMMA TailIn ==
  ASSUME NEW S, NEW s \in Seq(S), s # <<>>
  PROVE  Tail(s) \in Seq(S)
OBVIOUS

LEMMA AppendLowers ==
  ASSUME NEW s \in Seq(Jobs), NEW e \in Jobs, Lowers(s) \/ e.op \in Lowering
  PROVE  Append(s, e) \in Seq(Jobs) /\ Lowers(Append(s, e))
BY DEF Lowers

LEMMA TailLowers ==
  ASSUME NEW s \in Seq(Jobs), s # <<>>, Lowers(s), Head(s).op \notin Lowering
  PROVE  Tail(s) \in Seq(Jobs) /\ Lowers(Tail(s))
<1>1. PICK i \in DOMAIN s : s[i].op \in Lowering
  BY DEF Lowers
<1>2. i # 1 /\ i - 1 \in DOMAIN Tail(s) /\ Tail(s)[i - 1] = s[i]
  BY <1>1
<1>3. QED
  BY <1>1, <1>2 DEF Lowers

TaskStates == [Tasks \cup {"writer"} -> [at : Points, cmd : {Nothing, "check"}, snap : Snaps]]

\* What a step of a task may do to queue and flag.
Moves ==
  /\ task' \in TaskStates /\ refused' = refused
  /\ \/ UNCHANGED <<jobs, flush>>
     \/ \E e \in Jobs : /\ jobs' = Append(jobs, e)
                        /\ flush' = flush \/ e.op \in Lowering

LEMMA MovesKeep ==
  ASSUME StreamsTyped, FlushExplained, Moves
  PROVE  jobs' \in Seq(Jobs) /\ FlushExplained'
<1>1. CASE UNCHANGED <<jobs, flush>>
  BY <1>1 DEF StreamsTyped, FlushExplained, Moves
<1>2. CASE \E e \in Jobs : jobs' = Append(jobs, e) /\ (flush' = flush \/ e.op \in Lowering)
  <2>1. PICK e \in Jobs : jobs' = Append(jobs, e) /\ (flush' = flush \/ e.op \in Lowering)
    BY <1>2
  <2>2. jobs \in Seq(Jobs) /\ refused' = refused
    BY DEF StreamsTyped, Moves
  <2>3. flush' => refused' \/ Lowers(jobs')
    <3>1. CASE e.op \in Lowering
      BY <3>1, <2>1, <2>2, AppendLowers
    <3>2. CASE flush' = flush
      <4>1. flush => refused \/ Lowers(jobs)
        BY DEF FlushExplained, Lowers, Lowering
      <4>2. QED
        BY <4>1, <3>2, <2>1, <2>2, AppendLowers
    <3>3. QED
      BY <2>1, <3>1, <3>2
  <2>4. QED
    BY <2>1, <2>2, <2>3 DEF FlushExplained, Lowers, Lowering
<1>3. QED
  BY <1>1, <1>2 DEF Moves

LEMMA SubmitMoves ==
  ASSUME StreamsTyped, NEW t \in Tasks \cup {"writer"}, NEW op \in Points, NEW snap \in Snaps,
         Submit(t, op, snap), refused' = refused, flush' = flush \/ op \in Lowering
  PROVE  Moves
<1>1. task' \in TaskStates
  BY DEF StreamsTyped, Submit, TaskStates
<1>2. [task |-> t, op |-> op, snap |-> snap] \in Jobs
  BY DEF Jobs
<1>3. QED
  BY <1>1, <1>2 DEF Submit, Moves

LEMMA LeaveMoves ==
  ASSUME StreamsTyped, NEW t \in Tasks \cup {"writer"}, Leave(t), UNCHANGED <<flush, refused>>
  PROVE  Moves
<1>1. Idle \in [at : Points, cmd : {Nothing, "check"}, snap : Snaps]
  BY DEF Idle, Snaps, Nothing, Points
<1>2. task' \in TaskStates
  BY <1>1 DEF StreamsTyped, Leave, TaskStates
<1>3. QED
  BY <1>2 DEF Leave, Moves

LEMMA AwaitMoves ==
  ASSUME StreamsTyped, NEW t \in Tasks \cup {"writer"}, NEW point \in Points, Await(t, point),
         UNCHANGED <<flush, refused>>
  PROVE  Moves
BY DEF StreamsTyped, Await, Moves, TaskStates

LEMMA UndoMoves ==
  ASSUME StreamsTyped, NEW t \in Tasks, Undo(t), refused' = refused
  PROVE  Moves
<1>1. Nothing \in Snaps /\ t \in Tasks \cup {"writer"}
  BY DEF Snaps
<1>2. \/ Leave(t) /\ flush' = flush
      \/ Submit(t, "undo", Nothing) /\ flush' = flush
      \/ Submit(t, "errcancel", Nothing) /\ flush' = TRUE
  BY DEF Undo, Tasks
<1>3. CASE Leave(t) /\ flush' = flush
  BY <1>1, <1>3, LeaveMoves
<1>4. CASE Submit(t, "undo", Nothing) /\ flush' = flush
  <2>1. "undo" \in Points
    BY DEF Points
  <2>2. QED
    BY <1>1, <1>4, <2>1, SubmitMoves
<1>5. CASE Submit(t, "errcancel", Nothing) /\ flush' = TRUE
  <2>1. "errcancel" \in Points /\ "errcancel" \in Lowering
    BY DEF Points, Lowering
  <2>2. QED
    BY <1>1, <1>5, <2>1, SubmitMoves
<1>6. QED
  BY <1>2, <1>3, <1>4, <1>5

LEMMA SyncMoves ==
  ASSUME StreamsTyped, NEW t \in Tasks, NEW req, NEW snap, NEW res, Sync(t, req, snap, res),
         refused' = refused
  PROVE  Moves
<1>1. Nothing \in Snaps /\ t \in Tasks \cup {"writer"}
  BY DEF Snaps
<1>2. \/ Undo(t)
      \/ flush' = flush /\ (\/ Submit(t, "off", Nothing) \/ Submit(t, "open", Nothing)
                            \/ Await(t, "permit"))
  BY DEF Sync, Await
<1>4. CASE Undo(t)
  BY <1>4, UndoMoves
<1>5. CASE flush' = flush /\ Submit(t, "off", Nothing)
  <2>1. "off" \in Points
    BY DEF Points
  <2>2. QED
    BY <1>1, <1>5, <2>1, SubmitMoves
<1>6. CASE flush' = flush /\ Submit(t, "open", Nothing)
  <2>1. "open" \in Points
    BY DEF Points
  <2>2. QED
    BY <1>1, <1>6, <2>1, SubmitMoves
<1>7. CASE flush' = flush /\ Await(t, "permit")
  <2>1. "permit" \in Points
    BY DEF Points
  <2>2. QED
    BY <1>1, <1>7, <2>1, AwaitMoves
<1>8. QED
  BY <1>2, <1>4, <1>5, <1>6, <1>7

LEMMA FencedMoves ==
  ASSUME StreamsTyped, NEW t \in Tasks, NEW op \in Lowering, NEW snap \in Snaps,
         Fenced(t, op, snap), refused' = refused
  PROVE  Moves
<1>1. t \in Tasks \cup {"writer"} /\ op \in Points
  BY DEF Lowering, Points
<1>2. Submit(t, op, snap)
  BY DEF Fenced
<1>3. QED
  BY <1>1, <1>2, SubmitMoves

LEMMA ApplyMoves ==
  ASSUME StreamsTyped, NEW t \in Tasks, NEW snap \in Snaps, NEW res, Apply(t, snap, res),
         refused' = refused
  PROVE  Moves
BY SyncMoves, FencedMoves DEF Apply, Lowering
-----------------------------------------------------------------------------
(* The executor.                                                           *)

\* A finished job that does not lower the flag, or that leaves it explained.
LEMMA FinishKeeps ==
  ASSUME StreamsTyped, FlushExplained, jobs # <<>>, NEW ok \in BOOLEAN, NEW val \in Snaps,
         Finish(ok, val),
         flush' => refused' \/ (flush /\ refused' = refused /\ Job.op \notin Lowering)
  PROVE  /\ jobs' \in Seq(Jobs) /\ FlushExplained'
         /\ done' \in Seq([task : Tasks \cup {"writer"}, ok : BOOLEAN, val : Snaps])
<1>1. jobs' = Tail(jobs) /\ jobs' \in Seq(Jobs) /\ Job \in Jobs
  BY DEF StreamsTyped, Finish, Job
<1>2. flush' => refused' \/ Lowers(jobs')
  BY <1>1, TailLowers DEF FlushExplained, Lowers, Lowering, StreamsTyped, Job
<1>3. FlushExplained'
  BY <1>2 DEF FlushExplained, Lowers, Lowering
<1>4. done' \in Seq([task : Tasks \cup {"writer"}, ok : BOOLEAN, val : Snaps])
  BY <1>1 DEF Finish, StreamsTyped, Jobs
<1>5. QED
  BY <1>1, <1>3, <1>4

LEMMA ExecutorKeeps ==
  ASSUME QueueInv, Executor
  PROVE  QueueInv'
<1>0. StreamsTyped /\ FlushExplained /\ Nothing \in Snaps /\ default \in Snaps
  BY DEF QueueInv, StreamsTyped, Snaps
<1>1. CASE RunQuery
  <2>1. PICK ok \in BOOLEAN, val \in Snaps : Finish(ok, val)
    BY <1>0, <1>1 DEF RunQuery
  <2>2. /\ jobs # <<>> /\ Job.op \notin Lowering
        /\ UNCHANGED <<flush, refused, default, resolved, snapshot, task>>
    BY <1>1 DEF RunQuery, Lowering, streams, devices
  <2>3. QED
    BY <1>0, <2>1, <2>2, FinishKeeps DEF QueueInv, StreamsTyped
<1>2. CASE RunRebuild
  <2>1. PICK ok \in BOOLEAN : Finish(ok, Nothing) /\ (flush' => refused')
    BY <1>2 DEF RunRebuild, OutputClosed
  <2>2. jobs # <<>> /\ UNCHANGED <<default, resolved, snapshot, task>>
    BY <1>2 DEF RunRebuild, devices
  <2>3. QED
    BY <1>0, <2>1, <2>2, FinishKeeps DEF QueueInv, StreamsTyped
<1>3. CASE RunOpen
  <2>1. PICK ok \in BOOLEAN : Finish(ok, Nothing)
    BY <1>3 DEF RunOpen
  <2>2. /\ jobs # <<>> /\ Job.op \notin Lowering
        /\ UNCHANGED <<flush, refused, default, resolved, snapshot, task>>
    BY <1>3 DEF RunOpen, Lowering, devices
  <2>3. QED
    BY <1>0, <2>1, <2>2, FinishKeeps DEF QueueInv, StreamsTyped
<1>4. CASE RunClose
  <2>1. Finish(TRUE, Nothing) /\ jobs # <<>> /\ UNCHANGED <<default, resolved, snapshot, task>>
    BY <1>4 DEF RunClose, devices
  <2>2. flush' => flush /\ refused' = refused /\ Job.op \notin Lowering
    BY <1>4 DEF RunClose, OutputClosed, ClosesOutput, ClosesInput, Lowering
  <2>3. QED
    BY <1>0, <2>1, <2>2, FinishKeeps DEF QueueInv, StreamsTyped
<1>5. CASE RunWrite
  <2>1. /\ jobs # <<>> /\ Job.op = "write" /\ UNCHANGED <<default, resolved, snapshot, task>>
        /\ flush' => flush /\ refused' = refused
    BY <1>5 DEF RunWrite, devices
  <2>2. CASE Finish(FALSE, Nothing)
    <3>1. Job.op \notin Lowering
      BY <2>1 DEF Lowering
    <3>2. QED
      BY <1>0, <2>1, <2>2, <3>1, FinishKeeps DEF QueueInv, StreamsTyped
  <2>3. CASE jobs' = [jobs EXCEPT ![1].op = "blocks"] /\ UNCHANGED done
    <3>0. jobs \in Seq(Jobs) /\ 1 \in DOMAIN jobs /\ jobs[1] \in Jobs
      BY <1>0, <2>1 DEF StreamsTyped
    <3>1. jobs' \in Seq(Jobs) /\ DOMAIN jobs' = DOMAIN jobs
      <4>1. [jobs[1] EXCEPT !.op = "blocks"] \in Jobs
        BY <3>0 DEF Jobs, Points
      <4>2. jobs' = [jobs EXCEPT ![1] = [jobs[1] EXCEPT !.op = "blocks"]]
        BY <2>3
      <4>3. QED
        BY <3>0, <4>1, <4>2
    <3>2. \A i \in DOMAIN jobs : jobs[i].op \in Lowering => jobs'[i] = jobs[i]
      BY <1>0, <2>1, <2>3 DEF StreamsTyped, Job, Lowering
    <3>3. FlushExplained'
      BY <1>0, <2>1, <3>1, <3>2 DEF FlushExplained, Lowering
    <3>4. QED
      BY <1>0, <2>1, <2>3, <3>1, <3>3 DEF QueueInv, StreamsTyped
  <2>4. QED
    BY <1>5, <2>2, <2>3 DEF RunWrite
<1>6. CASE RunBlocks
  <2>1. PICK ok \in BOOLEAN : Finish(ok, Nothing)
    BY <1>6 DEF RunBlocks
  <2>2. /\ jobs # <<>> /\ Job.op \notin Lowering /\ UNCHANGED <<default, resolved, snapshot, task>>
    BY <1>6 DEF RunBlocks, Lowering, devices
  <2>4. flush' => flush /\ refused' = refused
    BY <1>6 DEF RunBlocks, OutputClosed
  <2>3. QED
    BY <1>0, <2>1, <2>2, <2>4, FinishKeeps DEF QueueInv, StreamsTyped
<1>7. QED
  BY <1>1, <1>2, <1>3, <1>4, <1>5, <1>6 DEF Executor
-----------------------------------------------------------------------------
(* The tasks and what happens to them.                                     *)

LEMMA StepKeeps ==
  ASSUME QueueInv, Moves, default' \in Snaps, resolved' \in Snaps, snapshot' \in Snaps,
         done' = done \/ (done # <<>> /\ done' = Tail(done))
  PROVE  QueueInv'
<1>1. jobs' \in Seq(Jobs) /\ FlushExplained'
  BY MovesKeep DEF QueueInv
<1>2. done' \in Seq([task : Tasks \cup {"writer"}, ok : BOOLEAN, val : Snaps])
  <2>1. done \in Seq([task : Tasks \cup {"writer"}, ok : BOOLEAN, val : Snaps])
    BY DEF QueueInv, StreamsTyped
  <2>2. QED
    BY <2>1, TailIn
<1>3. QED
  BY <1>1, <1>2 DEF QueueInv, StreamsTyped, Moves, TaskStates

\* What the event loop is told from outside.
LEMMA StreamsWorldKeeps ==
  ASSUME QueueInv,
         \/ DefaultChanges \/ InputFails \/ Recover \/ Asked
         \/ RequestAccess \/ CheckDevices
  PROVE  QueueInv'
<1>0. StreamsTyped
  BY DEF QueueInv
<1>1. CASE DefaultChanges
  BY <1>0, <1>1, StepKeeps DEF DefaultChanges, devices, streams, queues,
     Moves, StreamsTyped, TaskStates, Snaps
<1>2. CASE InputFails
  BY <1>0, <1>2, StepKeeps DEF InputFails, devices, queues, Moves, StreamsTyped, TaskStates
<1>3. CASE Recover
  <2>1. Moves
    BY <1>0, <1>3, AwaitMoves DEF Recover, Tasks, Points
  <2>2. QED
    BY <1>0, <1>3, <2>1, StepKeeps DEF Recover, devices, StreamsTyped
<1>4. CASE Asked
  <2>1. Moves
    BY <1>0, <1>4, LeaveMoves DEF Asked, Tasks, streams
  <2>2. QED
    BY <1>0, <1>4, <2>1, StepKeeps DEF Asked, devices, StreamsTyped
<1>5. CASE RequestAccess
  <2>1. Moves
    BY <1>0, <1>5, AwaitMoves DEF RequestAccess, Tasks, Points, streams
  <2>2. QED
    BY <1>0, <1>5, <2>1, StepKeeps DEF RequestAccess, devices, StreamsTyped
<1>6. CASE CheckDevices
  <2>1. Moves
    <3>1. task' = [task EXCEPT !["ui"].at = "lock", !["ui"].cmd = "check"]
      BY <1>6 DEF CheckDevices
    <3>2. "ui" \in Tasks /\ "lock" \in Points
      BY DEF Tasks, Points
    <3>3. task' \in TaskStates
      BY <1>0, <3>1, <3>2 DEF StreamsTyped, TaskStates
    <3>4. UNCHANGED <<jobs, flush, refused>>
      BY <1>6 DEF CheckDevices, streams, queues
    <3>5. QED
      BY <3>3, <3>4 DEF Moves
  <2>2. QED
    BY <1>0, <1>6, <2>1, StepKeeps DEF CheckDevices, devices, queues, StreamsTyped
<1>7. QED
  BY <1>1, <1>2, <1>3, <1>4, <1>5, <1>6

\* What makes a task submit a job.
LEMMA CommandKeeps ==
  ASSUME QueueInv,
         \/ \E on \in BOOLEAN : SetMicrophone(on)
         \/ WatchTick \/ Write \/ Close
         \/ \E t \in Tasks : GetLock(t) \/ Permit(t)
  PROVE  QueueInv'
<1>0. StreamsTyped /\ Nothing \in Snaps
  BY DEF QueueInv, Snaps
<1>1. ASSUME NEW on \in BOOLEAN, SetMicrophone(on)
      PROVE  QueueInv'
  <2>1. "ui" \in Tasks /\ "offcancel" \in Lowering /\ refused' = refused
    BY <1>1 DEF SetMicrophone, Tasks, Lowering
  <2>2. Fenced("ui", "offcancel", Nothing) \/ Sync("ui", on, snapshot, resolved)
    BY <1>1 DEF SetMicrophone
  <2>3. Moves
    BY <1>0, <2>1, <2>2, FencedMoves, SyncMoves
  <2>4. QED
    BY <1>0, <1>1, <2>3, StepKeeps DEF SetMicrophone, StreamsTyped
<1>2. CASE WatchTick
  <2>1. /\ Submit("watch", "query", Nothing)
        /\ "watch" \in Tasks \cup {"writer"} /\ "query" \in Points
    BY <1>2 DEF WatchTick, Query, Tasks, Points
  <2>2. flush' = flush /\ refused' = refused
    BY <1>2 DEF WatchTick, streams
  <2>3. QED
    BY <1>0, <1>2, <2>1, <2>2, SubmitMoves, StepKeeps DEF WatchTick, devices, StreamsTyped
<1>3. CASE Write
  <2>1. /\ Submit("writer", "write", Nothing) /\ "write" \in Points
        /\ flush' = flush /\ refused' = refused
    BY <1>3 DEF Write, streams, Points
  <2>2. QED
    BY <1>0, <1>3, <2>1, SubmitMoves, StepKeeps DEF Write, devices, StreamsTyped
<1>4. CASE Close
  <2>1. Moves
    BY <1>0, <1>4, FencedMoves DEF Close, Tasks, Lowering
  <2>2. QED
    BY <1>0, <1>4, <2>1, StepKeeps DEF Close, devices, StreamsTyped
<1>5. ASSUME NEW t \in Tasks, GetLock(t)
      PROVE  QueueInv'
  <2>1. /\ t \in Tasks \cup {"writer"} /\ refused' = refused
        /\ "query" \in Points /\ "healcancel" \in Lowering
    BY <1>5 DEF GetLock, Points, Lowering
  <2>2. task[t].snap \in Snaps
    BY <1>0 DEF StreamsTyped
  <2>3. \/ Apply(t, task[t].snap, resolved)
        \/ Submit(t, "query", Nothing) /\ flush' = flush
        \/ Fenced(t, "healcancel", Nothing)
    BY <1>5 DEF GetLock, Query
  <2>4. Moves
    BY <1>0, <2>1, <2>2, <2>3, ApplyMoves, SubmitMoves, FencedMoves
  <2>5. QED
    BY <1>0, <1>5, <2>4, StepKeeps DEF GetLock, StreamsTyped
<1>6. ASSUME NEW t \in Tasks, Permit(t)
      PROVE  QueueInv'
  <2>1. t \in Tasks \cup {"writer"} /\ refused' = refused /\ "open" \in Points
    BY <1>6 DEF Permit, Points
  <2>2. (Submit(t, "open", Nothing) /\ flush' = flush) \/ Undo(t)
    BY <1>6 DEF Permit
  <2>3. Moves
    BY <1>0, <2>1, <2>2, SubmitMoves, UndoMoves
  <2>4. QED
    BY <1>0, <1>6, <2>3, StepKeeps DEF Permit, devices, StreamsTyped
<1>7. QED
  BY <1>1, <1>2, <1>3, <1>4, <1>5, <1>6

\* A task resumes with a result.
LEMMA ResumeKeeps ==
  ASSUME QueueInv, Resume
  PROVE  QueueInv'
<1>0. StreamsTyped /\ Nothing \in Snaps /\ "query" \in Points
  BY DEF QueueInv, Snaps, Points
<1>a. done # <<>> => Result.val \in Snaps /\ Result.task \in Tasks \cup {"writer"}
  <2>1. ASSUME done # <<>>
        PROVE  Head(done) \in [task : Tasks \cup {"writer"}, ok : BOOLEAN, val : Snaps]
    <3>1. done \in Seq([task : Tasks \cup {"writer"}, ok : BOOLEAN, val : Snaps])
      BY <1>0 DEF StreamsTyped
    <3>2. QED
      BY <2>1, <3>1, HeadIn
  <2>2. QED
    BY <2>1 DEF Result
<1>b. \A t \in Tasks : task[t].snap \in Snaps /\ t \in Tasks \cup {"writer"}
  BY <1>0 DEF StreamsTyped
<1>1. ASSUME NEW t \in Tasks, QueryDone(t)
      PROVE  QueueInv'
  <2>1. done # <<>> /\ done' = Tail(done) /\ refused' = refused
    BY <1>1 DEF QueryDone, Resumes
  <2>2. Moves /\ resolved' \in Snaps
    <3>1. CASE ~Result.ok
      <4>1. /\ UNCHANGED <<refused, resolved>>
            /\ (Leave(t) /\ flush' = flush) \/ Undo(t)
        BY <1>1, <3>1 DEF QueryDone
      <4>2. QED
        BY <1>0, <1>b, <4>1, LeaveMoves, UndoMoves DEF StreamsTyped
    <3>2. CASE Result.ok
      <4>1. /\ resolved' = Result.val
            /\ \/ /\ task' = [task EXCEPT ![t].at = "lock", ![t].snap = Result.val]
                  /\ UNCHANGED <<jobs, flush>>
               \/ Fenced(t, "rebuild", Result.val)
               \/ Apply(t, Result.val, Result.val)
        BY <1>1, <3>2 DEF QueryDone, Tasks
      <4>2. CASE /\ task' = [task EXCEPT ![t].at = "lock", ![t].snap = Result.val]
                 /\ UNCHANGED <<jobs, flush>>
        <5>1. task' \in TaskStates
          <6>1. Result.val \in Snaps /\ t \in Tasks \cup {"writer"} /\ "lock" \in Points
            BY <1>a, <1>b, <2>1 DEF Points
          <6>2. QED
            BY <1>0, <4>2, <6>1 DEF StreamsTyped, TaskStates
        <5>2. QED
          BY <1>a, <2>1, <4>1, <4>2, <5>1 DEF Moves
      <4>3. "rebuild" \in Lowering
        BY DEF Lowering
      <4>4. QED
        BY <1>0, <1>a, <2>1, <4>1, <4>2, <4>3, FencedMoves, ApplyMoves
    <3>3. QED
      BY <3>1, <3>2
  <2>3. QED
    BY <1>0, <1>1, <2>1, <2>2, StepKeeps DEF QueryDone, StreamsTyped
<1>2. ASSUME NEW t \in Tasks, CancelDone(t)
      PROVE  QueueInv'
  <2>1. done # <<>> /\ done' = Tail(done) /\ refused' = refused /\ "adopt" \in Lowering
    BY <1>2 DEF CancelDone, Resumes, Lowering
  <2>2. \/ Sync(t, FALSE, snapshot, resolved)
        \/ Leave(t) /\ flush' = flush
        \/ Fenced(t, "adopt", task[t].snap)
        \/ Submit(t, "query", Nothing) /\ flush' = flush
    BY <1>2 DEF CancelDone, Query, Resumes
  <2>3. Moves
    BY <1>0, <1>b, <2>1, <2>2, SyncMoves, FencedMoves, SubmitMoves, LeaveMoves
  <2>4. QED
    BY <1>0, <1>2, <2>1, <2>3, StepKeeps DEF CancelDone, devices, StreamsTyped
<1>3. ASSUME NEW t \in Tasks, RebuildDone(t)
      PROVE  QueueInv'
  <2>1. done # <<>> /\ done' = Tail(done) /\ refused' = refused
    BY <1>3 DEF RebuildDone, Resumes
  <2>2. \/ Undo(t) /\ UNCHANGED snapshot
        \/ Apply(t, task[t].snap, resolved) /\ UNCHANGED snapshot
        \/ snapshot' = task[t].snap /\ Sync(t, micRequested, task[t].snap, resolved)
    BY <1>3 DEF RebuildDone
  <2>3. Moves /\ snapshot' \in Snaps
    BY <1>0, <1>b, <2>1, <2>2, UndoMoves, ApplyMoves, SyncMoves DEF StreamsTyped
  <2>4. QED
    BY <1>0, <1>3, <2>1, <2>3, StepKeeps DEF RebuildDone, StreamsTyped
<1>4. ASSUME NEW t \in Tasks, MicrophoneDone(t)
      PROVE  QueueInv'
  <2>1. done # <<>> /\ done' = Tail(done) /\ refused' = refused
    BY <1>4 DEF MicrophoneDone, Resumes
  <2>2. (Leave(t) /\ flush' = flush) \/ Undo(t)
    BY <1>4 DEF MicrophoneDone
  <2>4. Moves
    BY <1>0, <1>b, <2>1, <2>2, UndoMoves, LeaveMoves
  <2>3. QED
    BY <1>0, <1>4, <2>1, <2>4, StepKeeps DEF MicrophoneDone, devices, StreamsTyped
<1>5. CASE WriteDone
  <2>1. done # <<>> /\ done' = Tail(done) /\ UNCHANGED <<flush, refused>> /\ Leave("writer")
    BY <1>5 DEF WriteDone, Resumes
  <2>2. Moves
    BY <1>0, <2>1, LeaveMoves
  <2>3. QED
    BY <1>0, <1>5, <2>1, <2>2, StepKeeps DEF WriteDone, devices, StreamsTyped
<1>6. CASE CloseSteps
  <2>1. done # <<>> /\ done' = Tail(done) /\ refused' = refused /\ "ui" \in Tasks \cup {"writer"}
    BY <1>6 DEF CloseSteps, Resumes, Tasks
  <2>2. \/ Submit("ui", "shutoff", Nothing) /\ flush' = flush
        \/ OwnerCloses
        \/ task' = [task EXCEPT !["ui"] = Dead] /\ UNCHANGED <<jobs, flush>>
    BY <1>6 DEF CloseSteps, Resumes
  <2>3. Dead \in [at : Points, cmd : {Nothing, "check"}, snap : Snaps]
    BY <1>0 DEF Dead, Idle, Points
  <2>4. CASE Submit("ui", "shutoff", Nothing) /\ flush' = flush
    <3>1. "shutoff" \in Points
      BY DEF Points
    <3>2. Moves
      BY <1>0, <2>1, <2>4, <3>1, SubmitMoves
    <3>3. QED
      BY <1>0, <1>6, <2>1, <3>2, StepKeeps DEF CloseSteps, devices, StreamsTyped
  <2>5. CASE OwnerCloses
    <3>1. [Idle EXCEPT !.at = "closeall"] \in [at : Points, cmd : {Nothing, "check"}, snap : Snaps]
      BY <1>0 DEF Idle, Points
    <3>2. task' \in TaskStates
      BY <1>0, <2>3, <2>5, <3>1 DEF OwnerCloses, TaskStates, StreamsTyped
    <3>3. [task |-> "ui", op |-> "closeall", snap |-> Nothing] \in Jobs
      BY <1>0, <2>1 DEF Jobs, Points
    <3>4. Moves
      BY <2>1, <2>5, <3>2, <3>3 DEF OwnerCloses, Moves, Lowering
    <3>5. QED
      BY <1>0, <1>6, <2>1, <3>4, StepKeeps DEF CloseSteps, devices, StreamsTyped
  <2>6. CASE task' = [task EXCEPT !["ui"] = Dead] /\ UNCHANGED <<jobs, flush>>
    <3>1. task' \in TaskStates
      BY <1>0, <2>3, <2>6 DEF TaskStates, StreamsTyped
    <3>2. Moves
      BY <2>1, <2>6, <3>1 DEF Moves
    <3>3. QED
      BY <1>0, <1>6, <2>1, <3>2, StepKeeps DEF CloseSteps, devices, StreamsTyped
  <2>7. QED
    BY <2>2, <2>4, <2>5, <2>6
<1>7. CASE Abandoned
  <2>1. Moves
    BY <1>0, <1>7 DEF Abandoned, Moves, streams, StreamsTyped, TaskStates
  <2>2. QED
    BY <1>0, <1>7, <2>1, StepKeeps DEF Abandoned, devices, StreamsTyped
<1>8. QED
  BY <1>1, <1>2, <1>3, <1>4, <1>5, <1>6, <1>7 DEF Resume
-----------------------------------------------------------------------------
LEMMA StreamsStart ==
  ASSUME StreamsInit
  PROVE  QueueInv
<1>1. Idle \in [at : Points, cmd : {Nothing, "check"}, snap : Snaps]
  BY DEF Idle, Snaps, Points
<1>2. StreamsTyped
  BY <1>1 DEF StreamsInit, StreamsTyped, Snaps
<1>3. QED
  BY <1>2 DEF StreamsInit, QueueInv, FlushExplained

\* The inductive invariant of the executor's queue holds in every reachable state,
\* whichever tasks submit jobs and however the streams fail.
THEOREM QueueInvariance == StreamsSpec => []QueueInv
<1>1. StreamsInit => QueueInv
  BY StreamsStart
<1>2. QueueInv /\ [StreamsNext]_(streamsVars) => QueueInv'
  <2>1. ASSUME QueueInv, StreamsNext
        PROVE  QueueInv'
    BY <2>1, StreamsWorldKeeps, CommandKeeps, ExecutorKeeps, ResumeKeeps DEF StreamsNext
  <2>2. ASSUME QueueInv, UNCHANGED streamsVars
        PROVE  QueueInv'
    BY <2>2 DEF QueueInv, StreamsTyped, FlushExplained, streamsVars, devices, streams, queues
  <2>3. QED
    BY <2>1, <2>2
<1>3. QED
  BY <1>1, <1>2, PTL DEF StreamsSpec

\* A raised flush flag, which silences every later write (coreaudio.py:355), will be
\* lowered by a queued job unless a refused rebuild left it raised.
THEOREM FlushIsExplained == StreamsSpec => []FlushExplained
<1>1. QueueInv => FlushExplained
  BY DEF QueueInv
<1>2. QED
  BY <1>1, QueueInvariance, PTL
=============================================================================
