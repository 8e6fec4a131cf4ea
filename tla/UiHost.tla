------------------------------- MODULE UiHost -------------------------------
(***************************************************************************)
(* run_ui_ipc: engine.py's event pump, ui/runtime.py's UiRuntime that      *)
(* builds and owns the engine, ipc/server.py's one client, and what        *)
(* app.js makes of the frames it receives.  Private text is reduced to     *)
(* versions: mem is the memory list, msgs[th] the messages of a thread;    *)
(* whatever no event carries is in the rest of the snapshot.               *)
(***************************************************************************)
EXTENDS Integers, Sequences, SequencesExt

CONSTANTS
  Threads,    \* conversation threads; the engine starts in any of them
  Capacity,   \* UI_EVENT_QUEUE_CAPACITY, 256
  MaxChanges, \* bound on the changes of memories and messages, together
  MaxBuilds   \* bound on the engines ever built

ASSUME UiBounds ==
  /\ Threads # {} /\ Capacity \in Nat \ {0} /\ MaxChanges \in Nat /\ MaxBuilds \in Nat

VARIABLES
  host,      \* run_ui_ipc: "run", "tasks", "server", "ended"
  started,   \* runtime._started
  build,     \* refresh_setup in progress: who called it, and its stage
  engine,    \* runtime._engine is set
  built,     \* engines the factory returned
  orphans,   \* history variable: engines started by nobody and closed by nobody
  session,   \* the engine's thread
  active,    \* runtime._active_thread_id
  call,      \* runtime._call_thread_id, or None
  requested, \* engine._microphone_requested
  busy,      \* a turn is running in the engine
  mem, msgs, \* versions of the memory list and of each thread's messages
  queue, overflowed,  \* the event queue and its flag
  previous,  \* the pump's baseline, or None
  pump,      \* the frame the pump is sending: kind, payload, recipient present
  conn,      \* the client: "new", "in" (authenticated), "gone"
  command,   \* the command being dispatched: "none", "mic_on", "mic_off",
             \* "refresh", "ask"
  reply,     \* a result frame waiting for the client's send lock
  view,      \* what the page shows; blank once it is gone
  lossy      \* history variable: a drop that no snapshot has corrected yet

life   == <<host, started, build, engine, built, orphans>>
talk   == <<session, active, call, requested, busy>>
truth  == <<mem, msgs>>
feed   == <<queue, overflowed, previous, pump>>
client == <<conn, command, reply, view>>
vars   == <<life, talk, truth, feed, client, lossy>>

None    == "none"
NoBuild == [by |-> None, at |-> None]
NoFrame == [kind |-> None]
Blank   == [known |-> FALSE, thread |-> None, mem |-> 0, msgs |-> [th \in Threads |-> <<>>]]

\* start_session's new thread; the others are as good as it.
FirstThread == CHOOSE th \in Threads : TRUE

Init ==
  /\ host = "run" /\ started = FALSE /\ build = NoBuild /\ engine = FALSE
  /\ built = 0 /\ orphans = 0
  /\ session = FirstThread /\ active = None /\ call = None /\ requested = FALSE /\ busy = FALSE
  /\ mem = 0 /\ msgs = [th \in Threads |-> 0]
  /\ queue = <<>> /\ overflowed = FALSE /\ previous = NoFrame /\ pump = NoFrame
  /\ conn = "new" /\ command = None /\ reply = NoFrame /\ view = Blank /\ lossy = FALSE

Changes == mem + FoldFunction(LAMBDA n, s : n + s, 0, msgs)
-----------------------------------------------------------------------------
(* The snapshot, the events and the page.                                  *)

\* _starting_snapshot: nothing private is shown before start() has ended.
StartingSnapshot ==
  [kind |-> "snapshot", rest |-> <<FALSE, FALSE, None, FALSE>>, thread |-> None,
   mem |-> 0, msgs |-> 0]

\* runtime.snapshot(): rows are shown only while the engine is there.
Snapshot ==
  IF ~started THEN StartingSnapshot
  ELSE [kind |-> "snapshot", rest |-> <<started, engine, call, busy>>, thread |-> active,
        mem |-> IF engine THEN mem ELSE 0,
        msgs |-> IF engine /\ active # None THEN msgs[active] ELSE 0]

\* publish_ui_event for each event of a change: it never waits.
Publish(events) ==
  LET fits == Len(queue \o events) <= Capacity \/ host # "run" IN
  /\ queue' = IF host = "run" THEN SubSeq(queue \o events, 1, Min({Capacity, Len(queue \o events)})) ELSE <<>>
  /\ overflowed' = (overflowed \/ ~fits)
  /\ lossy' = (lossy \/ ~fits)

\* _notify: the store tells its one listener, which the runtime sets with the
\* engine and detaches before it closes it.
Notify(events) == Publish(IF engine THEN events ELSE <<>>)

\* Mutant: messages are appended without looking whether they are there.
AppliedTwice(v, frame) ==
  CASE frame.kind = "snapshot" ->
         [known |-> TRUE, thread |-> frame.thread, mem |-> frame.mem,
          msgs |-> [th \in Threads |->
                     IF th = frame.thread THEN [i \in 1..frame.msgs |-> i] ELSE <<>>]]
    [] frame.kind = "memory_updated" -> [v EXCEPT !.mem = frame.mem]
    [] frame.kind = "message_added" -> [v EXCEPT !.msgs[frame.thread] = Append(@, frame.msg)]
    [] OTHER -> v

\* applySnapshot replaces what the page shows; mergeEvent patches it, and a
\* message whose ID is there already is not shown again.
Applied(v, frame) ==
  CASE frame.kind = "snapshot" ->
         [known |-> TRUE, thread |-> frame.thread, mem |-> frame.mem,
          msgs |-> [th \in Threads |->
                     IF th = frame.thread THEN [i \in 1..frame.msgs |-> i] ELSE <<>>]]
    [] frame.kind = "memory_updated" -> [v EXCEPT !.mem = frame.mem]
    [] frame.kind = "message_added" ->
         [v EXCEPT !.msgs[frame.thread] =
            IF frame.msg \in ToSet(@) THEN @ ELSE Append(@, frame.msg)]
    [] OTHER -> v

\* A result goes out under the client's send lock: at once, or after the frame
\* the pump is sending.
Reply(frame) ==
  \/ /\ view' = Applied(view, frame) /\ UNCHANGED reply
  \/ /\ pump # NoFrame
     /\ reply' = frame /\ UNCHANGED view

MemoryEvent == [kind |-> "memory_updated", mem |-> mem + 1]
MessageEvent(th) == [kind |-> "message_added", thread |-> th, msg |-> msgs[th] + 1]
-----------------------------------------------------------------------------
(* The event pump.                                                         *)

Pumping == host = "run" /\ pump = NoFrame

\* What the baseline becomes after a frame.
Baseline(frame, heard) == IF heard THEN frame ELSE NoFrame

\* The deadline passed: a whole snapshot, when it differs from the baseline.  In
\* a call the elapsed seconds always differ.
Tick ==
  /\ Pumping
  /\ overflowed' = FALSE
  /\ LET base == IF overflowed THEN NoFrame ELSE previous IN
     IF Snapshot # base \/ call # None
     THEN /\ pump' = [kind |-> "frame", frame |-> Snapshot, to |-> conn = "in",
                      clean |-> queue = <<>>]
          /\ previous' = base
     ELSE previous' = base /\ UNCHANGED pump
  /\ UNCHANGED <<life, talk, truth, queue, client, lossy>>

\* The next event is taken and broadcast.
TakeEvent ==
  /\ Pumping /\ queue # <<>>
  /\ pump' = [kind |-> "frame", frame |-> Head(queue), to |-> conn = "in", clean |-> FALSE]
  /\ queue' = Tail(queue)
  /\ UNCHANGED <<life, talk, truth, overflowed, previous, client, lossy>>

\* The send ended: delivered, or the peer is too slow and dropped; a result that
\* waited for the lock goes next.  After an event the baseline is what the
\* snapshot is by now.
Sent ==
  /\ pump # NoFrame
  /\ pump' = NoFrame /\ reply' = NoFrame
  /\ \E heard \in IF pump.to /\ conn = "in" THEN BOOLEAN ELSE {FALSE} :
       /\ previous' = Baseline(IF pump.frame.kind = "snapshot" THEN pump.frame ELSE Snapshot,
                               heard)
       /\ conn' = IF pump.to /\ ~heard THEN "gone" ELSE conn
       /\ view' = IF heard THEN Applied(Applied(view, pump.frame), reply)
                  ELSE IF pump.to THEN Blank ELSE Applied(view, reply)
       /\ lossy' = (lossy /\ ~(heard /\ pump.clean /\ ~overflowed))
  /\ UNCHANGED <<life, talk, truth, queue, overflowed, command>>
-----------------------------------------------------------------------------
(* What happens in the engine.                                             *)

\* A spoken turn begins.
SpeechBegins ==
  /\ host # "ended" /\ engine /\ requested /\ ~busy /\ Changes < MaxChanges
  /\ busy' = TRUE
  /\ UNCHANGED <<life, session, active, call, requested, truth, feed, client, lossy>>

\* The turn ends: discarded, or completed with its messages and perhaps a memory.
TurnEnds ==
  /\ engine /\ busy
  /\ busy' = FALSE
  /\ \/ UNCHANGED <<truth, queue, overflowed, lossy>>
     \/ /\ Changes < MaxChanges
        /\ msgs' = [msgs EXCEPT ![session] = @ + 1]
        /\ UNCHANGED mem
        /\ Notify(<<MessageEvent(session)>>)
     \/ /\ Changes + 1 < MaxChanges
        /\ msgs' = [msgs EXCEPT ![session] = @ + 1]
        /\ mem' = mem + 1
        /\ Notify(<<MemoryEvent, MessageEvent(session)>>)
  /\ UNCHANGED <<life, session, active, call, requested, previous, pump, client>>

\* The device watch fails and takes the microphone back: the call stays shown.
MicrophoneLost ==
  /\ engine /\ requested
  /\ requested' = FALSE
  /\ UNCHANGED <<life, session, active, call, busy, truth, feed, client, lossy>>
-----------------------------------------------------------------------------
(* The one client and its commands, dispatched one after the other.        *)

\* hello with the one-use token, then hello_ack; a lost client never returns.
Connect ==
  /\ host \in {"run", "tasks"} /\ conn = "new"
  /\ conn' = "in"
  /\ UNCHANGED <<life, talk, truth, feed, command, reply, view, lossy>>

Disconnect ==
  /\ conn = "in"
  /\ conn' = "gone" /\ reply' = NoFrame /\ view' = Blank
  /\ UNCHANGED <<life, talk, truth, feed, command, lossy>>

Ready == conn = "in" /\ command = None /\ reply = NoFrame

\* get_status, sent on hello_ack.
GetStatus ==
  /\ Ready
  /\ Reply(Snapshot)
  /\ UNCHANGED <<life, talk, truth, feed, conn, command, lossy>>

\* forget_memory: the change is published, then the result is a snapshot.
ForgetMemory ==
  /\ Ready /\ started /\ engine /\ Changes < MaxChanges
  /\ mem' = mem + 1
  /\ Notify(<<MemoryEvent>>)
  /\ Reply([Snapshot EXCEPT !.mem = mem + 1])
  /\ UNCHANGED <<life, talk, msgs, previous, pump, conn, command>>

\* session.switch_thread refuses while a turn task is running.
Switchable == ~busy

\* engine.select_thread refuses while the microphone is requested, too.
Selectable(th) == th = session \/ (~requested /\ Switchable)

\* select_thread: during a call only the shown thread changes.  A refusal comes
\* after _active_thread_id was set; it is answered with an error.
SelectThread(th) ==
  /\ Ready /\ started /\ engine /\ th # active
  /\ active' = th
  /\ IF call = None /\ Selectable(th)
     THEN session' = th ELSE UNCHANGED session
  /\ IF call # None \/ Selectable(th)
     THEN Reply([Snapshot EXCEPT !.thread = th, !.msgs = msgs[th]])
     ELSE UNCHANGED <<reply, view>>
  /\ UNCHANGED <<life, call, requested, busy, truth, feed, conn, command, lossy>>

\* Mutant: a call does not bind the other commands to its thread.
InAnyThread(th) == TRUE

\* During a call its thread is the only one that is not read-only.
InCallThread(th) == call \in {None, th}

\* submit_text in the shown thread, which a call makes read-only elsewhere.
SubmitText ==
  /\ Ready /\ started /\ engine /\ active # None /\ Changes < MaxChanges
  /\ InCallThread(active) /\ Selectable(active)
  /\ session' = active /\ busy' = TRUE
  /\ Reply([Snapshot EXCEPT !.rest = <<started, engine, call, TRUE>>])
  /\ UNCHANGED <<life, active, call, requested, truth, feed, conn, command, lossy>>

\* set_microphone(True) up to its await.
MicrophoneOn ==
  /\ Ready /\ started /\ engine /\ active # None
  /\ InCallThread(active) /\ Selectable(active)
  /\ session' = active
  /\ requested' = TRUE /\ command' = "mic_on"
  /\ UNCHANGED <<life, active, call, busy, truth, feed, conn, reply, view, lossy>>

MicrophoneOff ==
  /\ Ready /\ started /\ engine
  /\ requested' = FALSE /\ command' = "mic_off"
  /\ UNCHANGED <<life, session, active, call, busy, truth, feed, conn, reply, view, lossy>>

\* engine.set_microphone returned, or raised: then the call is not touched.
MicrophoneAnswered ==
  /\ command \in {"mic_on", "mic_off"}
  /\ command' = None
  /\ \/ /\ call' = IF command = "mic_on" THEN active ELSE None
        /\ UNCHANGED requested
        /\ IF conn = "in"
           THEN Reply([Snapshot EXCEPT !.rest = <<started, engine, call', busy>>])
           ELSE UNCHANGED <<reply, view>>
     \/ /\ requested' = FALSE
        /\ UNCHANGED <<call, reply, view>>
  /\ UNCHANGED <<life, session, active, busy, truth, feed, conn, lossy>>

\* request_microphone_access, of the engine or of macOS itself when there is
\* none yet: the prompt is awaited and changes nothing else.
RequestMicrophoneAccess ==
  /\ Ready /\ started
  /\ command' = "ask"
  /\ UNCHANGED <<life, talk, truth, feed, conn, reply, view, lossy>>

\* check_audio_devices: the engine's device check is awaited (without an engine
\* it is one more recheck of the setup).
CheckAudioDevices == engine /\ RequestMicrophoneAccess

\* The awaited call returned, or raised: a snapshot, or an error.
EngineAnswered ==
  /\ command = "ask"
  /\ command' = None
  /\ IF conn = "in" THEN Reply(Snapshot) \/ UNCHANGED <<reply, view>>
     ELSE UNCHANGED <<reply, view>>
  /\ UNCHANGED <<life, talk, truth, feed, conn, lossy>>
-----------------------------------------------------------------------------
(* refresh_setup, called by start() and by commands that recheck.          *)

Refreshing == build # NoBuild

\* start() in the startup task, or check_local_runtime once it has ended.
BeginRefresh(by) ==
  /\ ~Refreshing /\ built < MaxBuilds /\ ~engine
  /\ IF by = "startup" THEN host = "run" /\ ~started /\ UNCHANGED command
     ELSE Ready /\ started /\ command' = "refresh"
  /\ build' = [by |-> by, at |-> "factory"]
  /\ UNCHANGED <<host, started, engine, built, orphans, talk, truth, feed, conn, reply,
                 view, lossy>>

\* The readiness check says no, or nothing is left to build: start() ends.
NothingToBuild ==
  /\ host = "run" /\ ~started /\ ~Refreshing
  /\ started' = TRUE
  /\ UNCHANGED <<host, build, engine, built, orphans, talk, truth, feed, client, lossy>>

\* refresh_setup is over: start() ends, or the command answers.
Refreshed(snapshot) ==
  /\ build' = NoBuild
  /\ IF build.by = "startup" THEN started' = TRUE /\ UNCHANGED <<command, reply, view>>
     ELSE /\ command' = None
          /\ UNCHANGED started
          /\ IF conn = "in" THEN Reply(snapshot) ELSE UNCHANGED <<reply, view>>

\* The factory raised; it has cleaned up behind itself.
FactoryFailed ==
  /\ build.at = "factory"
  /\ Refreshed(Snapshot)
  /\ UNCHANGED <<host, engine, built, orphans, talk, truth, feed, conn, lossy>>

FactoryReturned ==
  /\ build.at = "factory"
  /\ built' = built + 1
  /\ build' = [build EXCEPT !.at = "start"]
  /\ UNCHANGED <<host, started, engine, orphans, talk, truth, feed, client, lossy>>

\* engine.start() raised: the engine is neither kept nor closed.
StartFailed ==
  /\ build.at = "start"
  /\ orphans' = orphans + 1
  /\ Refreshed(Snapshot)
  /\ UNCHANGED <<host, engine, built, talk, truth, feed, conn, lossy>>

\* The runtime owns the engine and listens to its store.
EngineStarted ==
  /\ build.at = "start"
  /\ engine' = TRUE /\ active' = session
  /\ Refreshed([Snapshot EXCEPT !.rest = <<TRUE, TRUE, call, busy>>, !.thread = session,
                                !.mem = mem, !.msgs = msgs[session]])
  /\ UNCHANGED <<host, built, orphans, session, call, requested, busy, truth, feed, conn,
                 lossy>>
-----------------------------------------------------------------------------
(* The cleanup block of run_ui_ipc.                                        *)

\* shutdown, from the client or a signal: broadcaster and startup task are
\* cancelled and awaited; an engine in start() is lost, for only Exception is
\* caught there.  The feed is over and its variables are reset.
Stop ==
  /\ host = "run"
  /\ host' = "tasks"
  /\ queue' = <<>> /\ overflowed' = FALSE /\ previous' = NoFrame /\ pump' = NoFrame
  /\ reply' = NoFrame /\ view' = Blank /\ lossy' = FALSE
  /\ IF build.by = "startup"
     THEN /\ build' = NoBuild
          /\ orphans' = orphans + (IF build.at = "start" THEN 1 ELSE 0)
     ELSE UNCHANGED <<build, orphans>>
  /\ started' = TRUE
  /\ UNCHANGED <<engine, built, talk, truth, conn, command>>

\* server.close(): no more clients; the handlers are awaited.
CloseServer ==
  /\ host = "tasks"
  /\ conn' = "gone" /\ reply' = NoFrame /\ view' = Blank
  /\ IF command = None THEN host' = "server" ELSE UNCHANGED host
  /\ UNCHANGED <<started, build, engine, built, orphans, talk, truth, feed, command, lossy>>

\* Mutant: the runtime is closed before the handlers have ended.
CloseRuntimeEarly ==
  /\ host \in {"tasks", "server"}
  /\ host' = "ended"
  /\ engine' = FALSE /\ call' = None
  /\ UNCHANGED <<started, build, built, orphans, session, active, requested, busy, truth,
                 feed, client, lossy>>

\* runtime.close(): the listener is detached and the engine closed.
CloseRuntime ==
  /\ host = "server"
  /\ host' = "ended"
  /\ engine' = FALSE /\ call' = None /\ requested' = FALSE /\ busy' = FALSE
  /\ UNCHANGED <<started, build, built, orphans, session, active, truth, feed, client, lossy>>

\* runtime.handle: the commands that read or change what is modelled here.
Handle ==
  \/ GetStatus
  \/ BeginRefresh("command")
  \/ CheckAudioDevices \/ RequestMicrophoneAccess
  \/ \E th \in Threads : SelectThread(th)
  \/ MicrophoneOn \/ MicrophoneOff
  \/ SubmitText \/ ForgetMemory

Next ==
  \/ Tick \/ TakeEvent \/ Sent
  \/ SpeechBegins \/ TurnEnds \/ MicrophoneLost
  \/ Connect \/ Disconnect \/ Handle \/ MicrophoneAnswered \/ EngineAnswered \/ Stop
  \/ BeginRefresh("startup")
  \/ NothingToBuild \/ FactoryFailed \/ FactoryReturned \/ StartFailed \/ EngineStarted
  \/ CloseServer \/ CloseRuntime

Spec == Init /\ [][Next]_vars
-----------------------------------------------------------------------------
TypeOK ==
  /\ host \in {"run", "tasks", "server", "ended"}
  /\ {started, engine, requested, busy, overflowed, lossy} \subseteq BOOLEAN
  /\ build \in {NoBuild} \cup [by : {"startup", "command"}, at : {"factory", "start"}]
  /\ built \in 0..MaxBuilds /\ orphans \in 0..built
  /\ session \in Threads /\ {active, call} \subseteq Threads \cup {None}
  /\ Changes <= MaxChanges /\ Len(queue) <= Capacity
  /\ conn \in {"new", "in", "gone"}
  /\ command \in {None, "mic_on", "mic_off", "refresh", "ask"}

\* Nothing is on its way to the client, and no drop is left uncorrected.
AtRest == host = "run" /\ conn = "in" /\ view.known /\ engine /\ ~lossy
          /\ queue = <<>> /\ pump = NoFrame /\ reply = NoFrame

\* Events are dropped, and events and snapshots overtake each other, but once they
\* are through the page shows the memories the store has, none the user forgot, and
\* the messages of its thread: each of them, once, in their order, although an event
\* and a snapshot may both have brought it.
PageConverges ==
  AtRest =>
    /\ view.mem = mem
    /\ view.thread # None =>
         view.msgs[view.thread] = [i \in 1..msgs[view.thread] |-> i]

\* While a call is on, the engine's thread is the call's, whatever is selected.
CallKeepsThread == call # None => engine /\ session = call

\* The runtime never has two engines at once, and when the host has ended every
\* engine is closed but those whose start() failed or was cancelled.
EnginesAccounted ==
  /\ engine => ~Refreshing
  /\ host = "ended" => ~engine /\ ~Refreshing
=============================================================================
