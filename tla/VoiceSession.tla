---------------------------- MODULE VoiceSession ----------------------------
(***************************************************************************)
(* pipeline/session.py with the STT worker, its watchdog, the device state *)
(* machine and the calls engine.py makes.  Every task runs on one event    *)
(* loop, so an action is the code between two awaits.  A teardown is what   *)
(* GenerationCoordinator describes, reduced to the two fences the session  *)
(* can tell apart: STT first, then proposals and turn gate.                *)
(***************************************************************************)
EXTENDS Integers, Sequences, FiniteSets

CONSTANTS
  MaxGen,        \* bound on the generation counter
  MaxTurns,      \* bound on the turns ever scheduled
  MaxSentences,  \* SentenceGate(max_sentences=3)
  Snapshots,     \* default-device snapshots the poll may report
  BuiltIn,       \* those whose output is the built-in speaker
  EncoderReady   \* a verified local E5 model is installed

ASSUME BoundsAssumption ==
  /\ MaxGen \in Nat /\ MaxTurns \in Nat /\ MaxSentences \in Nat \ {0}
  /\ BuiltIn \subseteq Snapshots
  /\ EncoderReady \in BOOLEAN

VARIABLES
  gen,        \* coordinator.generation_id
  callers,    \* callers of coordinator.cancel() in lock order, the holder first
  stage,      \* the fence the holder is about to move: "stt" or "gate"
  sttGen,     \* STT service _generation_id
  gateGen,    \* VoiceTurnGate._generation_id
  open,       \* the turn gate has an utterance open
  pending,    \* STT _pending: the generation of the queued request, or None
  running,    \* generation of the inference in flight, or None
  watch,      \* _watchdog: its generation, and whether it sleeps or cancels
  state,      \* _state
  stateGen,   \* _state_generation
  locked,     \* _budget_locked
  requested,  \* DeviceStateMachine._microphone_requested
  snapshot,   \* DeviceStateMachine._snapshot
  devState,   \* DeviceStateMachine._state
  devices,    \* apply_default_devices in progress: "idle", "cancelling", "rebuilding"
  turns,      \* the turn tasks, in the order they were scheduled
  staged,     \* ProposalHost: the turns with a memory proposal waiting
  active,     \* index of _active_turn, 0 when None
  closed      \* "open", "closing" (engine), "closed" (session)

fences  == <<sttGen, gateGen, open>>
stt     == <<pending, running>>
shown   == <<state, stateGen>>
device  == <<requested, snapshot, devState>>
vars == <<gen, callers, stage, fences, stt, watch, shown, locked, device, devices,
          turns, staged, active, closed>>

None   == -1
Gens   == 0..MaxGen
NoSnap == "none"
Busy   == {"thinking", "speaking"}
DeviceStates == {"mic_off", "listening", "paused_unsafe_output"}
AppStates == Busy \cup DeviceStates \cup {"error", "budget_locked"}
WatchOff == [at |-> "off", gen |-> 0]

Turn == [gen : Gens, typed : BOOLEAN, speak : BOOLEAN,
         at : {"scheduled", "generating", "speaking", "overflow", "after", "done", "dead"},
         into : 0..MaxTurns,   \* the turn the sentence being spoken belongs to
         left : 0..MaxSentences,
         spoke : BOOLEAN, failed : BOOLEAN,
         row : {"none", "pending", "complete", "cancelled"},
         stored : BOOLEAN]     \* its memory proposal reached the store

Turns == 1..Len(turns)
\* A task that has ended: only its row and memories remain of its turn.
Ended(turn, how) ==
  [turn EXCEPT !.at = how, !.left = 0, !.into = 0, !.spoke = FALSE, !.failed = FALSE,
               !.typed = FALSE, !.speak = FALSE]

InFlight(t) == turns[t].at \in {"generating", "speaking", "overflow"}
Alive(t)    == InFlight(t) \/ turns[t].at \in {"scheduled", "after"}

IsCurrent(g) == g = gen
AiActive     == state \in Busy /\ IsCurrent(stateGen)
Calling(who) == \E i \in 1..Len(callers) : callers[i].who = who
PumpFree     == ~Calling("input")
UiFree       == ~Calling("text") /\ ~Calling("mic")

Init ==
  /\ gen = 0 /\ callers = <<>> /\ stage = "stt"
  /\ sttGen = 0 /\ gateGen = 0 /\ open = FALSE
  /\ pending = None /\ running = None /\ watch = WatchOff
  /\ requested = FALSE /\ devices = [at |-> "idle", new |-> NoSnap]
  /\ snapshot \in Snapshots  \* engine.start applies the first one before any task runs
  /\ devState = IF snapshot \in BuiltIn THEN "paused_unsafe_output" ELSE "mic_off"
  /\ state = devState /\ stateGen = 0 /\ locked = FALSE
  /\ turns = <<>> /\ staged = {} /\ active = 0 /\ closed = "open"
-----------------------------------------------------------------------------
\* _idle_state, of a lock flag and a device state.
IdleState(lock, dev) == IF lock THEN "budget_locked" ELSE dev

\* _write_state: whatever is shown now belongs to the current generation.
Write(s) == state' = s /\ stateGen' = gen

\* What session.set_microphone and apply_default_devices end with, whatever is
\* in progress.
ShowIdle(dev) == Write(IdleState(locked, dev))

\* _set_state: refused for a generation that is no longer current.
SetState(s, g) == IF IsCurrent(g) THEN Write(s) ELSE UNCHANGED shown

\* Mutant: the lock serves the newest caller first.
CancelOvertakes(who, arg) ==
  /\ gen < MaxGen
  /\ gen' = gen + 1
  /\ callers' = <<[cur |-> gen + 1, who |-> who, arg |-> arg]>> \o callers

\* coordinator.cancel up to its first suspension; arg is what the caller needs
\* when it resumes.
Cancel(who, arg) ==
  /\ gen < MaxGen
  /\ gen' = gen + 1
  /\ callers' = Append(callers, [cur |-> gen + 1, who |-> who, arg |-> arg])

\* _schedule_turn for a transcript of the current generation.
Schedule(typed, speak) ==
  /\ Len(turns) < MaxTurns
  /\ turns' = Append(turns,
       [gen |-> gen, typed |-> typed, speak |-> speak, at |-> "scheduled", into |-> 0,
        left |-> MaxSentences, spoke |-> FALSE, failed |-> FALSE, row |-> "none",
        stored |-> FALSE])

\* _cancel_watchdog: a sleeping watchdog just ends; one inside cancel() would
\* take its teardown down with it.
Disarm ==
  \/ /\ ~Calling("watchdog")
     /\ UNCHANGED <<callers, stage>>
  \/ \E i \in 1..Len(callers) :
       /\ callers[i].who = "watchdog"
       /\ callers' = SubSeq(callers, 1, i - 1) \o SubSeq(callers, i + 1, Len(callers))
       /\ stage' = IF i = 1 THEN "stt" ELSE stage
-----------------------------------------------------------------------------
\* The gate reports TurnStarted; a response in progress is barged into.
Onset ==
  /\ closed # "closed" /\ requested /\ PumpFree /\ ~open
  /\ open' = TRUE
  /\ IF AiActive THEN Cancel("input", 0) ELSE UNCHANGED <<gen, callers>>
  /\ UNCHANGED <<stage, sttGen, gateGen, stt, watch, shown, locked, device, devices,
                 turns, staged, active, closed>>

\* submit: STT takes only work of its own generation, and the latest wins.
SttAccepts(g) == g = sttGen

\* Mutant: the utterance is transcribed without arming the watchdog.
UtteranceUnguarded ==
  /\ closed # "closed" /\ PumpFree /\ open
  /\ open' = FALSE
  /\ IF IsCurrent(gateGen) /\ SttAccepts(gateGen)
     THEN /\ pending' = gateGen
          /\ Write("thinking")
     ELSE UNCHANGED <<pending, shown>>
  /\ UNCHANGED <<gen, callers, stage, watch, sttGen, gateGen, running, locked, device,
                 devices, turns, staged, active, closed>>

\* _submit_utterance: stale captures are dropped, the rest goes to STT (latest
\* wins) under a watchdog.
Utterance ==
  /\ closed # "closed" /\ PumpFree /\ open
  /\ open' = FALSE
  /\ IF IsCurrent(gateGen) /\ SttAccepts(gateGen)
     THEN /\ pending' = gateGen
          /\ Write("thinking")
          /\ Disarm
          /\ watch' = [at |-> "armed", gen |-> gateGen]
     ELSE UNCHANGED <<pending, shown, callers, stage, watch>>
  /\ UNCHANGED <<gen, sttGen, gateGen, running, locked, device, devices, turns, staged, active,
                 closed>>

\* The STT worker takes the pending request.
SttStart ==
  /\ closed # "closed" /\ pending # None /\ running = None
  /\ pending' = None
  /\ running' = IF pending = sttGen THEN pending ELSE None
  /\ UNCHANGED <<gen, callers, stage, fences, watch, shown, locked, device, devices,
                 turns, staged, active, closed>>

\* Mutant: a stale result disarms the watchdog of the newer utterance.
SttStaleDisarms ==
  /\ closed # "closed" /\ running # None
  /\ running # sttGen \/ ~IsCurrent(running)
  /\ running' = None
  /\ Disarm /\ watch' = WatchOff
  /\ UNCHANGED <<gen, fences, pending, shown, locked, device,
                 devices, turns, staged, active, closed>>

\* Inference ended with a result nobody may use: the STT service or
\* on_stt_event drops it, and it disarms nothing.
SttStale ==
  /\ closed # "closed" /\ running # None
  /\ running # sttGen \/ ~IsCurrent(running)
  /\ running' = None
  /\ UNCHANGED <<gen, callers, stage, fences, pending, watch, shown, locked, device,
                 devices, turns, staged, active, closed>>

\* on_stt_event with a current result: disarm, then show a failure ("error"
\* here also stands for "setup_required") or schedule the spoken turn.
SttResult(ok) ==
  /\ closed # "closed" /\ running # None /\ running = sttGen /\ IsCurrent(running)
  /\ running' = None
  /\ Disarm /\ watch' = WatchOff
  /\ IF ok
     THEN Schedule(FALSE, TRUE) /\ UNCHANGED shown
     ELSE Write("error") /\ UNCHANGED turns
  /\ UNCHANGED <<gen, fences, pending, locked, device, devices, staged, active, closed>>

\* _watch_stt wakes after stt_timeout_s.
WatchdogFires ==
  /\ closed # "closed" /\ watch.at = "armed"
  /\ IF IsCurrent(watch.gen)
     THEN /\ Cancel("watchdog", 0)
          /\ watch' = [watch EXCEPT !.at = "cancelling"]
     ELSE /\ watch' = WatchOff
          /\ UNCHANGED <<gen, callers>>
  /\ UNCHANGED <<stage, fences, stt, shown, locked, device, devices, turns, staged, active, closed>>
-----------------------------------------------------------------------------
\* submit_text once any barge-in is over.
ScheduleTyped(speak) ==
  /\ Schedule(TRUE, speak)
  /\ Write("thinking")

\* submit_text: a response in progress is cancelled first.  UI commands come
\* from one client, one at a time.
SubmitText(speak) ==
  /\ closed = "open" /\ UiFree /\ Len(turns) < MaxTurns
  /\ IF AiActive
     THEN Cancel("text", IF speak THEN 1 ELSE 0) /\ UNCHANGED <<shown, turns>>
     ELSE ScheduleTyped(speak) /\ UNCHANGED <<gen, callers>>
  /\ UNCHANGED <<stage, fences, stt, watch, locked, device, devices, staged, active, closed>>

\* DeviceStateMachine.set_microphone followed by the session's _write_state.
SetMicrophone(on) ==
  LET dev == IF snapshot \in BuiltIn THEN "paused_unsafe_output"
             ELSE IF on THEN "listening" ELSE "mic_off" IN
  /\ requested' = on
  /\ devState' = dev
  /\ ShowIdle(dev)

\* engine.set_microphone: turning it off cancels before anything else.
Microphone(on) ==
  /\ closed = "open" /\ UiFree
  /\ IF ~on /\ requested
     THEN Cancel("mic", 0) /\ UNCHANGED <<shown, requested, devState>>
     ELSE SetMicrophone(on) /\ UNCHANGED <<gen, callers>>
  /\ UNCHANGED <<stage, fences, stt, watch, locked, snapshot, devices, turns, staged, active, closed>>

\* _watch_devices: every poll applies the snapshot it read, changed or not.
\* Callers hold the engine's device lock, so there is one at a time.
PollDevices(new) ==
  /\ closed # "closed" /\ devices.at = "idle"
  /\ IF new = snapshot
     THEN /\ ShowIdle(devState)
          /\ UNCHANGED <<gen, callers, devices>>
     ELSE /\ Cancel("devices", 0)
          /\ devices' = [at |-> "cancelling", new |-> new]
          /\ UNCHANGED shown
  /\ UNCHANGED <<stage, fences, stt, watch, locked, device, turns, staged, active, closed>>

\* rebuild_streams returned: the snapshot is adopted and idle is shown again.
\* When it raised, the poll turns the microphone off instead; a refresh that the user
\* asked for undoes nothing.
StreamsRebuilt(ok) ==
  LET dev == IF devices.new \in BuiltIn THEN "paused_unsafe_output"
             ELSE IF requested THEN "listening" ELSE "mic_off" IN
  /\ closed # "closed" /\ devices.at = "rebuilding"
  /\ devices' = [at |-> "idle", new |-> NoSnap]
  /\ IF ok
     THEN /\ snapshot' = devices.new
          /\ devState' = dev
          /\ ShowIdle(dev)
          /\ UNCHANGED requested
     ELSE /\ UNCHANGED snapshot
          /\ SetMicrophone(FALSE) \/ UNCHANGED <<shown, requested, devState>>
  /\ UNCHANGED <<gen, callers, stage, fences, stt, watch, locked, turns, staged, active, closed>>

\* engine.close cancels first; from here on UI commands are refused.
Shutdown ==
  /\ closed = "open"
  /\ Cancel("shutdown", 0)
  /\ closed' = "closing"
  /\ UNCHANGED <<stage, fences, stt, watch, shown, locked, device, devices, turns, staged, active>>
-----------------------------------------------------------------------------
\* The holder's teardown reaches the STT fence: the queued request is dropped.
FenceStt ==
  /\ closed # "closed" /\ callers # <<>> /\ stage = "stt"
  /\ sttGen' = callers[1].cur
  /\ pending' = IF pending = callers[1].cur THEN pending ELSE None
  /\ stage' = "gate"
  /\ UNCHANGED <<gen, callers, gateGen, open, running, watch, shown, locked, device,
                 devices, turns, staged, active, closed>>

\* ProposalHost.cancel_generation: by generation, not by turn.
Unstaged(g) == {t \in staged : turns[t].gen # g}

\* The STT service's close(): nothing is pending and the worker is cancelled; an
\* inference in its thread goes on, for nobody.
SttClosed == pending' = None

\* session.close(): the watchdog and every turn task get CancelledError, which
\* leaves their rows as they are; STT stops.
CloseSession ==
  /\ closed' = "closed"
  /\ watch' = WatchOff
  /\ turns' = [t \in Turns |-> IF Alive(t) THEN Ended(turns[t], "dead") ELSE turns[t]]
  /\ active' = 0
  /\ SttClosed

\* What the caller does after cancel() returned, up to its next await.
Resume(c) ==
  \/ /\ c.who = "input"
     /\ UNCHANGED <<shown, device, devices, turns, active, watch, pending, closed>>
  \/ /\ c.who = "text"
     /\ ScheduleTyped(c.arg = 1)
     /\ UNCHANGED <<device, devices, active, watch, pending, closed>>
  \/ /\ c.who = "watchdog"
     /\ Write("error") /\ watch' = WatchOff
     /\ UNCHANGED <<device, devices, turns, active, pending, closed>>
  \/ /\ c.who = "mic"
     /\ SetMicrophone(FALSE)
     /\ UNCHANGED <<snapshot, devices, turns, active, watch, pending, closed>>
  \/ /\ c.who = "devices"
     /\ devices' = [devices EXCEPT !.at = "rebuilding"]
     /\ UNCHANGED <<shown, device, turns, active, watch, pending, closed>>
  \/ /\ c.who = "turn"
     /\ turns' = [turns EXCEPT ![c.arg].at = "generating"]
     /\ UNCHANGED <<shown, device, devices, active, watch, pending, closed>>
  \/ /\ c.who = "shutdown"
     /\ CloseSession
     /\ UNCHANGED <<shown, device, devices>>

\* Mutant: a cancelled stage leaves the lock held.
FenceGateKeepsLock ==
  LET c == callers[1] IN
  /\ closed # "closed" /\ callers # <<>> /\ stage = "gate"
  /\ gateGen' = c.cur
  /\ open' = (open /\ c.who = "input")
  /\ staged' = Unstaged(c.cur - 1)
  /\ stage' = "stt"
  /\ UNCHANGED <<gen, callers, sttGen, stt, watch, shown, locked, device, devices,
                 turns, active, closed>>

\* The rest of the teardown: proposals, then the gate, which keeps its open
\* utterance only for a barge-in.  The lock is released and the caller resumes.
FenceGate ==
  LET c == callers[1] IN
  /\ closed # "closed" /\ callers # <<>> /\ stage = "gate"
  /\ gateGen' = c.cur
  /\ open' = (open /\ c.who = "input")
  /\ callers' = Tail(callers)
  /\ stage' = "stt"
  /\ staged' = Unstaged(c.cur - 1)
  /\ Resume(c)
  /\ UNCHANGED <<gen, sttGen, running, locked>>
-----------------------------------------------------------------------------
\* _outcome of a turn whose generation ended with a status.
Outcome(t, status) ==
  CASE status = "budget_locked" -> "budget_locked"
    [] status # "budget_locked" /\ (~IsCurrent(turns[t].gen) \/ status = "cancelled") -> "cancelled"
    [] OTHER -> IF turns[t].failed \/ ~turns[t].spoke \/ status = "error"
                THEN "error" ELSE "completed"

\* commit_generation stores every proposal of the generation whose turn is
\* still pending; its embedding raises without the local encoder.
Committed(t) ==
  [u \in Turns |-> IF u = t THEN [turns[u] EXCEPT !.row = "complete", !.at = "after",
                                                 !.stored = @ \/ t \in staged]
                  ELSE IF u \in staged /\ turns[u].gen = turns[t].gen /\ turns[u].row = "pending"
                  THEN [turns[u] EXCEPT !.stored = TRUE] ELSE turns[u]]

\* Mutant: a turn that ends in an error is neither completed nor cancelled.
FinishTurnKeepsRow(t, status) ==
  LET outcome == Outcome(t, status)
      g       == turns[t].gen
      lock    == locked \/ status = "budget_locked"
  IN  /\ turns' = IF outcome = "completed" THEN Committed(t)
                  ELSE [turns EXCEPT ![t] = Ended(IF outcome = "error" THEN @
                                                 ELSE [@ EXCEPT !.row = "cancelled"], "done")]
      /\ staged' = Unstaged(g)
      /\ locked' = lock
      /\ SetState(IF outcome = "error" THEN "error" ELSE IdleState(lock, devState), g)

\* _finish_turn up to its first await: commit or discard, then show the result.
\* A commit that raises ends the task there.
FinishTurn(t, status) ==
  LET outcome == Outcome(t, status)
      g       == turns[t].gen
      lock    == locked \/ status = "budget_locked"
      raises  == ~EncoderReady /\ \E u \in staged : turns[u].gen = g
  IN  IF outcome = "completed" /\ raises
      THEN /\ turns' = [turns EXCEPT ![t] = Ended(@, "dead")]
           /\ UNCHANGED <<staged, locked, shown>>
      ELSE /\ turns' = IF outcome = "completed" THEN Committed(t)
                       ELSE [turns EXCEPT ![t] = Ended([@ EXCEPT !.row = "cancelled"], "done")]
           /\ staged' = Unstaged(g)
           /\ locked' = lock
           /\ SetState(IF outcome = "error" THEN "error" ELSE IdleState(lock, devState), g)

\* The turn task starts and finds a blank transcript or a moved fence.
TurnSkipped(t) ==
  /\ closed # "closed" /\ turns[t].at = "scheduled"
  /\ ~turns[t].typed \/ ~IsCurrent(turns[t].gen)
  /\ turns' = [turns EXCEPT ![t] = Ended(@, "done")]
  /\ SetState(IdleState(locked, devState), turns[t].gen)
  /\ UNCHANGED <<gen, callers, stage, fences, stt, watch, locked, device, devices, staged,
                 active, closed>>

\* _run_turn: the row is begun and generation starts.
TurnStart(t) ==
  /\ closed # "closed" /\ turns[t].at = "scheduled" /\ IsCurrent(turns[t].gen)
  /\ turns' = [turns EXCEPT ![t].at = "generating", ![t].row = "pending"]
  /\ active' = t
  /\ Write("thinking")
  /\ UNCHANGED <<gen, callers, stage, fences, stt, watch, locked, device, devices, staged,
                 closed>>

\* The turn that _on_llm_frame hands a frame of turn t's generation to: the
\* active one, as long as the generations agree and are current.
Receiver(t) ==
  IF active # 0 /\ turns[active].gen = turns[t].gen /\ IsCurrent(turns[t].gen) THEN active ELSE 0

\* Text of u is stored: it must still be pending.
Stored(ts, u) ==
  IF ts[u].row = "pending" THEN [ts EXCEPT ![u].spoke = TRUE] ELSE [ts EXCEPT ![u].failed = TRUE]

\* The sentence gate releases a sentence: it is delivered as text, or spoken.
Sentence(t) ==
  LET u    == Receiver(t)
      less == [turns EXCEPT ![t].left = @ - 1] IN
  /\ closed # "closed" /\ turns[t].at = "generating" /\ turns[t].left > 0 /\ u # 0
  /\ IF turns[u].speak
     THEN /\ turns' = [less EXCEPT ![t].at = "speaking", ![t].into = u]
          /\ Write("speaking")
     ELSE /\ turns' = Stored(less, u)
          /\ UNCHANGED shown
  /\ UNCHANGED <<gen, callers, stage, fences, stt, watch, locked, device, devices, staged,
                 active, closed>>

\* A memory proposal is validated and staged for a turn that is pending.
ToolCall(t) ==
  LET u == Receiver(t) IN
  /\ closed # "closed" /\ turns[t].at = "generating" /\ u # 0
  /\ turns[u].row = "pending" /\ ~turns[u].stored
  /\ staged' = staged \cup {u}
  /\ UNCHANGED <<gen, callers, stage, fences, stt, watch, shown, locked, device, devices,
                 turns, active, closed>>

\* Mutant: a sentence is stored without looking at the fence after drain().
SentenceSpokenUnfenced(t, how) ==
  LET back == [turns EXCEPT ![t].at = "generating", ![t].into = 0] IN
  /\ closed # "closed" /\ turns[t].at = "speaking"
  /\ turns' = CASE how = "played" -> Stored(back, turns[t].into)
                [] how = "failed" -> [back EXCEPT ![turns[t].into].failed = TRUE]
                [] how = "lost"   -> back
  /\ UNCHANGED <<gen, callers, stage, fences, stt, watch, shown, locked, device, devices,
                 staged, active, closed>>

\* _speak returns: the sentence was played to the end under a current fence,
\* the voice failed, or playback gave it up (cancelled, stopped, rejected).
SentenceSpoken(t, how) ==
  LET back == [turns EXCEPT ![t].at = "generating", ![t].into = 0] IN
  /\ closed # "closed" /\ turns[t].at = "speaking"
  /\ how = "played" => IsCurrent(turns[t].gen)
  /\ turns' = CASE how = "played" -> Stored(back, turns[t].into)
                [] how = "failed" -> [back EXCEPT ![turns[t].into].failed = TRUE]
                [] how = "lost"   -> back
  /\ UNCHANGED <<gen, callers, stage, fences, stt, watch, shown, locked, device, devices,
                 staged, active, closed>>

\* _handle_playback_rejection: the output queue overflowed, the turn cancels
\* its own generation and waits for the teardown.
Overflow(t) ==
  /\ closed # "closed" /\ turns[t].at = "speaking" /\ IsCurrent(turns[t].gen)
  /\ Cancel("turn", t)
  /\ turns' = [turns EXCEPT ![t].at = "overflow", ![t].into = 0]
  /\ UNCHANGED <<stage, fences, stt, watch, shown, locked, device, devices, staged,
                 active, closed>>

\* generate() returned or raised.  It reserves budget only under a current
\* fence and reports "cancelled" only after it saw the fence moved.
Generated(t, status) ==
  /\ closed # "closed" /\ turns[t].at = "generating"
  /\ status = "budget_locked" => IsCurrent(turns[t].gen)
  /\ status = "cancelled" => ~IsCurrent(turns[t].gen)
  /\ active' = IF active = t THEN 0 ELSE active
  /\ FinishTurn(t, status)
  /\ UNCHANGED <<gen, callers, stage, fences, stt, watch, device, devices, closed>>

\* Title and summary are done (or failed): the task ends.
AfterTurn(t) ==
  /\ closed # "closed" /\ turns[t].at = "after"
  /\ turns' = [turns EXCEPT ![t] = Ended(@, "done")]
  /\ UNCHANGED <<gen, callers, stage, fences, stt, watch, shown, locked, device, devices,
                 staged, active, closed>>

Teardown == FenceStt \/ FenceGate

TurnStep(t) ==
  \/ TurnSkipped(t) \/ TurnStart(t) \/ Sentence(t) \/ Overflow(t) \/ AfterTurn(t)
  \/ \E how \in {"played", "failed", "lost"} : SentenceSpoken(t, how)
  \/ \E status \in {"completed", "cancelled", "error", "budget_locked"} : Generated(t, status)

Next ==
  \/ Onset \/ Utterance \/ SttStart \/ SttStale \/ WatchdogFires
  \/ \E ok \in BOOLEAN : SttResult(ok) \/ StreamsRebuilt(ok)
  \/ \E b \in BOOLEAN : SubmitText(b) \/ Microphone(b)
  \/ \E new \in Snapshots : PollDevices(new)
  \/ Shutdown \/ Teardown
  \/ \E t \in Turns : TurnStep(t) \/ ToolCall(t)

Spec == Init /\ [][Next]_vars

\* The loop keeps running: started teardowns, turn tasks, stream rebuilds and
\* the watchdog's sleep all end (each wait in them has a timeout), while
\* inference, speech, typing and the tool calls of a model owe nothing.
FairSpec ==
  /\ Spec
  /\ WF_vars(Teardown)
  /\ WF_vars(WatchdogFires)
  /\ WF_vars(\E ok \in BOOLEAN : StreamsRebuilt(ok))
  /\ \A t \in 1..MaxTurns : WF_vars(t \in Turns /\ TurnStep(t))
-----------------------------------------------------------------------------
\* The types of the session's state.
TypeOK ==
  /\ gen \in Gens /\ sttGen \in Gens /\ gateGen \in Gens /\ stateGen \in Gens
  /\ callers \in Seq([cur : Gens, arg : 0..MaxTurns + 1,
                      who : {"input", "text", "watchdog", "mic", "devices", "turn", "shutdown"}])
  /\ stage \in {"stt", "gate"}
  /\ open \in BOOLEAN /\ locked \in BOOLEAN /\ requested \in BOOLEAN
  /\ pending \in Gens \cup {None} /\ running \in Gens \cup {None}
  /\ watch \in [at : {"off", "armed", "cancelling"}, gen : Gens]
  /\ state \in AppStates /\ devState \in DeviceStates
  /\ snapshot \in Snapshots
  /\ devices \in [at : {"idle", "cancelling", "rebuilding"}, new : Snapshots \cup {NoSnap}]
  /\ turns \in Seq(Turn) /\ staged \subseteq Turns /\ active \in 0..Len(turns)
  /\ closed \in {"open", "closing", "closed"}

\* Every row a turn began is completed or cancelled when its task ends; only
\* shutdown leaves one pending.
RowsSettled ==
  closed # "closed" => \A t \in Turns : turns[t].row = "pending" => Alive(t)

\* No disarming kills a watchdog inside its own cancel(): once nobody is
\* tearing down, STT and gate have the current generation.
FencesSettled == callers = <<>> => sttGen = gen /\ gateGen = gen

\* The promise of GenerationFence, with STT and with the turn gate as the adopting
\* side: each follows the counter, never back to a generation it has left, although
\* callers queue on the lock and disarming takes one out (coordinator.py:108-123).
SttFence  == INSTANCE GenerationFence WITH current <- gen, adopted <- sttGen
GateFence == INSTANCE GenerationFence WITH current <- gen, adopted <- gateGen
FenceSpec == SttFence!Spec /\ GateFence!Spec

\* "A cancelled turn leaves nothing behind": once its generation has been left,
\* no step of any task adds text or memories to a turn or completes it.
StaleTurnsFrozen ==
  [][\A t \in Turns : ~IsCurrent(turns[t].gen) =>
       /\ turns'[t].spoke => turns[t].spoke
       /\ turns'[t].stored => turns[t].stored
       /\ turns'[t].row \in {turns[t].row, "cancelled"}]_vars

\* Nobody waits for an answer that cannot come: a shown thinking or speaking
\* ends, even when inference or the voice never returns.  (At the bound on
\* generations the watchdog cannot cancel any more.)
BusyEnds == (AiActive /\ gen < MaxGen) ~> (~AiActive \/ gen = MaxGen)

\* Every scheduled turn comes to an end.
TurnsEnd == \A t \in 1..MaxTurns : (t \in Turns /\ Alive(t)) ~> (t \in Turns /\ ~Alive(t))
=============================================================================
