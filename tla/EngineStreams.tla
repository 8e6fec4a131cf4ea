--------------------------- MODULE EngineStreams ---------------------------
(***************************************************************************)
(* engine.py's microphone and audio/coreaudio.py's CoreAudioStreamOwner:   *)
(* UI commands, the device watch and the recovery of failed streams all    *)
(* open, close and rebuild the same two PortAudio streams through one      *)
(* executor thread.  The device watch reads the defaults outside the       *)
(* device lock, set_microphone does not take that lock, and permission is  *)
(* awaited between the decision to open the input and its opening.         *)
(***************************************************************************)
EXTENDS Integers, Sequences

CONSTANTS
  Devices, BuiltIn,  \* default devices, an input and an output each; unsafe ones
  Decisions,         \* TCC decisions the engine may start with
  MaxEvents          \* bound on changed defaults, commands, faults and chunks, together

ASSUME StreamsBounds == BuiltIn \subseteq Devices /\ MaxEvents \in Nat

VARIABLES
  default,    \* the system's default device
  resolved,   \* streams._resolved
  snapshot,   \* DeviceStateMachine._snapshot
  micRequested, \* engine._microphone_requested, and the device state machine's
  capturing,  \* LocalAudioTransport is on: input is captured
  permission, \* the TCC decision
  input, output,  \* the device an open stream is on, or Nothing
  failed,     \* _input_failed or _output_failed
  flush,      \* _flush_requested
  refused,    \* history variable: why flush is set, a rebuild was refused
  jobs,       \* the executor: the job it runs, then those queued
  done,       \* finished jobs whose awaiting task has not resumed yet
  task,       \* what each task awaits, the snapshot it has
  closed,     \* engine.close(): "open", "closing", "closed"
  used        \* how many of the bounded events there were

devices == <<resolved, snapshot>>
mic     == <<micRequested, capturing>>
streams == <<input, output, failed, flush, refused>>
queues  == <<jobs, done>>
streamsVars    == <<default, devices, mic, permission, streams, queues, task, closed, used>>

Nothing  == "none"
\* Takers of the device lock; health watch and input pump share _recover_streams.
Tasks == {"ui", "watch", "heal"}
Idle  == [at |-> "idle", cmd |-> Nothing, snap |-> Nothing]
Dead  == [Idle EXCEPT !.at = "dead"]

StreamsInit ==
  /\ default \in Devices
  /\ resolved = default /\ snapshot = default
  /\ micRequested = FALSE /\ capturing = FALSE
  /\ permission \in Decisions
  /\ input = Nothing /\ output = Nothing /\ failed = FALSE /\ flush = FALSE /\ refused = FALSE
  /\ jobs = <<>> /\ done = <<>>
  /\ task = [t \in Tasks \cup {"writer"} |-> Idle]
  /\ closed = "open"
  /\ used = 0

\* One of the bounded events.
Happens == used < MaxEvents /\ used' = used + 1

\* The task awaits a job of the executor, at a point of the same name.
Submit(t, op, snap) ==
  /\ jobs' = Append(jobs, [task |-> t, op |-> op, snap |-> snap])
  /\ task' = [task EXCEPT ![t].at = op, ![t].snap = snap]

\* The task's work is over, and the lock free if it held it.
Leave(t) == task' = [task EXCEPT ![t] = Idle] /\ UNCHANGED jobs
-----------------------------------------------------------------------------
(* Steps shared by the tasks, each up to its next await.                   *)

\* After a failure everyone but a device check takes the microphone back; the
\* watch also closes the stream, and a failed command cancels the generation.
Undo(t) ==
  IF task[t].cmd = "check" THEN Leave(t) /\ UNCHANGED <<flush, mic>>
  ELSE /\ micRequested' = FALSE /\ capturing' = FALSE
       /\ CASE t = "watch" -> Submit(t, "undo", Nothing) /\ UNCHANGED flush
            [] t = "heal"  -> Leave(t) /\ UNCHANGED flush
            [] t = "ui"    -> Submit(t, "errcancel", Nothing) /\ flush' = TRUE

\* _sync_microphone: live only when requested and listening.  A permission that
\* is decided already is not awaited.
Sync(t, req, snap, res) ==
  LET live == req /\ snap \notin BuiltIn IN
  IF live /\ (res \in BuiltIn \/ permission = "denied") THEN Undo(t)
  ELSE /\ micRequested' = req /\ UNCHANGED <<capturing, flush>>
       /\ CASE ~live -> Submit(t, "off", Nothing)
            [] live /\ permission = "authorized" -> Submit(t, "open", Nothing)
            [] OTHER -> task' = [task EXCEPT ![t].at = "permit"] /\ UNCHANGED jobs

\* The flush flag is set before the executor sees the job: rebuild_streams, and
\* coordinator.cancel by way of the playback sink.
Fenced(t, op, snap) ==
  /\ flush' = TRUE
  /\ Submit(t, op, snap)
  /\ UNCHANGED mic

\* Mutant: an unchanged default leaves the microphone as it is.
ApplyChangesOnly(t, snap, res) ==
  IF snap = snapshot THEN Leave(t) /\ UNCHANGED <<flush, mic>>
  ELSE Fenced(t, "devcancel", snap)

\* apply_default_devices up to its first await; a changed default cancels the
\* generation before anything else.
Apply(t, snap, res) ==
  IF snap = snapshot THEN Sync(t, micRequested, snap, res)
  ELSE Fenced(t, "devcancel", snap)

Query(t) == Submit(t, "query", Nothing)
Await(t, point) == task' = [task EXCEPT ![t].at = point] /\ UNCHANGED jobs
-----------------------------------------------------------------------------
(* What starts the tasks.                                                  *)

DefaultChanges ==
  /\ closed # "closed" /\ Happens
  /\ \E d \in Devices \ {default} : default' = d
  /\ UNCHANGED <<devices, mic, permission, streams, queues, task, closed>>

Command == closed = "open" /\ task["ui"] = Idle /\ Happens

\* engine.set_microphone; turning it off cancels the generation first.
SetMicrophone(on) ==
  /\ Command
  /\ IF ~on /\ micRequested THEN Fenced("ui", "offcancel", Nothing)
     ELSE Sync("ui", on, snapshot, resolved)
  /\ UNCHANGED <<default, resolved, snapshot, permission, input, output, failed, refused,
                 done, closed>>

\* request_microphone_access: the prompt alone, no stream and no lock.
RequestAccess ==
  /\ Command
  /\ Await("ui", "ask")
  /\ UNCHANGED <<default, devices, mic, permission, jobs, streams, done, closed>>

\* refresh_devices.
CheckDevices ==
  /\ Command
  /\ task' = [task EXCEPT !["ui"].at = "lock", !["ui"].cmd = "check"]
  /\ UNCHANGED <<default, devices, mic, permission, streams, queues, closed>>

\* A tick of _watch_devices reads the defaults before it takes the lock.
WatchTick ==
  /\ task["watch"] = Idle
  /\ Query("watch")
  /\ UNCHANGED <<default, devices, mic, permission, streams, done, closed, used>>

\* consume_health: a failure is reported once.
ConsumeHealth == failed /\ failed' = FALSE

\* A failed stream was seen, or the audio handler raised.
Recover ==
  /\ task["heal"] = Idle
  /\ \/ ConsumeHealth /\ UNCHANGED used
     \/ ~failed /\ Happens /\ UNCHANGED failed
  /\ Await("heal", "lock")
  /\ UNCHANGED <<default, devices, mic, permission, input, output, flush, refused, done, closed>>

\* The task is inside "async with self._device_lock".
Holds(t) ==
  /\ task[t].at \notin {"idle", "lock", "dead"}
  /\ t = "watch" => task[t].at # "query"
  /\ t = "ui" => task[t].cmd = "check"

LockFree(t) == \A u \in Tasks : ~Holds(u)

\* The lock is taken and the work goes on up to its first await.
GetLock(t) ==
  /\ task[t].at = "lock" /\ LockFree(t)
  /\ IF t = "watch" THEN Apply(t, task[t].snap, resolved)
     ELSE \/ Query(t) /\ UNCHANGED <<flush, mic>>
          \/ t = "heal" /\ Fenced(t, "healcancel", Nothing)
  /\ UNCHANGED <<default, resolved, snapshot, permission, input, output, failed, refused,
                 done, closed, used>>

\* Mutant: only the first of two waiting tasks hears of the decision.
AnswersOnce ==
  IF permission = "undetermined" THEN {"authorized", "denied", "undetermined"} ELSE {}

\* The user decides, or the prompt times out and stays undecided.
Answers ==
  IF permission = "undetermined" THEN {"authorized", "denied", "undetermined"} ELSE {permission}

\* authorize() returned or raised.
Permit(t) ==
  /\ task[t].at = "permit"
  /\ \E answer \in Answers :
       /\ permission' = answer
       /\ IF answer = "authorized" THEN Submit(t, "open", Nothing) /\ UNCHANGED <<flush, mic>>
          ELSE Undo(t)
  /\ UNCHANGED <<default, resolved, snapshot, input, output, failed, refused, done, closed, used>>

\* The prompt was answered, or was not: either way the command is over.
Asked ==
  /\ task["ui"].at = "ask"
  /\ permission' \in Answers
  /\ Leave("ui")
  /\ UNCHANGED <<default, devices, mic, streams, done, closed, used>>

\* The playback writer hands the owner its next chunk.
Write ==
  /\ task["writer"] = Idle /\ Happens
  /\ Submit("writer", "write", Nothing)
  /\ UNCHANGED <<default, devices, mic, permission, streams, done, closed>>
-----------------------------------------------------------------------------
(* The executor thread.                                                    *)

Job == Head(jobs)

\* The job is finished; its task resumes later.
Finish(ok, val) ==
  /\ jobs' = Tail(jobs)
  /\ done' = Append(done, [task |-> Job.task, ok |-> ok, val |-> val])

\* Mutant: closing the output leaves the flag raised.
OutputClosedFlagged == output' = Nothing /\ refused' = FALSE /\ UNCHANGED flush

\* _close_output_sync.
OutputClosed == output' = Nothing /\ flush' = FALSE /\ refused' = FALSE

\* _query_defaults: refused when the default changes in the middle.
RunQuery ==
  /\ jobs # <<>> /\ Job.op = "query"
  /\ \/ Finish(TRUE, default) /\ UNCHANGED used
     \/ Happens /\ Finish(FALSE, Nothing)
  /\ UNCHANGED <<default, devices, mic, permission, streams, task, closed>>

\* _rebuild_sync: only the snapshot resolved last can be built.
RunRebuild ==
  /\ jobs # <<>> /\ Job.op \in {"rebuild", "adopt"}
  /\ IF resolved = Job.snap
     THEN Finish(TRUE, Nothing) /\ input' = Nothing /\ OutputClosed /\ failed' = FALSE
     ELSE Finish(FALSE, Nothing) /\ refused' = TRUE /\ UNCHANGED <<input, output, flush, failed>>
  /\ UNCHANGED <<default, devices, mic, permission, task, closed, used>>

\* _set_microphone_sync(True).
RunOpen ==
  /\ jobs # <<>> /\ Job.op = "open"
  /\ \/ /\ resolved \in BuiltIn
        /\ Finish(FALSE, Nothing) /\ UNCHANGED <<input, failed, used>>
     \/ /\ resolved \notin BuiltIn
        /\ input' = IF input = Nothing THEN resolved ELSE input
        /\ Finish(TRUE, Nothing) /\ UNCHANGED <<failed, used>>
     \/ /\ resolved \notin BuiltIn /\ input = Nothing /\ Happens
        /\ failed' = TRUE /\ Finish(FALSE, Nothing) /\ UNCHANGED input
  /\ UNCHANGED <<default, devices, mic, permission, output, flush, refused, task, closed>>

\* set_microphone(False), and the last close.
ClosesInput == Job.op \in {"off", "undo", "shutoff", "closeall"}
\* flush(), and the last close.
ClosesOutput ==
  Job.op \in {"offcancel", "devcancel", "healcancel", "errcancel", "shutdown", "closeall"}

RunClose ==
  /\ jobs # <<>> /\ (ClosesInput \/ ClosesOutput)
  /\ input' = IF ClosesInput THEN Nothing ELSE input
  /\ IF ClosesOutput THEN OutputClosed ELSE UNCHANGED <<output, flush, refused>>
  /\ Finish(TRUE, Nothing)
  /\ UNCHANGED <<default, devices, mic, permission, failed, task, closed, used>>

\* _write_sync opens the output when it is closed, which clears the flag.
RunWrite ==
  /\ jobs # <<>> /\ Job.op = "write"
  /\ IF resolved \in BuiltIn \/ output # Nothing
     THEN UNCHANGED <<output, flush, refused>>
     ELSE output' = resolved /\ flush' = FALSE /\ refused' = FALSE
  /\ IF resolved \in BuiltIn THEN Finish(FALSE, Nothing)
     ELSE jobs' = [jobs EXCEPT ![1].op = "blocks"] /\ UNCHANGED done
  /\ UNCHANGED <<default, devices, mic, permission, input, failed, task, closed, used>>

\* The blocks are written, all or up to a raised flag; or the stream breaks.
RunBlocks ==
  /\ jobs # <<>> /\ Job.op = "blocks"
  /\ \/ Finish(TRUE, Nothing) /\ UNCHANGED <<output, flush, refused, used>>
     \/ Happens /\ OutputClosed /\ Finish(FALSE, Nothing)
  /\ UNCHANGED <<default, devices, mic, permission, input, failed, task, closed>>

\* The input callback sees an overflow or a full ring and aborts the stream.
InputFails ==
  /\ input # Nothing /\ Happens /\ ~failed
  /\ failed' = TRUE
  /\ UNCHANGED <<default, devices, mic, permission, input, output, flush, refused, queues,
                 task, closed>>

Executor == RunQuery \/ RunRebuild \/ RunOpen \/ RunClose \/ RunWrite \/ RunBlocks
-----------------------------------------------------------------------------
(* A task resumes with the result of its job.                              *)

Result == Head(done)
Resumes(t, points) == done # <<>> /\ Result.task = t /\ task[t].at \in points /\ done' = Tail(done)

\* The defaults were read, or could not be: the watch then waits for its next
\* tick, the others fail.
QueryDone(t) ==
  /\ Resumes(t, {"query"})
  /\ IF ~Result.ok
     THEN /\ UNCHANGED resolved
          /\ IF t = "watch" THEN Leave(t) /\ UNCHANGED <<flush, mic>> ELSE Undo(t)
     ELSE /\ resolved' = Result.val
          /\ CASE t = "watch" ->
                    /\ task' = [task EXCEPT ![t].at = "lock", ![t].snap = Result.val]
                    /\ UNCHANGED <<jobs, flush, mic>>
               [] t = "heal" -> Fenced(t, "rebuild", Result.val)
               [] t = "ui" -> Apply(t, Result.val, Result.val)
  /\ UNCHANGED <<default, snapshot, permission, input, output, failed, refused, closed, used>>

\* The cancellation returned.
CancelDone(t) ==
  /\ Resumes(t, {"offcancel", "devcancel", "healcancel", "errcancel"})
  /\ CASE task[t].at = "offcancel"  -> Sync(t, FALSE, snapshot, resolved)
       [] task[t].at = "errcancel"  -> Leave(t) /\ UNCHANGED <<flush, mic>>
       [] task[t].at = "devcancel"  -> Fenced(t, "adopt", task[t].snap)
       [] task[t].at = "healcancel" -> Query(t) /\ UNCHANGED <<flush, mic>>
  /\ UNCHANGED <<default, devices, permission, input, output, failed, refused, closed, used>>

\* The streams were rebuilt, for recovery or for a new default, or were not.
RebuildDone(t) ==
  /\ Resumes(t, {"rebuild", "adopt"})
  /\ LET snap == task[t].snap IN
     IF ~Result.ok THEN Undo(t) /\ UNCHANGED snapshot
     ELSE IF task[t].at = "rebuild"
          THEN Apply(t, snap, resolved) /\ UNCHANGED snapshot
          ELSE snapshot' = snap /\ Sync(t, micRequested, snap, resolved)
  /\ UNCHANGED <<default, resolved, permission, input, output, failed, refused, closed, used>>

\* The input is open, closed, or could not be opened.  The watch that closes it after
\* a fault has told the transport before.
MicrophoneDone(t) ==
  /\ Resumes(t, {"off", "open", "undo"})
  /\ IF ~Result.ok THEN Undo(t)
     ELSE /\ capturing' = IF task[t].at = "undo" THEN capturing ELSE (task[t].at = "open")
          /\ Leave(t) /\ UNCHANGED <<micRequested, flush>>
  /\ UNCHANGED <<default, devices, permission, input, output, failed, refused, closed, used>>

WriteDone ==
  /\ Resumes("writer", {"write"})
  /\ failed' = (failed \/ ~Result.ok)
  /\ Leave("writer")
  /\ UNCHANGED <<default, devices, mic, permission, input, output, flush, refused, closed, used>>

\* engine.close: cancel, the microphone off, the tasks cancelled, the owner closed.
Close ==
  /\ closed = "open" /\ task["ui"] = Idle
  /\ closed' = "closing"
  /\ Fenced("ui", "shutdown", Nothing)
  /\ UNCHANGED <<default, devices, permission, input, output, failed, refused, done, used>>

\* The tasks have been cancelled; the owner's close() flushes and closes both streams.
OwnerCloses ==
  /\ flush' = TRUE
  /\ jobs' = Append(jobs, [task |-> "ui", op |-> "closeall", snap |-> Nothing])
  /\ task' = [t \in DOMAIN task |-> IF t = "ui" THEN [Idle EXCEPT !.at = "closeall"] ELSE Dead]

CloseSteps ==
  /\ Resumes("ui", {"shutdown", "shutoff", "closeall"})
  /\ CASE task["ui"].at = "shutdown" ->
            /\ micRequested' = FALSE /\ capturing' = FALSE
            /\ Submit("ui", "shutoff", Nothing)
            /\ UNCHANGED <<flush, closed>>
       [] task["ui"].at = "shutoff" ->
            OwnerCloses /\ UNCHANGED <<mic, closed>>
       [] task["ui"].at = "closeall" ->
            /\ closed' = "closed"
            /\ task' = [task EXCEPT !["ui"] = Dead]
            /\ UNCHANGED <<mic, jobs, flush>>
  /\ UNCHANGED <<default, devices, permission, input, output, failed, refused, used>>

\* Nobody awaits the job of a cancelled task.
Abandoned ==
  /\ done # <<>> /\ task[Result.task] = Dead
  /\ done' = Tail(done)
  /\ UNCHANGED <<default, devices, mic, permission, streams, jobs, task, closed, used>>

Resume ==
  \/ \E t \in Tasks : QueryDone(t) \/ CancelDone(t) \/ RebuildDone(t) \/ MicrophoneDone(t)
  \/ WriteDone \/ CloseSteps \/ Abandoned

StreamsNext ==
  \/ DefaultChanges \/ CheckDevices \/ RequestAccess \/ Asked
  \/ WatchTick \/ Recover \/ Write \/ InputFails \/ Close
  \/ \E on \in BOOLEAN : SetMicrophone(on)
  \/ \E t \in Tasks : GetLock(t) \/ Permit(t)
  \/ Executor \/ Resume

\* The executor and the event loop run; the watch polls; asyncio's lock is
\* first come, first served; the permission prompt is answered or times out.
Fairness ==
  /\ WF_streamsVars(Executor) /\ WF_streamsVars(Resume) /\ WF_streamsVars(WatchTick)
  /\ WF_streamsVars(failed /\ Recover) /\ WF_streamsVars(Asked)
  /\ \A t \in Tasks : SF_streamsVars(GetLock(t)) /\ WF_streamsVars(Permit(t))

StreamsSpec == StreamsInit /\ [][StreamsNext]_streamsVars /\ Fairness
-----------------------------------------------------------------------------
StreamsTypeOK ==
  /\ {default, resolved, snapshot} \subseteq Devices
  /\ {input, output} \subseteq Devices \cup {Nothing}
  /\ {micRequested, capturing, failed, flush, refused} \subseteq BOOLEAN
  /\ permission \in {"undetermined", "authorized", "denied"}
  /\ Len(jobs) + Len(done) <= 4
  /\ closed \in {"open", "closing", "closed"}

\* Once nobody is at work on it, the input is on the defaults read last: a changed
\* default is followed by a rebuild (docs/project-decisions.md).
InputFollowsDefaults ==
  input \notin {Nothing, resolved} => \E t \in Tasks : task[t].at \notin {"idle", "dead"}

\* A raised flush flag silences every later write.  Somebody will lower it, or
\* it was left raised by a rebuild that was refused.
FlushExplained ==
  flush => refused \/ \E i \in DOMAIN jobs :
    jobs[i].op \in {"rebuild", "adopt", "offcancel", "devcancel", "healcancel", "errcancel",
                    "shutdown", "closeall"}

\* When devices and user are quiet, the microphone ends up live exactly when it
\* is requested and the default output is safe, whichever device it is then on.
Settles ==
  <>[](closed = "open" =>
         LET live == micRequested /\ default \notin BuiltIn IN
         snapshot = default /\ capturing = live /\ (input # Nothing) = live)

\* A command is answered, whatever the watch and the recovery are doing.
CommandReturns == (task["ui"] # Idle) ~> (task["ui"] \in {Idle, Dead})
=============================================================================
