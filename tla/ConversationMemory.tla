------------------------- MODULE ConversationMemory -------------------------
(***************************************************************************)
(* memory/store.py under the turn tasks of pipeline/session.py: SQLite     *)
(* rows of turns, threads, summaries, memories and affinity, the proposal  *)
(* host that fills them, the title and the rolling summary that are        *)
(* written after an await, the commands of the UI, failing writes, and a   *)
(* process that dies anywhere.  Every write of the store is one SQLite     *)
(* transaction, so one action; the rows survive a restart, the tasks, the  *)
(* proposals and the generation counter do not.                            *)
(***************************************************************************)
EXTENDS Integers, Sequences, FiniteSets, FiniteSetsExt

CONSTANTS
  MaxTurns, MaxThreads, MaxGen,   \* bounds
  MaxProposals,   \* bound on the proposals waiting in the host
  MaxIncidents,   \* bound on threads created or renamed, memories forgotten, restarts and
                  \* commits that raise, together
  Contents,       \* normalized memory contents
  Window, Chunk,  \* 12 and 4: unsummarized turns kept, turns summarized at once
  SessionLimit,   \* 3: how far one thread may move the affinity
  MaxAffinity, StartAffinity   \* 100 and 50

ASSUME MemoryBounds ==
  /\ {MaxTurns, MaxThreads, MaxGen, MaxProposals, MaxIncidents} \subseteq Nat
  /\ Chunk \in Nat \ {0} /\ Window \in Nat /\ Window >= Chunk
  /\ SessionLimit \in Nat /\ MaxAffinity \in Nat /\ StartAffinity \in 0..MaxAffinity

VARIABLES
  gen,       \* coordinator.generation_id of this process
  turns,     \* rows of turns and messages; the index is the turn's id, and its
             \* order within a thread is the sequence column
  source,    \* title_source of each thread started so far
  named,     \* the turn a generated title was written from, 0 if none
  selected,  \* session._session_id
  summary,   \* per thread: end_turn_sequence (as a turn) and covered_turn_count
  memories,  \* long_term_memories
  links,     \* turn_retrieved_memories
  affinity,  \* relationship_state
  events,    \* relationship_events
  staged,    \* ProposalHost._memory
  wished,    \* ProposalHost._affinity
  task,      \* what each turn's task is doing; it is gone after a restart
  commit,    \* the commit in progress: turn, proposals left, stage
  covered,   \* history variable: the turns whose text each summary absorbed
  broken,    \* history variable: turns whose commit a fault or a crash cut short
  peers,     \* history variable: pairs of turns that answered at once in one generation
  incidents  \* threads created or renamed, memories forgotten, commits that raised and
             \* restarts so far

rows   == <<turns, source, named, summary, memories, links, affinity, events>>
host   == <<staged, wished>>
past   == <<covered, broken, peers, incidents>>
vars   == <<gen, selected, rows, host, task, commit, past>>

Ids     == DOMAIN turns
Threads == DOMAIN source
NoTask  == [at |-> "gone", gen |-> 0, chunk |-> {}]
NoCommit == [turn |-> 0, mem |-> {}, aff |-> {}, stage |-> "none"]
NoSummary == [end |-> 0, count |-> 0]
Memory   == [turn : 1..MaxTurns, content : Contents]
Delta    == [turn : 1..MaxTurns, delta : {-1, 1}]

Init ==
  /\ gen = 0 /\ turns = <<>> /\ selected = 1
  /\ source = <<"default">> /\ named = <<0>> /\ summary = <<NoSummary>>
  /\ memories = {} /\ links = {} /\ affinity = StartAffinity /\ events = {}
  /\ staged = {} /\ wished = {} /\ task = <<>> /\ commit = NoCommit
  /\ covered = <<{}>> /\ broken = {} /\ peers = {} /\ incidents = 0
-----------------------------------------------------------------------------
\* A commit runs without an await: nothing else happens on the loop meanwhile.
Quiet == commit.turn = 0

CompleteIn(rs, th) == {t \in DOMAIN rs : rs[t].thread = th /\ rs[t].status = "complete"}

\* get_summary: what the summary of a thread covers so far.
Coverage(th) == summary[th]

\* unsummarized_complete_turns, over given rows.
Unsummarized(rs, th) == {t \in CompleteIn(rs, th) : t > Coverage(th).end}

\* The first Chunk turns of a set, in the order of their sequence.
Oldest(ts) == {t \in ts : Cardinality({u \in ts : u < t}) < Chunk}

StartThread ==
  /\ source' = Append(source, "default") /\ named' = Append(named, 0)
  /\ summary' = Append(summary, NoSummary) /\ covered' = Append(covered, {})

\* One more command of the user, commit that raises, or restart.
Happens == incidents < MaxIncidents /\ incidents' = incidents + 1

\* switch_thread is refused while a turn task is still running (and while the session
\* looks busy, which is not modelled here).
Switchable == \A t \in Ids : task[t].at = "gone"

\* runtime._create_thread: the new thread is selected unless the session refuses.
CreateThread ==
  /\ Quiet /\ Len(source) < MaxThreads /\ Happens
  /\ StartThread
  /\ \/ Switchable /\ selected' = Len(source) + 1
     \/ UNCHANGED selected
  /\ UNCHANGED <<gen, turns, memories, links, affinity, events, host, task,
                 commit, broken, peers>>

SwitchThread(th) ==
  /\ Quiet /\ th # selected /\ Switchable
  /\ selected' = th
  /\ UNCHANGED <<gen, rows, host, task, commit, past>>

\* The user renames a thread (once more changes only the text).
Rename(th) ==
  /\ Quiet /\ source[th] # "manual" /\ Happens
  /\ source' = [source EXCEPT ![th] = "manual"] /\ named' = [named EXCEPT ![th] = 0]
  /\ UNCHANGED <<gen, turns, selected, summary, memories, links, affinity, events, host,
                 task, commit, covered, broken, peers>>

\* forget_memory; the schema deletes the links that name it.
Forget(m) ==
  /\ Quiet /\ Happens
  /\ memories' = memories \ {m}
  /\ links' = {l \in links : l.memory # m}
  /\ UNCHANGED <<gen, turns, source, named, selected, summary, affinity, events,
                 host, task, commit, covered, broken, peers>>
-----------------------------------------------------------------------------
Answering == {t \in Ids : task[t].at = "running" /\ task[t].gen = gen}

\* begin_turn's row, with the memories that go into its prompt.
NewTurn(retrieved) == [thread |-> selected, status |-> "pending", roles |-> {},
                       retrieved |-> retrieved]

\* _insert_message: the message of a role; more text of the assistant extends it.
Inserted(rs, t, role) == [rs EXCEPT ![t].roles = @ \cup {role}]

\* _require_pending_turn: a write for any other turn raises.
RequirePending(t) == turns[t].status = "pending"

\* _run_turn up to its first await: begin_turn, accept_user_transcript, and the
\* memories enrich() retrieved.  A barge-in fences an earlier answer only if the
\* session looks busy: once the device poll has written idle, or for a transcript
\* that arrives meanwhile, two turns answer in one generation.
BeginTurn(retrieved) ==
  /\ Quiet /\ Len(turns) < MaxTurns
  /\ turns' = Inserted(Append(turns, NewTurn(retrieved)), Len(turns) + 1, "user")
  /\ task' = Append(task, [at |-> "running", gen |-> gen, chunk |-> {}])
  /\ peers' = peers \cup {{t, Len(turns) + 1} : t \in Answering}
  /\ UNCHANGED <<gen, source, named, selected, summary, memories, links, affinity, events,
                 host, commit, covered, broken, incidents>>

\* _append_assistant_text.
AssistantText(t) == Inserted(turns, t, "assistant")

\* append_assistant_playback, append_assistant_text_delivery: a sentence was
\* played, or delivered as text, and the assistant message grows.  It belongs to
\* the turn that was _active_turn when its frame came, also if a newer one is by now.
Deliver(t) ==
  /\ Quiet /\ t \in Answering /\ RequirePending(t)
  /\ turns' = AssistantText(t)
  /\ UNCHANGED <<gen, source, named, selected, summary, memories, links, affinity, events,
                 host, task, commit, past>>

\* session._active_turn: the newest turn, until its generator has returned.
ActiveTurn(t) == t = Len(turns) /\ t \in Answering

\* turn_matches: of this generation and still pending.
Pending(t) == turns[t].status = "pending"

\* Mutant: the memory is stored as soon as the model proposes it.
ProposeStoresAtOnce(t) ==
  /\ Quiet /\ ActiveTurn(t) /\ Pending(t)
  /\ \E c \in Contents : memories' = memories \cup {[turn |-> t, content |-> c]}
  /\ UNCHANGED <<gen, turns, source, named, selected, summary, links, affinity, events,
                 host, task, commit, past>>

\* propose_memory, propose_affinity: a tool call of any turn of the generation is
\* recorded for the active one; turn_matches wants a pending turn.
Propose(t) ==
  /\ Quiet /\ ActiveTurn(t) /\ Pending(t)
  /\ Cardinality(staged) + Cardinality(wished) < MaxProposals
  /\ \/ /\ \E c \in Contents : staged' = staged \cup {[turn |-> t, content |-> c]}
        /\ UNCHANGED wished
     \/ /\ \E d \in {-1, 1} : wished' = wished \cup {[turn |-> t, delta |-> d]}
        /\ UNCHANGED staged
  /\ UNCHANGED <<gen, selected, rows, task, commit, past>>

\* The proposals of a generation: those of the turns that ran in it.
OfGen(ps, g) == {p \in ps : task[p.turn].gen = g}

CancelProposals(g) ==
  /\ staged' = staged \ OfGen(staged, g)
  /\ wished' = wished \ OfGen(wished, g)

\* coordinator.cancel(): the generation moves and its proposals are dropped.
Fence ==
  /\ Quiet /\ gen < MaxGen
  /\ gen' = gen + 1
  /\ CancelProposals(gen)
  /\ UNCHANGED <<selected, rows, task, commit, past>>
-----------------------------------------------------------------------------
\* cancel_turn.
Cancelled(t) == [turns EXCEPT ![t].status = "cancelled"]

\* _finish_turn of a turn that failed, was fenced or said nothing: _discard_turn.
Discard(t) ==
  /\ Quiet /\ task[t].at = "running" /\ RequirePending(t)
  /\ turns' = Cancelled(t)
  /\ CancelProposals(task[t].gen)
  /\ task' = [task EXCEPT ![t] = NoTask]
  /\ UNCHANGED <<gen, source, named, selected, summary, memories, links, affinity, events,
                 commit, past>>

\* _finish_turn of a completed turn: commit_generation picks up its proposals.
StartCommit(t) ==
  /\ Quiet /\ t \in Answering /\ turns[t].roles = {"user", "assistant"}
  /\ commit' = [turn |-> t, mem |-> OfGen(staged, gen), aff |-> OfGen(wished, gen),
                stage |-> "proposals"]
  /\ UNCHANGED <<gen, selected, rows, host, task, past>>

\* add_memory, for a turn that is still pending; the content is unique.
CommitMemory(p) ==
  /\ commit.stage = "proposals" /\ p \in commit.mem
  /\ commit' = [commit EXCEPT !.mem = @ \ {p}]
  /\ memories' = IF Pending(p.turn) /\ \A m \in memories : m.content # p.content
                 THEN memories \cup {p} ELSE memories
  /\ UNCHANGED <<gen, turns, source, named, selected, summary, links, affinity, events,
                 host, task, past>>

\* SUM(delta): what relationship events add up to, each of them 1 up or 1 down.
Steps(es, d) == {e \in es : e.delta = d}
Net(es) == Cardinality(Steps(es, 1)) - Cardinality(Steps(es, -1))

\* What the relationship events of a thread add up to.
Moved(th, es) == Net({e \in es : turns[e.turn].thread = th})

Abs(n) == IF n < 0 THEN -n ELSE n

\* Mutant: the thread's limit is compared before the delta is added.
AllowedTooFar(p) ==
  /\ Pending(p.turn)
  /\ \A e \in events : e.turn # p.turn
  /\ Abs(Moved(turns[p.turn].thread, events)) <= SessionLimit
  /\ affinity + p.delta \in 0..MaxAffinity

\* apply_affinity's early returns, after turn_matches.
Allowed(p) ==
  /\ Pending(p.turn)
  /\ \A e \in events : e.turn # p.turn
  /\ Abs(Moved(turns[p.turn].thread, events) + p.delta) <= SessionLimit
  /\ affinity + p.delta \in 0..MaxAffinity

CommitAffinity(p) ==
  /\ commit.stage = "proposals" /\ commit.mem = {} /\ p \in commit.aff
  /\ commit' = [commit EXCEPT !.aff = @ \ {p}]
  /\ IF Allowed(p)
     THEN /\ affinity' = affinity + p.delta
          /\ events' = events \cup {p}
     ELSE UNCHANGED <<affinity, events>>
  /\ UNCHANGED <<gen, turns, source, named, selected, summary, memories, links, host,
                 task, past>>

\* Mutant: the links are written without looking the memories up again.
CommitLinksBlindly ==
  LET t == commit.turn IN
  /\ commit.stage = "proposals" /\ commit.mem = {} /\ commit.aff = {} /\ RequirePending(t)
  /\ CancelProposals(gen)
  /\ links' = links \cup {[turn |-> t, memory |-> m] : m \in turns[t].retrieved}
  /\ commit' = [commit EXCEPT !.stage = "complete"]
  /\ UNCHANGED <<gen, turns, source, named, selected, summary, memories, affinity, events,
                 task, past>>

\* The host forgets the generation; record_retrieved_memories skips what the
\* user has forgotten since.
CommitLinks ==
  LET t == commit.turn IN
  /\ commit.stage = "proposals" /\ commit.mem = {} /\ commit.aff = {} /\ RequirePending(t)
  /\ CancelProposals(gen)
  /\ links' = links \cup {[turn |-> t, memory |-> m] : m \in turns[t].retrieved \cap memories}
  /\ commit' = [commit EXCEPT !.stage = "complete"]
  /\ UNCHANGED <<gen, turns, source, named, selected, summary, memories, affinity, events,
                 task, past>>
-----------------------------------------------------------------------------
\* maybe_title: a default title, and exactly one complete turn.
TitleDue(t, rs) ==
  /\ source[rs[t].thread] = "default" /\ task[t].gen = gen
  /\ Cardinality(CompleteIn(rs, rs[t].thread)) = 1

\* maybe_summarize up to its await: the turns it would summarize, if any.
SummaryChunk(rs) ==
  LET left == Unsummarized(rs, selected) IN
  IF Cardinality(left) > Window THEN Oldest(left) ELSE {}

\* summarize_if_due: the fence it keeps is the current one.
SummaryTask(rs) ==
  IF SummaryChunk(rs) = {} THEN NoTask
  ELSE [at |-> "summing", gen |-> gen, chunk |-> SummaryChunk(rs)]

\* name_thread_if_due, then summarize_if_due, both still in the turn's task.
Afterwards(t, rs) ==
  IF TitleDue(t, rs) THEN [task[t] EXCEPT !.at = "titling"] ELSE SummaryTask(rs)

\* complete_turn, and the work after it up to its first await.
CommitTurn ==
  LET t == commit.turn
      rs == [turns EXCEPT ![t].status = "complete"] IN
  /\ commit.stage = "complete"
  /\ turns' = rs
  /\ task' = [task EXCEPT ![t] = Afterwards(t, rs)]
  /\ commit' = NoCommit
  /\ UNCHANGED <<gen, source, named, selected, summary, memories, links, affinity, events,
                 host, past>>

\* The encoder or a write raises: the task dies, the row stays pending and the
\* proposals stay with the host.
CommitFails ==
  /\ ~Quiet /\ Happens
  /\ broken' = broken \cup {commit.turn}
  /\ task' = [task EXCEPT ![commit.turn].at = "gone"]
  /\ commit' = NoCommit
  /\ UNCHANGED <<gen, selected, rows, host, covered, peers>>

\* Mutant: the title is written over whatever the thread is called by now.
WriteTitleBlindly(t) ==
  /\ source' = [source EXCEPT ![turns[t].thread] = "generated"]
  /\ named' = [named EXCEPT ![turns[t].thread] = t]

\* set_generated_conversation_title, in the generation that earned it.
WriteTitle(t) ==
  IF task[t].gen = gen /\ source[turns[t].thread] = "default"
  THEN /\ source' = [source EXCEPT ![turns[t].thread] = "generated"]
       /\ named' = [named EXCEPT ![turns[t].thread] = t]
  ELSE UNCHANGED <<source, named>>

\* The title backend answers, with a title or with none; the summary is next.
TitleAnswered(t) ==
  /\ Quiet /\ task[t].at = "titling"
  /\ WriteTitle(t) \/ UNCHANGED <<source, named>>
  /\ task' = [task EXCEPT ![t] = SummaryTask(turns)]
  /\ UNCHANGED <<gen, turns, selected, summary, memories, links, affinity, events, host,
                 commit, past>>

\* Mutant: the chunk is not compared with the rows again.
CoversOnceMore(th, chunk) == TRUE

\* advance_summary: the chunk is still the oldest of what is not summarized.
Continuous(th, chunk) == chunk = Oldest(Unsummarized(turns, th))

\* The summary backend answers or raises; a refused chunk raises too.
SummaryAnswered(t) ==
  LET th == turns[t].thread
      chunk == task[t].chunk IN
  /\ Quiet /\ task[t].at = "summing"
  /\ task' = [task EXCEPT ![t] = NoTask]
  /\ \/ /\ task[t].gen = gen /\ Continuous(th, chunk)
        /\ summary' = [summary EXCEPT ![th] =
                         [end |-> Max(chunk), count |-> @.count + Chunk]]
        /\ covered' = [covered EXCEPT ![th] = @ \cup chunk]
     \/ UNCHANGED <<summary, covered>>
  /\ UNCHANGED <<gen, turns, source, named, selected, memories, links, affinity, events,
                 host, commit, broken, peers, incidents>>
-----------------------------------------------------------------------------
\* The process is killed, or closes and cancels its tasks, and is started again:
\* rows survive as they are, and start_session opens another thread.
Restart ==
  /\ Len(source) < MaxThreads /\ Happens
  /\ StartThread
  /\ selected' = Len(source) + 1
  /\ gen' = 0
  /\ staged' = {} /\ wished' = {}
  /\ task' = [t \in Ids |-> NoTask] /\ commit' = NoCommit
  /\ broken' = broken \cup ({commit.turn} \ {0})
  /\ UNCHANGED <<turns, memories, links, affinity, events, peers>>

\* What conversation_messages names as remembered under an answer.
Shown(t) == {l.memory : l \in {k \in links : k.turn = t}}

\* search() ranks by similarity: any of the memories may be what it picks.
Retrievals == SUBSET memories

\* enrich(): without a usable encoder the prompt names no memory.
Enriched == Retrievals \cup {{}}

Next ==
  \/ CreateThread \/ Fence \/ Restart
  \/ \E th \in Threads : SwitchThread(th) \/ Rename(th)
  \/ \E m \in memories : Forget(m)
  \/ \E s \in Enriched : BeginTurn(s)
  \/ \E t \in Ids : Deliver(t) \/ Propose(t) \/ Discard(t) \/ StartCommit(t)
                    \/ TitleAnswered(t) \/ SummaryAnswered(t)
  \/ \E p \in commit.mem : CommitMemory(p)
  \/ \E p \in commit.aff : CommitAffinity(p)
  \/ CommitLinks \/ CommitTurn \/ CommitFails

Spec == Init /\ [][Next]_vars
-----------------------------------------------------------------------------
TypeOK ==
  /\ gen \in 0..MaxGen /\ selected \in Threads
  /\ turns \in Seq([thread : Threads, status : {"pending", "complete", "cancelled"},
                    roles : SUBSET {"user", "assistant"}, retrieved : SUBSET Memory])
  /\ Len(turns) <= MaxTurns /\ DOMAIN task = Ids
  /\ \A t \in Ids : task[t] \in [at : {"running", "titling", "summing", "gone"},
                                 gen : 0..MaxGen, chunk : SUBSET Ids]
  /\ Len(source) <= MaxThreads /\ source \in Seq({"default", "generated", "manual"})
  /\ named \in [Threads -> 0..MaxTurns]
  /\ summary \in [Threads -> [end : 0..MaxTurns, count : 0..MaxTurns]]
  /\ memories \subseteq Memory /\ staged \subseteq Memory
  /\ links \subseteq [turn : Ids, memory : Memory]
  /\ affinity \in 0..MaxAffinity /\ events \subseteq Delta /\ wished \subseteq Delta
  /\ commit.turn \in 0..Len(turns) /\ commit.stage \in {"none", "proposals", "complete"}
  /\ broken \subseteq Ids /\ peers \subseteq SUBSET Ids
  /\ incidents \in 0..MaxIncidents

\* The affinity is where its events lead to, one event per turn, and no thread
\* has moved it further than its limit, whatever crashed or failed meanwhile.
AffinityExact ==
  /\ affinity = StartAffinity + Net(events)
  /\ \A e, f \in events : e.turn = f.turn => e = f
  /\ \A th \in Threads : Abs(Moved(th, events)) <= SessionLimit

Peers(t) == {u \in Ids : {t, u} \in peers}

\* The turn completed, or its commit is still running or was cut short.
Earned(t) == turns[t].status = "complete" \/ t = commit.turn \/ t \in broken

\* A memory or an affinity event is left by a turn that earned it, or by one that
\* answered beside a turn of its generation that did: commit_generation does not
\* tell them apart.  Nothing is remembered of a turn that was fenced, nor of one
\* that failed or was abandoned alone, nor when a later commit finds its proposals.
CommitEarned ==
  \A t \in {m.turn : m \in memories} \cup {e.turn : e \in events} :
    \E u \in {t} \cup Peers(t) : Earned(u)

\* A turn that completed after a younger one it answered beside had been summarized:
\* unsummarized_complete_turns looks only beyond the end of the summary.
LeftBehind(th) ==
  {t \in CompleteIn(turns, th) : \E u \in covered[th] : t < u /\ u \in Peers(t)}

\* A summary covers each turn once and without a gap, but for turns that were left
\* behind, and leaves the recent turns verbatim, even when two tasks summarize at
\* once or a thread is resumed in another process.
SummaryExact ==
  \A th \in Threads :
    /\ covered[th] \subseteq CompleteIn(turns, th)
    /\ \A t \in covered[th] : t <= summary[th].end
    /\ \A t \in CompleteIn(turns, th) \ LeftBehind(th) : t <= summary[th].end => t \in covered[th]
    /\ summary[th].count = Cardinality(covered[th])
    /\ summary[th].count > 0 => Cardinality(Unsummarized(turns, th)) > Window - Chunk

\* A title the user chose is never replaced, and a generated one is written once,
\* although its text is chosen during an await.
TitleOnce ==
  [][\A th \in Threads :
       /\ source[th] = "manual" => source'[th] = "manual"
       /\ source[th] = "generated" => source'[th] # "default" /\ named'[th] \in {0, named[th]}]_<<source, named>>

\* What a complete turn shows as remembered is what was in its prompt and still
\* exists: a memory forgotten before, during or after the commit is in no link.
LinksExact ==
  /\ \A l \in links : l.memory \in memories
  /\ \A t \in Ids : turns[t].status = "complete" => Shown(t) = turns[t].retrieved \cap memories
=============================================================================
