------------------------ MODULE ConversationMemoryProofs ------------------------
(***************************************************************************)
(* Machine-checked proofs about ConversationMemory, for every bound and    *)
(* every content, with any number of turns answering at once: whatever is  *)
(* remembered comes of a turn that completed or of one that answered       *)
(* beside it, an answer shows the memories it used that still exist, a     *)
(* title is written once, the affinity is what its events add up to, and a *)
(* summary covers each turn once and passes over none but those an older   *)
(* peer left behind.                                                       *)
(***************************************************************************)
EXTENDS ConversationMemory, FiniteSetTheorems, TLAPS

RowType  == [thread : Nat, status : {"pending", "complete", "cancelled"},
             roles : SUBSET {"user", "assistant"}, retrieved : SUBSET Memory]
TaskType == [at : {"running", "titling", "summing", "gone"}, gen : Nat, chunk : SUBSET Nat]
CommitType == [turn : Nat, mem : SUBSET Memory, aff : SUBSET Delta,
               stage : {"none", "proposals", "complete"}]

\* Rows, tasks and the commit are well formed, and name turns that exist.
Shape ==
  /\ gen \in Nat /\ selected \in Nat
  /\ turns \in Seq(RowType) /\ Len(turns) <= MaxTurns
  /\ task \in Seq(TaskType) /\ Len(task) = Len(turns)
  /\ commit \in CommitType
  /\ memories \subseteq Memory /\ staged \subseteq Memory
  /\ events \subseteq Delta /\ wished \subseteq Delta
  /\ broken \subseteq Ids
  /\ \A l \in links : l.turn \in Ids

\* A task still answers for a pending row that no commit has given up, and every
\* turn that began since is its peer; what runs afterwards has completed.
TasksFollowRows ==
  /\ \A t \in Ids : task[t].at = "running" =>
       turns[t].status = "pending" /\ t \notin broken /\ task[t].gen <= gen
  /\ \A t \in Ids : task[t].at \in {"titling", "summing"} => turns[t].status = "complete"
  /\ \A t \in Answering, u \in Ids : t < u => u \in Peers(t)

\* Whatever waits in the host belongs to the current generation, and to a turn
\* that still runs or whose commit was cut short.
ProposalsOpen ==
  \A p \in staged \cup wished :
    /\ p.turn \in Ids /\ turns[p.turn].status = "pending"
    /\ task[p.turn].gen = gen
    /\ task[p.turn].at = "running" \/ p.turn \in broken

\* The commit under way is that of an answering turn, and takes its proposals
\* from the host; at its last stage the host is empty.
CommitOpen ==
  /\ commit.turn # 0 => commit.turn \in Answering
  /\ commit.turn = 0 => commit = NoCommit
  /\ commit.mem \subseteq staged /\ commit.aff \subseteq wished
  /\ commit.stage = "complete" => staged = {} /\ wished = {}

\* What is remembered names turns that exist, and one of their peers earned it.
Vouched(t) == t \in Ids /\ \E u \in {t} \cup Peers(t) : Earned(u)
MemoriesEarned == \A t \in {m.turn : m \in memories} \cup {e.turn : e \in events} : Vouched(t)

\* A memory gets only into prompts of turns that began after its own.
RetrievedEarlier == \A t \in Ids : \A m \in turns[t].retrieved : m.turn < t

\* Links exist of turns that were committed, and of the one at its last stage.
LinksPlaced ==
  /\ \A l \in links :
       \/ turns[l.turn].status = "complete" \/ l.turn \in broken
       \/ l.turn = commit.turn /\ commit.stage = "complete"
  /\ commit.stage = "complete" => Shown(commit.turn) = turns[commit.turn].retrieved \cap memories

\* No complete turn was shown a proposal that is still waiting.
ProposalsUnseen ==
  \A p \in staged : \A t \in Ids : turns[t].status = "complete" => p \notin turns[t].retrieved

\* The inductive invariant.
IInv ==
  /\ Shape
  /\ TasksFollowRows
  /\ ProposalsOpen
  /\ CommitOpen
  /\ MemoriesEarned
  /\ RetrievedEarlier
  /\ LinksPlaced
  /\ ProposalsUnseen
  /\ LinksExact
-----------------------------------------------------------------------------
LEMMA InitEstablishes == Init => IInv
<1> SUFFICES ASSUME Init PROVE IInv OBVIOUS
<1>1. Ids = {} BY DEF Init, Ids
<1>2. Shape BY <1>1, MemoryBounds DEF Init, Shape, NoCommit, CommitType
<1>3. TasksFollowRows BY <1>1 DEF Init, TasksFollowRows, Answering
<1>4. ProposalsOpen /\ CommitOpen BY <1>1 DEF Init, ProposalsOpen, CommitOpen, NoCommit
<1>5. MemoriesEarned /\ RetrievedEarlier BY <1>1 DEF Init, MemoriesEarned, RetrievedEarlier
<1>6. LinksPlaced /\ ProposalsUnseen /\ LinksExact
  BY <1>1 DEF Init, LinksPlaced, ProposalsUnseen, LinksExact, NoCommit
<1> QED BY <1>2, <1>3, <1>4, <1>5, <1>6 DEF IInv

\* Turns stay earned, and peers peers: what was remembered is still vouched for.
LEMMA EarnedKept ==
  ASSUME MemoriesEarned, Ids \subseteq Ids', peers \subseteq peers',
         \A u \in Ids : Earned(u) => Earned(u)',
         \A m \in memories' : m \in memories \/ Vouched(m.turn),
         \A e \in events' : e \in events \/ Vouched(e.turn)
  PROVE  MemoriesEarned'
<1>1. ASSUME NEW t, Vouched(t) PROVE Vouched(t)'
  <2>1. PICK u \in {t} \cup Peers(t) : Earned(u) BY <1>1 DEF Vouched
  <2>2. t \in Ids /\ u \in Ids BY <1>1 DEF Vouched, Peers
  <2>3. u \in {t} \cup Peers(t)' BY <2>2 DEF Peers
  <2> QED BY <2>1, <2>2, <2>3 DEF Vouched
<1>2. \A m \in memories' : Vouched(m.turn) BY DEF MemoriesEarned
<1>3. \A e \in events' : Vouched(e.turn) BY DEF MemoriesEarned
<1> QED BY <1>1, <1>2, <1>3 DEF MemoriesEarned

\* Threads are created, selected and renamed without touching what is remembered.
LEMMA ThreadSteps ==
  ASSUME IInv, selected' \in Nat,
         UNCHANGED <<gen, turns, memories, links, events, staged, wished, task, commit, broken, peers>>
  PROVE  IInv'
<1>1. Ids' = Ids /\ Answering' = Answering BY DEF Ids, Answering
<1>2. Shape' BY <1>1 DEF IInv, Shape
<1>3. TasksFollowRows' BY <1>1 DEF IInv, TasksFollowRows, Peers
<1>4. ProposalsOpen' /\ CommitOpen' BY <1>1 DEF IInv, ProposalsOpen, CommitOpen
<1>5. MemoriesEarned' /\ RetrievedEarlier'
  BY <1>1 DEF IInv, MemoriesEarned, RetrievedEarlier, Vouched, Earned, Peers
<1>6. LinksPlaced' /\ ProposalsUnseen' /\ LinksExact'
  BY <1>1 DEF IInv, LinksPlaced, ProposalsUnseen, LinksExact, Shown
<1> QED BY <1>2, <1>3, <1>4, <1>5, <1>6 DEF IInv

\* A forgotten memory takes its links along.
LEMMA ForgetStep ==
  ASSUME IInv, NEW m \in memories, Forget(m)
  PROVE  IInv'
<1>1. /\ UNCHANGED <<gen, turns, selected, events, staged, wished, task, commit, broken, peers>>
      /\ memories' = memories \ {m} /\ links' = {l \in links : l.memory # m} /\ Quiet
  BY DEF Forget, host, past
<1>2. Ids' = Ids /\ Answering' = Answering BY <1>1 DEF Ids, Answering
<1>3. Shape' BY <1>1, <1>2 DEF IInv, Shape
<1>4. TasksFollowRows' BY <1>1, <1>2 DEF IInv, TasksFollowRows, Peers
<1>5. ProposalsOpen' /\ CommitOpen' BY <1>1, <1>2 DEF IInv, ProposalsOpen, CommitOpen
<1>6. MemoriesEarned' /\ RetrievedEarlier'
  BY <1>1, <1>2 DEF IInv, MemoriesEarned, RetrievedEarlier, Vouched, Earned, Peers
<1>7. \A t : Shown(t)' = Shown(t) \ {m} BY <1>1 DEF Shown
<1>8. LinksPlaced' BY <1>1, <1>2, <1>7 DEF IInv, LinksPlaced
<1>9. ProposalsUnseen' BY <1>1, <1>2 DEF IInv, ProposalsUnseen
<1>10. LinksExact' BY <1>1, <1>2, <1>7 DEF IInv, LinksExact
<1> QED BY <1>3, <1>4, <1>5, <1>6, <1>8, <1>9, <1>10 DEF IInv

\* A turn begins behind the others, with memories that are already earned.
LEMMA BeginTurnStep ==
  ASSUME IInv, NEW retrieved \in SUBSET memories, BeginTurn(retrieved)
  PROVE  IInv'
<1> DEFINE t == Len(turns) + 1
           new == [thread |-> selected, status |-> "pending", roles |-> {"user"},
                   retrieved |-> retrieved]
           job == [at |-> "running", gen |-> gen, chunk |-> {}]
<1>1. /\ Quiet /\ Len(turns) < MaxTurns /\ peers' = peers \cup {{u, t} : u \in Answering}
      /\ task' = Append(task, job)
      /\ UNCHANGED <<gen, selected, memories, links, events, staged, wished, commit, broken>>
  BY DEF BeginTurn, host, past
<1>2. new \in RowType /\ job \in TaskType /\ Len(turns) \in Nat
  BY DEF IInv, Shape, RowType, TaskType
<1>3. /\ turns' \in Seq(RowType) /\ Len(turns') = t /\ turns'[t] = new
      /\ \A u \in 1..Len(turns) : turns'[u] = turns[u]
  <2> DEFINE fresh == NewTurn(retrieved)
             base == Append(turns, fresh)
  <2>1. fresh \in RowType /\ [fresh EXCEPT !.roles = @ \cup {"user"}] = new
    <3>1. fresh \in RowType BY DEF NewTurn, IInv, Shape, RowType
    <3>2. {} \cup {"user"} = {"user"} OBVIOUS
    <3>3. fresh = [thread |-> selected, status |-> "pending", roles |-> {}, retrieved |-> retrieved]
      BY DEF NewTurn
    <3>4. [fresh EXCEPT !.roles = @ \cup {"user"}]
            = [thread |-> selected, status |-> "pending", roles |-> {} \cup {"user"},
               retrieved |-> retrieved]
      BY <3>3
    <3> QED BY <3>1, <3>2, <3>4
  <2>2. turns' = [base EXCEPT ![t].roles = @ \cup {"user"}]
    BY DEF BeginTurn, Inserted
  <2> HIDE DEF fresh, new
  <2>3. base \in Seq(RowType) /\ Len(base) = t /\ base[t] = fresh
        /\ \A u \in 1..Len(turns) : base[u] = turns[u]
    BY <1>2, <2>1 DEF IInv, Shape
  <2> HIDE DEF base
  <2>4. turns' = [base EXCEPT ![t] = new] BY <2>1, <2>2, <2>3
  <2> QED BY <1>2, <2>3, <2>4
<1> HIDE DEF new, job
<1>4. /\ turns' \in Seq(RowType) /\ Len(turns') = t /\ turns'[t] = new
      /\ task' \in Seq(TaskType) /\ Len(task') = t /\ task'[t] = job
      /\ \A u \in Ids : turns'[u] = turns[u] /\ task'[u] = task[u]
      /\ Ids = 1..Len(turns) /\ Ids' = Ids \cup {t} /\ t \notin Ids
      /\ t <= MaxTurns /\ \A u \in Ids : u < t
  <2>1. task \in Seq(TaskType) /\ Len(task) = Len(turns) /\ MaxTurns \in Nat
    BY MemoryBounds DEF IInv, Shape
  <2>2. /\ task' \in Seq(TaskType) /\ Len(task') = t /\ task'[t] = job
        /\ \A u \in 1..Len(turns) : task'[u] = task[u]
    BY <1>1, <1>2, <2>1
  <2>3. Ids = 1..Len(turns) /\ Ids' = 1..t BY <1>2, <1>3 DEF IInv, Shape, Ids
  <2>4. Ids' = Ids \cup {t} /\ t \notin Ids /\ \A u \in Ids : u < t BY <1>2, <2>3
  <2> QED BY <1>1, <1>2, <1>3, <2>1, <2>2, <2>3, <2>4
<1>5. /\ new.status = "pending" /\ new.retrieved = retrieved
      /\ job.at = "running" /\ job.gen = gen
  BY DEF new, job
<1> HIDE DEF t
<1>6. Shape'
  BY <1>1, <1>2, <1>4 DEF IInv, Shape, Quiet
<1>7. TasksFollowRows'
  <2>1. Answering' = Answering \cup {t} BY <1>1, <1>4, <1>5 DEF Answering
  <2>2. t \notin broken /\ gen <= gen BY <1>4 DEF IInv, Shape
  <2>3. ASSUME NEW u \in Ids'
        PROVE  /\ task'[u].at = "running" =>
                    turns'[u].status = "pending" /\ u \notin broken' /\ task'[u].gen <= gen'
               /\ task'[u].at \in {"titling", "summing"} => turns'[u].status = "complete"
    <3>1. CASE u = t BY <1>1, <1>4, <1>5, <2>2, <3>1
    <3>2. CASE u \in Ids BY <1>1, <1>4, <3>2 DEF IInv, TasksFollowRows, Peers
    <3> QED BY <1>4, <3>1, <3>2
  <2>4. ASSUME NEW u \in Answering', NEW v \in Ids', u < v
        PROVE  v \in Peers(u)'
    <3>1. u \in Answering
      <4>1. \A w \in Ids' : ~(t < w)
        <5>1. \A w \in Ids' : w = t \/ w < t BY <1>4
        <5>2. t \in Nat /\ \A w \in Ids : w \in Nat BY <1>2, <1>4 DEF t
        <5> QED BY <1>4, <5>1, <5>2
      <4> QED BY <2>1, <2>4, <4>1
    <3>2. CASE v = t
      <4>1. {u, t} \in peers' BY <1>1, <3>1
      <4> QED BY <1>4, <3>2, <4>1 DEF Peers
    <3>3. CASE v \in Ids
      <4>1. {u, v} \in peers BY <2>4, <3>1, <3>3 DEF IInv, TasksFollowRows, Peers
      <4> QED BY <1>1, <1>4, <3>3, <4>1 DEF Peers
    <3> QED BY <1>4, <3>2, <3>3
  <2> QED BY <2>3, <2>4 DEF TasksFollowRows
<1>8. ProposalsOpen' /\ CommitOpen'
  BY <1>1, <1>4 DEF IInv, ProposalsOpen, CommitOpen, Quiet, NoCommit
<1>9. MemoriesEarned' /\ RetrievedEarlier'
  <2>1. \A u \in Ids : Earned(u) => Earned(u)' BY <1>1, <1>4 DEF Earned
  <2>3. MemoriesEarned' BY <1>1, <1>4, <2>1, EarnedKept DEF IInv
  <2>4. \A m \in retrieved : m.turn < t
    <3>1. \A m \in retrieved : m.turn \in Ids BY DEF IInv, MemoriesEarned, Vouched
    <3> QED BY <1>4, <3>1
  <2>5. RetrievedEarlier' BY <1>4, <1>5, <2>4 DEF IInv, RetrievedEarlier
  <2> QED BY <2>3, <2>5
<1>10. ProposalsUnseen' BY <1>1, <1>4, <1>5 DEF IInv, ProposalsUnseen
<1>11. LinksPlaced' /\ LinksExact'
  <2>1. \A u : Shown(u)' = Shown(u) BY <1>1 DEF Shown
  <2>2. commit.stage = "none" /\ commit.turn = 0 BY <1>1 DEF IInv, CommitOpen, Quiet, NoCommit
  <2>3. LinksPlaced' BY <1>1, <1>4, <2>2 DEF IInv, Shape, LinksPlaced
  <2> QED BY <1>1, <1>4, <1>5, <2>1, <2>3 DEF IInv, LinksExact
<1> QED BY <1>6, <1>7, <1>8, <1>9, <1>10, <1>11 DEF IInv

\* A row that stays what it is for the commit: only its roles grow.
LEMMA DeliverStep ==
  ASSUME IInv, NEW t \in Ids, Deliver(t)
  PROVE  IInv'
<1> DEFINE new == [turns[t] EXCEPT !.roles = @ \cup {"assistant"}]
<1>1. /\ UNCHANGED <<gen, selected, memories, links, events, staged, wished, task, commit, broken, peers>>
      /\ turns' = [turns EXCEPT ![t] = new]
  BY DEF Deliver, host, past, AssistantText, Inserted
<1>2. turns[t] \in RowType /\ turns \in Seq(RowType) /\ Ids = 1..Len(turns)
  BY DEF IInv, Shape, Ids
<1>3. new \in RowType /\ new.status = turns[t].status /\ new.retrieved = turns[t].retrieved
  BY <1>2 DEF RowType
<1> HIDE DEF new
<1>4. /\ turns' \in Seq(RowType) /\ Len(turns') = Len(turns) /\ Ids' = Ids
      /\ \A u \in Ids : turns'[u].status = turns[u].status /\ turns'[u].retrieved = turns[u].retrieved
  BY <1>1, <1>2, <1>3 DEF Ids
<1>5. Answering' = Answering BY <1>1, <1>4 DEF Answering
<1>6. Shape' BY <1>1, <1>4 DEF IInv, Shape
<1>7. TasksFollowRows' BY <1>1, <1>4, <1>5 DEF IInv, TasksFollowRows, Peers
<1>8. ProposalsOpen' /\ CommitOpen' BY <1>1, <1>4, <1>5 DEF IInv, ProposalsOpen, CommitOpen
<1>9. MemoriesEarned' /\ RetrievedEarlier'
  <2>1. \A u \in Ids : Earned(u) => Earned(u)' BY <1>1, <1>4 DEF Earned
  <2>2. MemoriesEarned' BY <1>1, <1>4, <2>1, EarnedKept DEF IInv
  <2> QED BY <1>4, <2>2 DEF IInv, RetrievedEarlier
<1>10. commit.stage = "complete" => commit.turn \in Ids
  BY DEF IInv, CommitOpen, NoCommit, Answering
<1>11. LinksPlaced' /\ ProposalsUnseen' /\ LinksExact'
  BY <1>1, <1>4, <1>10 DEF IInv, Shape, LinksPlaced, ProposalsUnseen, LinksExact, Shown
<1> QED BY <1>6, <1>7, <1>8, <1>9, <1>11 DEF IInv

\* A proposal joins those of the newest answer; nobody has seen it yet.
LEMMA ProposeStep ==
  ASSUME IInv, NEW t \in Ids, Propose(t)
  PROVE  IInv'
<1>1. /\ UNCHANGED <<gen, turns, selected, memories, links, events, task, commit, broken, peers>>
      /\ t = Len(turns) /\ t \in Answering /\ turns[t].status = "pending" /\ Quiet
      /\ \A p \in staged' \cup wished' : p \in staged \cup wished \/ p.turn = t
      /\ \A p \in staged' : p \in staged \/ p.turn = t
  BY DEF Propose, ActiveTurn, rows, past, Pending
<1>2. staged' \subseteq Memory /\ wished' \subseteq Delta
  <2>1. t \in 1..MaxTurns BY MemoryBounds DEF IInv, Shape, Ids
  <2>2. staged \subseteq Memory /\ wished \subseteq Delta BY DEF IInv, Shape
  <2> QED BY <2>1, <2>2 DEF Propose, Memory, Delta
<1>3. Ids' = Ids /\ Answering' = Answering BY <1>1 DEF Ids, Answering
<1>4. Shape' BY <1>1, <1>2, <1>3 DEF IInv, Shape
<1>5. TasksFollowRows' BY <1>1, <1>3 DEF IInv, TasksFollowRows, Peers
<1>6. ProposalsOpen' BY <1>1, <1>3 DEF IInv, ProposalsOpen, Answering
<1>7. CommitOpen' BY <1>1, <1>3 DEF IInv, CommitOpen, Quiet, NoCommit
<1>8. MemoriesEarned' /\ RetrievedEarlier'
  BY <1>1, <1>3 DEF IInv, MemoriesEarned, RetrievedEarlier, Vouched, Earned, Peers
<1>9. LinksPlaced' /\ LinksExact' BY <1>1, <1>3 DEF IInv, LinksPlaced, LinksExact, Shown
<1>10. ProposalsUnseen'
  <2>1. \A u \in Ids : ~(t < u) BY <1>1 DEF IInv, Shape, Ids
  <2>2. \A u \in Ids : \A m \in turns[u].retrieved : m.turn # t
    BY <2>1 DEF IInv, RetrievedEarlier
  <2> QED BY <1>1, <1>3, <2>2 DEF IInv, ProposalsUnseen
<1> QED BY <1>4, <1>5, <1>6, <1>7, <1>8, <1>9, <1>10 DEF IInv

\* Cancelling the current generation empties the host.
LEMMA CancelEmpties ==
  ASSUME IInv, CancelProposals(gen)
  PROVE  staged' = {} /\ wished' = {}
BY DEF CancelProposals, OfGen, IInv, ProposalsOpen

LEMMA FenceStep ==
  ASSUME IInv, Fence
  PROVE  IInv'
<1>1. /\ UNCHANGED <<turns, selected, memories, links, events, task, commit, broken, peers>>
      /\ gen' = gen + 1 /\ Quiet /\ staged' = {} /\ wished' = {}
  BY CancelEmpties DEF Fence, rows, past
<1>2. Ids' = Ids /\ gen \in Nat BY <1>1 DEF Ids, IInv, Shape
<1>3. Answering' = {}
  BY <1>1, <1>2 DEF Answering, IInv, TasksFollowRows
<1>4. Shape' BY <1>1, <1>2 DEF IInv, Shape
<1>5. TasksFollowRows'
  <2>a. Ids = 1..Len(task) /\ task \in Seq(TaskType) BY DEF IInv, Shape, Ids
  <2>b. \A t \in Ids : task[t] \in TaskType BY <2>a
  <2>1. \A t \in Ids : task[t].gen \in Nat BY <2>b DEF TaskType
  <2> QED BY <1>1, <1>2, <1>3, <2>1 DEF IInv, TasksFollowRows, Peers
<1>6. ProposalsOpen' BY <1>1 DEF ProposalsOpen
<1>7. CommitOpen' BY <1>1 DEF IInv, CommitOpen, Quiet, NoCommit
<1>8. MemoriesEarned' /\ RetrievedEarlier'
  BY <1>1, <1>2 DEF IInv, MemoriesEarned, RetrievedEarlier, Vouched, Earned, Peers
<1>9. LinksPlaced' /\ LinksExact' /\ ProposalsUnseen'
  BY <1>1, <1>2 DEF IInv, LinksPlaced, LinksExact, Shown, ProposalsUnseen
<1> QED BY <1>4, <1>5, <1>6, <1>7, <1>8, <1>9 DEF IInv

\* The answer failed or was fenced: its row is cancelled and its generation's
\* proposals go.
LEMMA DiscardStep ==
  ASSUME IInv, NEW t \in Ids, Discard(t)
  PROVE  IInv'
<1> DEFINE new == [turns[t] EXCEPT !.status = "cancelled"]
<1>1. /\ UNCHANGED <<gen, selected, memories, links, events, commit, broken, peers>>
      /\ turns' = [turns EXCEPT ![t] = new] /\ task' = [task EXCEPT ![t] = NoTask]
      /\ turns[t].status = "pending" /\ Quiet /\ CancelProposals(task[t].gen)
      /\ task[t].at = "running"
  BY DEF Discard, Cancelled, RequirePending, past
<1>2. /\ turns[t] \in RowType /\ turns \in Seq(RowType) /\ Ids = 1..Len(turns)
      /\ task[t] \in TaskType /\ task \in Seq(TaskType) /\ Len(task) = Len(turns)
  BY DEF IInv, Shape, Ids
<1>3. /\ new \in RowType /\ new.status = "cancelled" /\ new.retrieved = turns[t].retrieved
      /\ NoTask \in TaskType /\ NoTask.at = "gone"
  BY <1>2 DEF RowType, TaskType, NoTask
<1> HIDE DEF new
<1>4. /\ turns' \in Seq(RowType) /\ Len(turns') = Len(turns) /\ Ids' = Ids
      /\ turns'[t] = new /\ \A u \in Ids \ {t} : turns'[u] = turns[u]
      /\ task' \in Seq(TaskType) /\ Len(task') = Len(turns)
      /\ task'[t] = NoTask /\ \A u \in Ids \ {t} : task'[u] = task[u]
  BY <1>1, <1>2, <1>3 DEF Ids
<1>5. \A u \in Ids : /\ turns[u].status = "complete" <=> turns'[u].status = "complete"
                     /\ turns'[u].retrieved = turns[u].retrieved
                     /\ u # t => task'[u] = task[u]
  BY <1>1, <1>3, <1>4
<1>6. Answering' \subseteq Answering BY <1>1, <1>3, <1>4 DEF Answering
<1>7. /\ staged' \subseteq staged /\ wished' \subseteq wished
      /\ \A p \in staged' \cup wished' : p.turn # t
  BY <1>1 DEF CancelProposals, OfGen
<1>8. Shape' BY <1>1, <1>4, <1>7 DEF IInv, Shape
<1>9. TasksFollowRows'
  BY <1>1, <1>3, <1>4, <1>5, <1>6 DEF IInv, TasksFollowRows, Peers
<1>10. ProposalsOpen' BY <1>1, <1>4, <1>5, <1>7 DEF IInv, ProposalsOpen
<1>11. CommitOpen' BY <1>1 DEF IInv, CommitOpen, Quiet, NoCommit
<1>12. MemoriesEarned' /\ RetrievedEarlier'
  <2>1. \A u \in Ids : Earned(u) => Earned(u)' BY <1>1, <1>5 DEF Earned
  <2>2. MemoriesEarned' BY <1>1, <1>4, <2>1, EarnedKept DEF IInv
  <2> QED BY <1>4, <1>5, <2>2 DEF IInv, RetrievedEarlier
<1>13. LinksPlaced' /\ LinksExact'
  BY <1>1, <1>4, <1>5 DEF IInv, Shape, CommitOpen, Quiet, NoCommit, LinksPlaced, LinksExact, Shown
<1>14. ProposalsUnseen' BY <1>1, <1>4, <1>5, <1>7 DEF IInv, ProposalsUnseen
<1> QED BY <1>8, <1>9, <1>10, <1>11, <1>12, <1>13, <1>14 DEF IInv
-----------------------------------------------------------------------------
LEMMA StartCommitStep ==
  ASSUME IInv, NEW t \in Ids, StartCommit(t)
  PROVE  IInv'
<1>1. /\ UNCHANGED <<gen, turns, selected, memories, links, events, staged, wished, task, broken, peers>>
      /\ commit' = [turn |-> t, mem |-> OfGen(staged, gen), aff |-> OfGen(wished, gen),
                    stage |-> "proposals"]
      /\ Quiet /\ t \in Answering
  BY DEF StartCommit, rows, host, past
<1>2. Ids' = Ids /\ Answering' = Answering BY <1>1 DEF Ids, Answering
<1>3. /\ commit'.turn = t /\ commit'.stage = "proposals"
      /\ commit'.mem \subseteq staged /\ commit'.aff \subseteq wished
  BY <1>1 DEF OfGen
<1>4. commit' \in CommitType
  <2>1. t \in Nat BY DEF IInv, Shape, Ids
  <2>2. OfGen(staged, gen) \subseteq Memory /\ OfGen(wished, gen) \subseteq Delta
    BY DEF OfGen, IInv, Shape
  <2> QED BY <1>1, <2>1, <2>2 DEF CommitType
<1>5. Shape' BY <1>1, <1>2, <1>4 DEF IInv, Shape
<1>6. TasksFollowRows' BY <1>1, <1>2 DEF IInv, TasksFollowRows, Peers
<1>7. ProposalsOpen' BY <1>1, <1>2 DEF IInv, ProposalsOpen
<1>8. t # 0 BY DEF IInv, Shape, Ids
<1>9. CommitOpen' BY <1>1, <1>2, <1>3, <1>8 DEF CommitOpen
<1>10. MemoriesEarned' /\ RetrievedEarlier'
  <2>1. 0 \notin Ids BY DEF IInv, Shape, Ids
  <2>2. \A u \in Ids : Earned(u) => Earned(u)' BY <1>1, <2>1 DEF Earned, Quiet
  <2>3. MemoriesEarned' BY <1>1, <1>2, <2>2, EarnedKept DEF IInv
  <2> QED BY <1>1, <1>2, <2>3 DEF IInv, RetrievedEarlier
<1>11. LinksPlaced' /\ LinksExact' /\ ProposalsUnseen'
  BY <1>1, <1>2, <1>3 DEF IInv, CommitOpen, Quiet, NoCommit, LinksPlaced, LinksExact, Shown, ProposalsUnseen
<1> QED BY <1>5, <1>6, <1>7, <1>9, <1>10, <1>11 DEF IInv

\* Whatever waits in the host is of the turn that commits, of one of its peers, or of
\* one whose commit was cut short.
LEMMA CommitVouches ==
  ASSUME IInv, commit.turn \in Answering, NEW p \in staged \cup wished
  PROVE  Vouched(p.turn)
<1>1. p.turn \in Ids /\ (p.turn \in Answering \/ p.turn \in broken)
  BY DEF IInv, ProposalsOpen, Answering
<1>2. PICK c : c = commit.turn OBVIOUS
<1>3. c \in Ids /\ p.turn \in Nat /\ c \in Nat BY <1>1, <1>2 DEF Answering, IInv, Shape, Ids
<1>4. CASE p.turn \in broken BY <1>1, <1>4 DEF Vouched, Earned
<1>5. CASE p.turn \in Answering
  <2>1. CASE p.turn = c BY <1>1, <1>2, <2>1 DEF Vouched, Earned
  <2>2. CASE p.turn < c
    <3>1. c \in Peers(p.turn) BY <1>3, <1>5, <2>2 DEF IInv, TasksFollowRows
    <3> QED BY <1>1, <1>2, <3>1 DEF Vouched, Earned
  <2>3. CASE c < p.turn
    <3>1. p.turn \in Peers(c) BY <1>1, <1>2, <2>3 DEF IInv, TasksFollowRows
    <3>2. {c, p.turn} = {p.turn, c} OBVIOUS
    <3>3. c \in Peers(p.turn) BY <1>3, <3>1, <3>2 DEF Peers
    <3> QED BY <1>1, <1>2, <3>3 DEF Vouched, Earned
  <2> QED BY <1>3, <2>1, <2>2, <2>3
<1> QED BY <1>1, <1>4, <1>5

\* A memory of this commit, or one an earlier commit left behind, is stored; no
\* complete turn was shown it.
LEMMA CommitMemoryStep ==
  ASSUME IInv, NEW p \in commit.mem, CommitMemory(p)
  PROVE  IInv'
<1>1. /\ UNCHANGED <<gen, turns, selected, links, events, staged, wished, task, broken, peers>>
      /\ commit' = [commit EXCEPT !.mem = @ \ {p}] /\ commit.stage = "proposals"
      /\ memories' \in {memories, memories \cup {p}}
  BY DEF CommitMemory, host, past
<1>2. Ids' = Ids /\ Answering' = Answering BY <1>1 DEF Ids, Answering
<1>3. commit \in CommitType BY DEF IInv, Shape
<1>4. /\ commit' \in CommitType /\ commit'.turn = commit.turn /\ commit'.stage = "proposals"
      /\ commit'.mem \subseteq commit.mem /\ commit'.aff = commit.aff
  BY <1>1, <1>3 DEF CommitType
<1>5. commit.turn \in Answering /\ commit.turn # 0
  BY <1>1 DEF IInv, CommitOpen, NoCommit
<1>6. p \in staged /\ p \in Memory BY DEF IInv, Shape, CommitOpen
<1>7. Vouched(p.turn) BY <1>5, <1>6, CommitVouches
<1>8. Shape' BY <1>1, <1>2, <1>4, <1>6 DEF IInv, Shape
<1>9. TasksFollowRows' /\ ProposalsOpen'
  BY <1>1, <1>2 DEF IInv, TasksFollowRows, ProposalsOpen, Peers
<1>10. CommitOpen' BY <1>1, <1>2, <1>4, <1>5 DEF IInv, CommitOpen
<1>11. MemoriesEarned' /\ RetrievedEarlier'
  <2>1. \A u \in Ids : Earned(u) => Earned(u)' BY <1>1, <1>4 DEF Earned
  <2>2. MemoriesEarned' BY <1>1, <1>2, <1>7, <2>1, EarnedKept DEF IInv
  <2> QED BY <1>1, <1>2, <2>2 DEF IInv, RetrievedEarlier
<1>12. LinksPlaced' /\ ProposalsUnseen'
  BY <1>1, <1>2, <1>4 DEF IInv, LinksPlaced, ProposalsUnseen
<1>13. LinksExact'
  BY <1>1, <1>2, <1>6 DEF IInv, LinksExact, Shown, ProposalsUnseen
<1> QED BY <1>8, <1>9, <1>10, <1>11, <1>12, <1>13 DEF IInv

LEMMA CommitAffinityStep ==
  ASSUME IInv, NEW p \in commit.aff, CommitAffinity(p)
  PROVE  IInv'
<1>1. /\ UNCHANGED <<gen, turns, selected, memories, links, staged, wished, task, broken, peers>>
      /\ commit' = [commit EXCEPT !.aff = @ \ {p}] /\ commit.stage = "proposals"
      /\ events' \in {events, events \cup {p}}
  BY DEF CommitAffinity, host, past
<1>2. Ids' = Ids /\ Answering' = Answering BY <1>1 DEF Ids, Answering
<1>3. commit \in CommitType BY DEF IInv, Shape
<1>4. /\ commit' \in CommitType /\ commit'.turn = commit.turn /\ commit'.stage = "proposals"
      /\ commit'.aff \subseteq commit.aff /\ commit'.mem = commit.mem
  BY <1>1, <1>3 DEF CommitType
<1>5. commit.turn \in Answering /\ commit.turn # 0
  BY <1>1 DEF IInv, CommitOpen, NoCommit
<1>6. p \in wished /\ p \in Delta BY DEF IInv, Shape, CommitOpen
<1>7. Vouched(p.turn) BY <1>5, <1>6, CommitVouches
<1>8. Shape' BY <1>1, <1>2, <1>4, <1>6 DEF IInv, Shape
<1>9. TasksFollowRows' /\ ProposalsOpen'
  BY <1>1, <1>2 DEF IInv, TasksFollowRows, ProposalsOpen, Peers
<1>10. CommitOpen' BY <1>1, <1>2, <1>4, <1>5 DEF IInv, CommitOpen
<1>11. MemoriesEarned' /\ RetrievedEarlier'
  <2>1. \A u \in Ids : Earned(u) => Earned(u)' BY <1>1, <1>4 DEF Earned
  <2>2. MemoriesEarned' BY <1>1, <1>2, <1>7, <2>1, EarnedKept DEF IInv
  <2> QED BY <1>1, <1>2, <2>2 DEF IInv, RetrievedEarlier
<1>12. LinksPlaced' /\ ProposalsUnseen' /\ LinksExact'
  BY <1>1, <1>2, <1>4 DEF IInv, LinksPlaced, ProposalsUnseen, LinksExact, Shown
<1> QED BY <1>8, <1>9, <1>10, <1>11, <1>12 DEF IInv

\* The host is empty from here on, and the answer is linked to the memories of its
\* prompt that still exist.
LEMMA CommitLinksStep ==
  ASSUME IInv, CommitLinks
  PROVE  IInv'
<1>0. PICK t : t = commit.turn OBVIOUS
<1> DEFINE fresh == {[turn |-> t, memory |-> m] : m \in turns[t].retrieved \cap memories}
<1>1. /\ UNCHANGED <<gen, turns, selected, memories, events, task, broken, peers>>
      /\ commit.stage = "proposals" /\ commit.mem = {} /\ commit.aff = {}
      /\ links' = links \cup fresh
      /\ commit' = [commit EXCEPT !.stage = "complete"]
      /\ staged' = {} /\ wished' = {}
  BY <1>0, CancelEmpties DEF CommitLinks, past
<1>2. Ids' = Ids /\ Answering' = Answering BY <1>1 DEF Ids, Answering
<1>3. commit \in CommitType BY DEF IInv, Shape
<1>4. /\ commit' \in CommitType /\ commit'.turn = t /\ commit'.stage = "complete"
      /\ commit'.mem = {} /\ commit'.aff = {}
  BY <1>0, <1>1, <1>3 DEF CommitType
<1>5. t \in Answering /\ t # 0 /\ t \in Ids /\ turns[t].status = "pending" /\ t \notin broken
  BY <1>0, <1>1 DEF IInv, CommitOpen, NoCommit, Answering, TasksFollowRows
<1>6. \A l \in links : l.turn # t
  BY <1>0, <1>1, <1>5 DEF IInv, LinksPlaced
<1>7. \A l \in fresh : l.turn = t OBVIOUS
<1>8. {l.memory : l \in fresh} = turns[t].retrieved \cap memories
  <2> DEFINE kept == turns[t].retrieved \cap memories
  <2>1. \A l \in fresh : \E m \in kept : l = [turn |-> t, memory |-> m] OBVIOUS
  <2>2. \A m \in kept : [turn |-> t, memory |-> m] \in fresh OBVIOUS
  <2> HIDE DEF fresh, kept
  <2>3. \A l \in fresh : l.memory \in kept BY <2>1
  <2>4. \A m \in kept : \E l \in fresh : l.memory = m BY <2>2
  <2>5. {l.memory : l \in fresh} = kept BY <2>3, <2>4
  <2> QED BY <2>5 DEF kept
<1> HIDE DEF fresh
<1>9. Shown(t)' = turns[t].retrieved \cap memories
  <2>1. {l \in links' : l.turn = t} = fresh BY <1>1, <1>6, <1>7
  <2> QED BY <1>8, <2>1 DEF Shown
<1>10. \A u \in Ids : u # t => Shown(u)' = Shown(u)
  BY <1>1, <1>7 DEF Shown
<1>11. Shape' BY <1>1, <1>2, <1>4, <1>5, <1>7 DEF IInv, Shape
<1>12. TasksFollowRows' /\ ProposalsOpen'
  BY <1>1, <1>2 DEF IInv, TasksFollowRows, ProposalsOpen, Peers
<1>13. CommitOpen' BY <1>1, <1>2, <1>4, <1>5 DEF IInv, CommitOpen
<1>14. MemoriesEarned' /\ RetrievedEarlier'
  BY <1>0, <1>1, <1>2, <1>4 DEF IInv, MemoriesEarned, RetrievedEarlier, Vouched, Earned, Peers
<1>15. LinksPlaced'
  BY <1>0, <1>1, <1>4, <1>6, <1>7, <1>9 DEF IInv, LinksPlaced
<1>16. LinksExact'
  <2>1. \A l \in fresh : l.memory \in memories BY <1>8
  <2> QED BY <1>1, <1>2, <1>5, <1>10, <2>1 DEF IInv, LinksExact
<1>17. ProposalsUnseen' BY <1>1 DEF ProposalsUnseen
<1> QED BY <1>11, <1>12, <1>13, <1>14, <1>15, <1>16, <1>17 DEF IInv
-----------------------------------------------------------------------------
\* What follows a completed turn is a title, a summary or nothing.
LEMMA SummaryTaskIs ==
  ASSUME NEW rs, DOMAIN rs \subseteq Nat, gen \in Nat
  PROVE  SummaryTask(rs) \in TaskType /\ SummaryTask(rs).at \in {"gone", "summing"}
<1>1. SummaryChunk(rs) \subseteq Nat
  BY DEF SummaryChunk, Oldest, Unsummarized, CompleteIn
<1> QED BY <1>1 DEF SummaryTask, NoTask, TaskType

\* The task of a turn that is complete, or completes, moves on.
LEMMA CommitTurnStep ==
  ASSUME IInv, CommitTurn
  PROVE  IInv'
<1>0. PICK t : t = commit.turn OBVIOUS
<1> DEFINE new == [turns[t] EXCEPT !.status = "complete"]
           job == Afterwards(t, turns')
<1>1. /\ UNCHANGED <<gen, selected, memories, links, events, staged, wished, broken, peers>>
      /\ turns' = [turns EXCEPT ![t] = new] /\ task' = [task EXCEPT ![t] = job]
      /\ commit.stage = "complete" /\ commit' = NoCommit
  BY <1>0 DEF CommitTurn, host, past
<1>2. t \in Answering /\ t # 0 /\ t \in Ids /\ task[t].at = "running" /\ task[t].gen = gen
  BY <1>0, <1>1 DEF IInv, CommitOpen, NoCommit, Answering
<1>3. /\ turns[t] \in RowType /\ turns \in Seq(RowType) /\ Ids = 1..Len(turns)
      /\ task[t] \in TaskType /\ task \in Seq(TaskType) /\ Len(task) = Len(turns)
  BY <1>2 DEF IInv, Shape, Ids
<1>4. new \in RowType /\ new.status = "complete" /\ new.retrieved = turns[t].retrieved
  BY <1>3 DEF RowType
<1>5. DOMAIN turns' \subseteq Nat BY <1>1, <1>3 DEF Ids
<1>6. job \in TaskType /\ job.at \in {"titling", "gone", "summing"}
  <2>1. [task[t] EXCEPT !.at = "titling"] \in TaskType
        /\ [task[t] EXCEPT !.at = "titling"].at = "titling"
    BY <1>3 DEF TaskType
  <2>2. gen \in Nat BY DEF IInv, Shape
  <2> QED BY <1>5, <2>1, <2>2, SummaryTaskIs DEF Afterwards
<1> HIDE DEF new, job
<1>7. /\ turns' \in Seq(RowType) /\ Len(turns') = Len(turns) /\ Ids' = Ids
      /\ turns'[t] = new /\ \A u \in Ids \ {t} : turns'[u] = turns[u]
      /\ task' \in Seq(TaskType) /\ Len(task') = Len(turns)
      /\ task'[t] = job /\ \A u \in Ids \ {t} : task'[u] = task[u]
  BY <1>1, <1>2, <1>3, <1>4, <1>6 DEF Ids
<1>8. /\ turns'[t].status = "complete" /\ task'[t].at # "running"
      /\ \A u \in Ids : /\ turns'[u].retrieved = turns[u].retrieved
                        /\ u # t => turns'[u].status = turns[u].status
  BY <1>4, <1>6, <1>7
<1>9. staged = {} /\ wished = {} BY <1>1 DEF IInv, CommitOpen
<1>10. Answering' \subseteq Answering BY <1>1, <1>2, <1>6, <1>7 DEF Answering
<1>11. Shape'
  <2>1. NoCommit \in CommitType BY DEF NoCommit, CommitType
  <2> QED BY <1>1, <1>7, <2>1 DEF IInv, Shape
<1>12. TasksFollowRows'
  BY <1>1, <1>7, <1>8, <1>10 DEF IInv, TasksFollowRows, Peers
<1>13. ProposalsOpen' /\ CommitOpen' /\ ProposalsUnseen'
  BY <1>1, <1>9 DEF ProposalsOpen, CommitOpen, ProposalsUnseen, NoCommit
<1>14. MemoriesEarned'
  <2>1. \A u \in Ids : Earned(u) => Earned(u)' BY <1>0, <1>1, <1>2, <1>7, <1>8 DEF Earned
  <2>2. \A u : Peers(u)' = Peers(u) /\ Peers(u) \subseteq Ids BY <1>1, <1>7 DEF Peers
  <2> QED BY <1>1, <1>7, <2>1, <2>2 DEF IInv, MemoriesEarned, Vouched
<1>15. RetrievedEarlier' BY <1>1, <1>7, <1>8 DEF IInv, RetrievedEarlier
<1>16. LinksPlaced' BY <1>0, <1>1, <1>2, <1>7, <1>8 DEF IInv, Shape, LinksPlaced, NoCommit
<1>17. LinksExact'
  <2>1. \A u \in Ids : Shown(u)' = Shown(u) BY <1>1 DEF Shown
  <2>2. Shown(t) = turns[t].retrieved \cap memories BY <1>0, <1>1 DEF IInv, LinksPlaced
  <2> QED BY <1>1, <1>2, <1>7, <1>8, <2>1, <2>2 DEF IInv, LinksExact
<1> QED BY <1>11, <1>12, <1>13, <1>14, <1>15, <1>16, <1>17 DEF IInv

\* A commit that raises leaves its turn open for good; its proposals stay.
LEMMA CommitFailsStep ==
  ASSUME IInv, CommitFails
  PROVE  IInv'
<1>0. PICK t : t = commit.turn OBVIOUS
<1> DEFINE job == [task[t] EXCEPT !.at = "gone"]
<1>1. /\ UNCHANGED <<gen, turns, selected, memories, links, events, staged, wished>>
      /\ task' = [task EXCEPT ![t] = job] /\ t # 0
      /\ commit' = NoCommit /\ broken' = broken \cup {t} /\ peers' = peers
  BY <1>0 DEF CommitFails, rows, host, Quiet
<1>2. t \in Answering /\ t \in Ids /\ task[t].gen = gen
  BY <1>0, <1>1 DEF IInv, CommitOpen, Answering
<1>3. task[t] \in TaskType /\ task \in Seq(TaskType) /\ Len(task) = Len(turns) /\ Ids = 1..Len(turns)
  BY <1>2 DEF IInv, Shape, Ids
<1>4. job \in TaskType /\ job.at = "gone" /\ job.gen = task[t].gen BY <1>3 DEF TaskType
<1> HIDE DEF job
<1>5. /\ task' \in Seq(TaskType) /\ Len(task') = Len(turns) /\ Ids' = Ids
      /\ task'[t] = job /\ \A u \in Ids \ {t} : task'[u] = task[u]
  BY <1>1, <1>2, <1>3, <1>4 DEF Ids
<1>6. \A u \in Ids : task'[u].gen = task[u].gen BY <1>4, <1>5
<1>7. Answering' \subseteq Answering BY <1>1, <1>4, <1>5 DEF Answering
<1>8. Shape'
  <2>1. NoCommit \in CommitType BY DEF NoCommit, CommitType
  <2> QED BY <1>1, <1>2, <1>5, <2>1 DEF IInv, Shape
<1>9. TasksFollowRows' BY <1>1, <1>4, <1>5, <1>6, <1>7 DEF IInv, TasksFollowRows, Peers
<1>10. ProposalsOpen'
  <2>1. ASSUME NEW p \in staged \cup wished
        PROVE  /\ p.turn \in Ids /\ turns[p.turn].status = "pending" /\ task'[p.turn].gen = gen
               /\ task'[p.turn].at = "running" \/ p.turn \in broken'
    BY <1>1, <1>5, <1>6 DEF IInv, ProposalsOpen
  <2> QED BY <1>1, <1>5, <2>1 DEF ProposalsOpen
<1>11. CommitOpen' BY <1>1 DEF CommitOpen, NoCommit
<1>12. MemoriesEarned' /\ RetrievedEarlier'
  BY <1>0, <1>1, <1>5 DEF IInv, MemoriesEarned, RetrievedEarlier, Vouched, Earned, Peers
<1>13. LinksPlaced' BY <1>0, <1>1, <1>5 DEF IInv, LinksPlaced, NoCommit
<1>14. LinksExact' /\ ProposalsUnseen'
  BY <1>1, <1>5 DEF IInv, LinksExact, Shown, ProposalsUnseen
<1> QED BY <1>8, <1>9, <1>10, <1>11, <1>12, <1>13, <1>14 DEF IInv

\* The work after a completed turn moves on without touching what is remembered.
LEMMA AfterwardsStep ==
  ASSUME IInv, NEW t \in Ids, task[t].at \in {"titling", "summing"},
         NEW job \in TaskType, job.at \in {"gone", "summing"}, task' = [task EXCEPT ![t] = job],
         UNCHANGED <<gen, selected, turns, memories, links, events, staged, wished, commit, broken, peers>>
  PROVE  IInv'
<1>1. task \in Seq(TaskType) /\ Len(task) = Len(turns) /\ Ids = 1..Len(turns)
  BY DEF IInv, Shape, Ids
<1>2. /\ task' \in Seq(TaskType) /\ Len(task') = Len(turns) /\ Ids' = Ids
      /\ task'[t] = job /\ \A u \in Ids \ {t} : task'[u] = task[u]
  BY <1>1 DEF Ids
<1>3. turns[t].status = "complete" BY DEF IInv, TasksFollowRows, Peers
<1>4. Answering' = Answering BY <1>2 DEF Answering
<1>5. Shape' BY <1>2 DEF IInv, Shape
<1>6. TasksFollowRows'
  <2>1. ASSUME NEW u \in Ids
        PROVE  /\ task'[u].at = "running" =>
                    turns[u].status = "pending" /\ u \notin broken /\ task'[u].gen <= gen
               /\ task'[u].at \in {"titling", "summing"} => turns[u].status = "complete"
    BY <1>2, <1>3 DEF IInv, TasksFollowRows, Peers
  <2> QED BY <1>2, <1>4, <2>1 DEF IInv, TasksFollowRows, Peers
<1>7. ProposalsOpen'
  <2>1. \A p \in staged \cup wished : p.turn # t BY <1>3 DEF IInv, ProposalsOpen
  <2> QED BY <1>2, <2>1 DEF IInv, ProposalsOpen
<1>8. CommitOpen' BY <1>4 DEF IInv, CommitOpen
<1>9. MemoriesEarned' /\ RetrievedEarlier'
  BY <1>2 DEF IInv, MemoriesEarned, RetrievedEarlier, Vouched, Earned, Peers
<1>10. LinksPlaced' /\ LinksExact' /\ ProposalsUnseen'
  BY <1>2 DEF IInv, LinksPlaced, LinksExact, Shown, ProposalsUnseen
<1> QED BY <1>5, <1>6, <1>7, <1>8, <1>9, <1>10 DEF IInv

LEMMA AnsweredSteps ==
  ASSUME IInv, NEW t \in Ids, TitleAnswered(t) \/ SummaryAnswered(t)
  PROVE  IInv'
<1>1. gen \in Nat /\ DOMAIN turns \subseteq Nat BY DEF IInv, Shape
<1>2. CASE TitleAnswered(t)
  <2> DEFINE job == SummaryTask(turns)
  <2>1. job \in TaskType /\ job.at \in {"gone", "summing"} BY <1>1, SummaryTaskIs
  <2>2. /\ task[t].at = "titling" /\ task' = [task EXCEPT ![t] = job]
        /\ UNCHANGED <<gen, selected, turns, memories, links, events, staged, wished, commit, broken, peers>>
    BY <1>2 DEF TitleAnswered, host, past
  <2> HIDE DEF job
  <2> QED BY <2>1, <2>2, AfterwardsStep
<1>3. CASE SummaryAnswered(t)
  <2>1. NoTask \in TaskType /\ NoTask.at = "gone" BY DEF NoTask, TaskType
  <2>2. /\ task[t].at = "summing" /\ task' = [task EXCEPT ![t] = NoTask]
        /\ UNCHANGED <<gen, selected, turns, memories, links, events, staged, wished, commit, broken, peers>>
    BY <1>3 DEF SummaryAnswered, host
  <2> QED BY <2>1, <2>2, AfterwardsStep
<1> QED BY <1>2, <1>3

\* The rows survive a restart; a commit it cut short is given up.
LEMMA RestartStep ==
  ASSUME IInv, Restart, Len(source) \in Nat
  PROVE  IInv'
<1>1. /\ UNCHANGED <<turns, memories, links, events, peers>>
      /\ selected' = Len(source) + 1 /\ gen' = 0 /\ staged' = {} /\ wished' = {}
      /\ task' = [t \in Ids |-> NoTask] /\ commit' = NoCommit
      /\ broken' = broken \cup ({commit.turn} \ {0})
  BY DEF Restart
<1>2. Ids' = Ids /\ Ids = 1..Len(turns) /\ Len(turns) \in Nat BY <1>1 DEF Ids, IInv, Shape
<1>3. NoTask \in TaskType /\ NoTask.at = "gone" BY DEF NoTask, TaskType
<1>4. /\ task' \in Seq(TaskType) /\ Len(task') = Len(turns)
      /\ \A t \in Ids : task'[t].at = "gone"
  BY <1>1, <1>2, <1>3
<1>5. commit.turn # 0 => commit.turn \in Ids /\ commit.turn \in broken'
  BY <1>1 DEF IInv, CommitOpen, Answering
<1>6. broken \subseteq broken' /\ broken' \subseteq Ids BY <1>1, <1>5 DEF IInv, Shape
<1>7. Shape'
  <2>1. NoCommit \in CommitType BY DEF NoCommit, CommitType
  <2> QED BY <1>1, <1>2, <1>4, <1>6, <2>1 DEF IInv, Shape
<1>8. Answering' = {} BY <1>2, <1>4 DEF Answering
<1>9. TasksFollowRows' BY <1>1, <1>2, <1>4, <1>8 DEF TasksFollowRows
<1>10. ProposalsOpen' /\ CommitOpen' /\ ProposalsUnseen'
  BY <1>1 DEF ProposalsOpen, CommitOpen, ProposalsUnseen, NoCommit
<1>11. 0 \notin Ids BY <1>2
<1>12. MemoriesEarned' /\ RetrievedEarlier'
  <2>1. \A u \in Ids : Earned(u) => Earned(u)' BY <1>1, <1>2, <1>5, <1>6, <1>11 DEF Earned
  <2>4. \A u : Peers(u)' = Peers(u) /\ Peers(u) \subseteq Ids BY <1>1, <1>2 DEF Peers
  <2>2. MemoriesEarned' BY <1>1, <1>2, <2>1, <2>4 DEF IInv, MemoriesEarned, Vouched
  <2>3. RetrievedEarlier' BY <1>1, <1>2, <1>6 DEF IInv, RetrievedEarlier
  <2> QED BY <2>2, <2>3
<1>13. LinksPlaced'
  BY <1>1, <1>5, <1>6, <1>11 DEF IInv, Shape, LinksPlaced, NoCommit
<1>14. LinksExact' BY <1>1, <1>2 DEF IInv, LinksExact, Shown
<1> QED BY <1>7, <1>9, <1>10, <1>12, <1>13, <1>14 DEF IInv
-----------------------------------------------------------------------------
\* The titles: what each thread is called, and by whom.
Titles == {"default", "generated", "manual"}
Titled == source \in Seq(Titles) /\ named \in Seq(Nat) /\ Len(source) = Len(named)

\* What TitleOnce says of one step.
TitlesKept ==
  \A th \in Threads :
    /\ source[th] = "manual" => source'[th] = "manual"
    /\ source[th] = "generated" => source'[th] # "default" /\ named'[th] \in {0, named[th]}

\* A title that is written anew.
LEMMA TitleWritten ==
  ASSUME Titled, NEW th, NEW how \in Titles, NEW t \in Nat,
         source' = [source EXCEPT ![th] = how], named' = [named EXCEPT ![th] = t],
         th \in Threads =>
           \/ how = "manual" /\ t = 0
           \/ how = "generated" /\ source[th] = "default"
  PROVE  Titled' /\ TitlesKept
<1>1. source \in Seq(Titles) /\ named \in Seq(Nat) /\ Len(source) = Len(named)
      /\ Threads = 1..Len(source)
  BY DEF Titled, Threads
<1>2. CASE th \in Threads
  <2>1. Titled' BY <1>1, <1>2 DEF Titled
  <2>2. /\ source'[th] = how /\ named'[th] = t
        /\ \A u \in Threads : u # th => source'[u] = source[u] /\ named'[u] = named[u]
    BY <1>1, <1>2
  <2>3. TitlesKept BY <1>2, <2>2 DEF TitlesKept
  <2> QED BY <2>1, <2>3
<1>3. CASE th \notin Threads
  <2>1. source' = source /\ named' = named BY <1>1, <1>3
  <2>2. TitlesKept BY <2>1 DEF TitlesKept
  <2> QED BY <1>1, <2>1, <2>2 DEF Titled
<1> QED BY <1>2, <1>3

\* A new thread has the default title.
LEMMA StartThreadTitled ==
  ASSUME Titled, StartThread
  PROVE  Titled' /\ TitlesKept
<1>1. source' = Append(source, "default") /\ named' = Append(named, 0) BY DEF StartThread
<1>2. Titled' BY <1>1 DEF Titled, Titles
<1>3. TitlesKept BY <1>1 DEF TitlesKept, Threads, Titled
<1> QED BY <1>2, <1>3

LEMMA TitleStep ==
  ASSUME Titled, IInv, [Next]_vars
  PROVE  Titled' /\ TitlesKept
<1>1. ASSUME UNCHANGED <<source, named>> PROVE Titled' /\ TitlesKept
  BY <1>1 DEF Titled, TitlesKept
<1>2. CASE CreateThread \/ Restart
  BY <1>2, StartThreadTitled DEF CreateThread, Restart
<1>3. ASSUME NEW th \in Threads, Rename(th) PROVE Titled' /\ TitlesKept
  <2>1. "manual" \in Titles /\ 0 \in Nat BY DEF Titles
  <2>2. source' = [source EXCEPT ![th] = "manual"] /\ named' = [named EXCEPT ![th] = 0]
    BY <1>3 DEF Rename
  <2> QED BY <2>1, <2>2, TitleWritten
<1>4. ASSUME NEW t \in Ids, TitleAnswered(t) PROVE Titled' /\ TitlesKept
  <2>1. t \in Nat BY DEF IInv, Shape, Ids
  <2>2. CASE UNCHANGED <<source, named>> BY <1>1, <2>2
  <2>3. CASE /\ source[turns[t].thread] = "default"
             /\ source' = [source EXCEPT ![turns[t].thread] = "generated"]
             /\ named' = [named EXCEPT ![turns[t].thread] = t]
    <3>1. "generated" \in Titles BY DEF Titles
    <3>2. PICK th : th = turns[t].thread OBVIOUS
    <3> QED BY <2>1, <2>3, <3>1, <3>2, TitleWritten
  <2> QED BY <1>4, <2>2, <2>3 DEF TitleAnswered, WriteTitle
<1>5. ASSUME \/ \E th \in Threads : SwitchThread(th)
             \/ \E m \in memories : Forget(m)
             \/ \E s \in Enriched : BeginTurn(s)
             \/ \E t \in Ids : Deliver(t) \/ Propose(t) \/ Discard(t) \/ StartCommit(t) \/ SummaryAnswered(t)
             \/ \E p \in commit.mem : CommitMemory(p)
             \/ \E p \in commit.aff : CommitAffinity(p)
             \/ Fence \/ CommitLinks \/ CommitTurn \/ CommitFails \/ UNCHANGED vars
      PROVE  UNCHANGED <<source, named>>
  BY <1>5 DEF SwitchThread, Forget, BeginTurn, Deliver, Propose, Discard, StartCommit,
        SummaryAnswered, CommitMemory, CommitAffinity, Fence, CommitLinks, CommitTurn,
        CommitFails, vars, rows
<1> QED BY <1>1, <1>2, <1>3, <1>4, <1>5 DEF Next

LEMMA StepPreserves == IInv /\ Titled /\ [Next]_vars => IInv'
<1> SUFFICES ASSUME IInv, Titled, [Next]_vars PROVE IInv' OBVIOUS
<1>1. Threads \subseteq Nat /\ Len(source) \in Nat BY DEF Titled, Threads
<1>2. CASE CreateThread \/ (\E th \in Threads : SwitchThread(th) \/ Rename(th)) \/ UNCHANGED vars
  <2>1. selected \in Nat BY DEF IInv, Shape
  <2>2. /\ selected' \in Nat
        /\ UNCHANGED <<gen, turns, memories, links, events, staged, wished, task, commit, broken, peers>>
    BY <1>1, <1>2, <2>1 DEF CreateThread, SwitchThread, Rename, vars, rows, host, past
  <2> QED BY <2>2, ThreadSteps
<1>3. ASSUME NEW m \in memories, Forget(m) PROVE IInv' BY <1>3, ForgetStep
<1>4. ASSUME NEW s \in Enriched, BeginTurn(s) PROVE IInv'
  <2>1. s \in SUBSET memories BY DEF Enriched, Retrievals
  <2> QED BY <1>4, <2>1, BeginTurnStep
<1>5. ASSUME NEW t \in Ids, Deliver(t) \/ Propose(t) \/ Discard(t) \/ StartCommit(t) PROVE IInv'
  BY <1>5, DeliverStep, ProposeStep, DiscardStep, StartCommitStep
<1>6. ASSUME NEW t \in Ids, TitleAnswered(t) \/ SummaryAnswered(t) PROVE IInv'
  BY <1>6, AnsweredSteps
<1>7. ASSUME NEW p \in commit.mem, CommitMemory(p) PROVE IInv' BY <1>7, CommitMemoryStep
<1>8. ASSUME NEW p \in commit.aff, CommitAffinity(p) PROVE IInv' BY <1>8, CommitAffinityStep
<1>9. CASE CommitLinks \/ CommitTurn \/ CommitFails
  BY <1>9, CommitLinksStep, CommitTurnStep, CommitFailsStep
<1>10. CASE Fence BY <1>10, FenceStep
<1>11. CASE Restart BY <1>1, <1>11, RestartStep
<1> QED BY <1>2, <1>3, <1>4, <1>5, <1>6, <1>7, <1>8, <1>9, <1>10, <1>11 DEF Next
-----------------------------------------------------------------------------
\* Rows, host, commits and tasks fit together in every state, for every number of
\* turns, threads, crashes and failing commits.
THEOREM Invariance == Spec => [](IInv /\ Titled)
<1>1. Init => Titled BY DEF Init, Titled, Titles
<1>2. IInv /\ Titled /\ [Next]_vars => (IInv /\ Titled)'
  BY StepPreserves, TitleStep
<1> QED BY <1>1, <1>2, InitEstablishes, PTL DEF Spec

\* A memory or an affinity event is left only by a turn that completed or whose
\* commit is running or was cut short, or by one that answered beside such a turn
\* (session.py, tools/proposals.py commit_generation): with any number of turns of
\* one generation at once, and never by one that was fenced before a commit.
THEOREM MemoriesAreEarned == Spec => []CommitEarned
<1>1. IInv => CommitEarned BY DEF IInv, MemoriesEarned, Vouched, CommitEarned
<1> QED BY <1>1, Invariance, PTL

\* What a complete turn shows as remembered is exactly what was in its prompt and was
\* not forgotten since (store.py, record_retrieved_memories).
THEOREM AnswersShowTheirMemories == Spec => []LinksExact
<1>1. IInv => LinksExact BY DEF IInv
<1> QED BY <1>1, Invariance, PTL

\* A title the user chose is never replaced and a generated one is written once
\* (titles.py, store.py), although its text is chosen during an await.
THEOREM TitlesAreWrittenOnce == Spec => TitleOnce
<1>1. IInv /\ Titled /\ [Next]_vars => [TitlesKept]_vars BY TitleStep
<1>2. [TitlesKept]_vars => [TitlesKept]_<<source, named>> BY DEF vars, rows
<1>3. Spec => [][TitlesKept]_<<source, named>> BY <1>1, <1>2, Invariance, PTL DEF Spec
<1> QED BY <1>3 DEF TitleOnce, TitlesKept
-----------------------------------------------------------------------------
(* Where the rows are.                                                     *)

\* Rows stay in their thread, and a running task works for the selected one.
Placed ==
  /\ selected \in Threads
  /\ \A t \in Ids : /\ turns[t].thread \in Threads
                    /\ task[t].at # "gone" => turns[t].thread = selected

\* What a step may do to the rows that exist.
RowsStay ==
  /\ Threads \subseteq Threads'
  /\ Ids \subseteq Ids' /\ \A t \in Ids : turns'[t].thread = turns[t].thread

\* No step but those that start a thread has another set of threads.
LEMMA ThreadsStay ==
  ASSUME Titled, NEW s, NEW th, source' = source \/ source' = [source EXCEPT ![th] = s]
  PROVE  Threads' = Threads
BY DEF Titled, Threads

LEMMA ThreadStarts ==
  ASSUME Titled, StartThread
  PROVE  Threads' = Threads \cup {Len(source) + 1} /\ Len(source) + 1 \notin Threads
BY DEF Titled, Threads, StartThread

LEMMA EditedRowStays ==
  ASSUME IInv, NEW t \in Ids, NEW r, r.thread = turns[t].thread, turns' = [turns EXCEPT ![t] = r]
  PROVE  Ids' = Ids /\ \A u \in Ids : turns'[u].thread = turns[u].thread
BY DEF IInv, Shape, Ids

LEMMA PlacedKept ==
  ASSUME Placed, RowsStay, Ids' = Ids,
         selected' = selected \/ (selected' \in Threads' /\ \A t \in Ids : task'[t].at = "gone"),
         \A t \in Ids : task'[t].at # "gone" => task[t].at # "gone"
  PROVE  RowsStay /\ Placed'
BY DEF Placed, RowsStay

LEMMA PlacedStep ==
  ASSUME IInv, Titled, Placed, Next
  PROVE  RowsStay /\ Placed'
<1>0. /\ turns \in Seq(RowType) /\ Ids = 1..Len(turns) /\ Len(turns) \in Nat
      /\ task \in Seq(TaskType) /\ Len(task) = Len(turns)
  BY DEF IInv, Shape, Ids
<1>1. CASE CreateThread
  <2>1. /\ UNCHANGED <<turns, task>> /\ StartThread
        /\ selected' = selected \/ (selected' = Len(source) + 1 /\ \A t \in Ids : task[t].at = "gone")
    BY <1>1 DEF CreateThread, Switchable
  <2>2. RowsStay /\ Ids' = Ids BY <2>1, ThreadStarts DEF RowsStay, Ids
  <2>3. Len(source) + 1 \in Threads' BY <2>1, ThreadStarts
  <2> QED BY <2>1, <2>2, <2>3, PlacedKept
<1>2. ASSUME NEW th \in Threads, SwitchThread(th)
      PROVE  RowsStay /\ Placed'
  <2>1. /\ UNCHANGED <<turns, source, task>> /\ selected' = th
        /\ \A t \in Ids : task'[t].at = "gone"
    BY <1>2 DEF SwitchThread, Switchable, rows
  <2>2. RowsStay /\ Ids' = Ids /\ Threads' = Threads BY <2>1 DEF RowsStay, Ids, Threads
  <2> QED BY <2>1, <2>2, PlacedKept
<1>3. CASE \/ \E th \in Threads : Rename(th)
           \/ \E m \in memories : Forget(m)
           \/ \E t \in Ids : Propose(t) \/ StartCommit(t)
           \/ \E p \in commit.mem : CommitMemory(p)
           \/ \E p \in commit.aff : CommitAffinity(p)
           \/ Fence \/ CommitLinks
  <2>1. /\ UNCHANGED <<turns, selected, task>>
        /\ source' = source \/ \E th \in Threads : source' = [source EXCEPT ![th] = "manual"]
    BY <1>3 DEF Rename, Forget, Propose, StartCommit, CommitMemory, CommitAffinity, Fence, CommitLinks,
         rows
  <2>2. Threads' = Threads BY <2>1, ThreadsStay
  <2>3. RowsStay /\ Ids' = Ids BY <2>1, <2>2 DEF RowsStay, Ids
  <2> QED BY <2>1, <2>3, PlacedKept
<1>4. CASE Restart
  <2>1. /\ turns' = turns /\ StartThread /\ selected' = Len(source) + 1
        /\ \A t \in Ids : task'[t].at = "gone"
    BY <1>4 DEF Restart, NoTask
  <2>2. RowsStay /\ Ids' = Ids /\ selected' \in Threads' BY <2>1, ThreadStarts DEF RowsStay, Ids
  <2> QED BY <2>1, <2>2, PlacedKept
<1>5. CASE CommitFails
  <2>1. UNCHANGED <<turns, selected, source>> /\ task' = [task EXCEPT ![commit.turn].at = "gone"]
    BY <1>5 DEF CommitFails, rows
  <2>2. RowsStay /\ Ids' = Ids BY <2>1 DEF RowsStay, Ids, Threads
  <2>3. \A t \in Ids : task'[t].at # "gone" => task[t].at # "gone" BY <1>0, <2>1
  <2> QED BY <2>1, <2>2, <2>3, PlacedKept
<1>6. ASSUME NEW s \in Enriched, BeginTurn(s)
      PROVE  RowsStay /\ Placed'
  <2> DEFINE n == Len(turns) + 1
             r == [NewTurn(s) EXCEPT !.roles = @ \cup {"user"}]
  <2>1. /\ UNCHANGED <<selected, source>> /\ turns' = Inserted(Append(turns, NewTurn(s)), n, "user")
        /\ task' = Append(task, [at |-> "running", gen |-> gen, chunk |-> {}])
    BY <1>6 DEF BeginTurn
  <2>2. r.thread = selected BY DEF NewTurn
  <2>3. PICK q : q = NewTurn(s) OBVIOUS
  <2>4. q \in RowType
    <3>1. selected \in Nat /\ s \in SUBSET Memory BY DEF IInv, Shape, Enriched, Retrievals
    <3> QED BY <2>3, <3>1 DEF NewTurn, RowType
  <2>5. PICK base : base = Append(turns, q) OBVIOUS
  <2>6. DOMAIN base = 1..n /\ base[n] = q /\ \A u \in Ids : base[u] = turns[u]
    BY <1>0, <2>4, <2>5
  <2>7. turns' = [base EXCEPT ![n] = r]
    <3>1. turns' = [base EXCEPT ![n].roles = @ \cup {"user"}] BY <2>1, <2>3, <2>5 DEF Inserted
    <3>2. r = [q EXCEPT !.roles = @ \cup {"user"}] BY <2>3
    <3> HIDE DEF r
    <3> QED BY <2>6, <3>1, <3>2
  <2> HIDE DEF r
  <2>8. Ids' = Ids \cup {n} /\ n \notin Ids
    BY <1>0, <2>6, <2>7 DEF Ids
  <2>9. turns'[n] = r /\ \A u \in Ids : turns'[u] = turns[u] /\ task'[u] = task[u]
    BY <1>0, <2>1, <2>6, <2>7, <2>8
  <2>10. Threads' = Threads BY <2>1 DEF Threads
  <2> QED BY <2>1, <2>2, <2>8, <2>9, <2>10 DEF RowsStay, Placed
<1>7. ASSUME NEW t \in Ids, Deliver(t) \/ Discard(t)
      PROVE  RowsStay /\ Placed'
  <2>1. /\ UNCHANGED <<selected, source>>
        /\ task' = task \/ task' = [task EXCEPT ![t] = NoTask]
        /\ \/ turns' = [turns EXCEPT ![t] = [turns[t] EXCEPT !.roles = @ \cup {"assistant"}]]
           \/ turns' = [turns EXCEPT ![t] = [turns[t] EXCEPT !.status = "cancelled"]]
    BY <1>7 DEF Deliver, Discard, AssistantText, Inserted, Cancelled
  <2>2. /\ [turns[t] EXCEPT !.roles = @ \cup {"assistant"}].thread = turns[t].thread
        /\ [turns[t] EXCEPT !.status = "cancelled"].thread = turns[t].thread
    <3>1. turns[t] \in RowType BY <1>0
    <3> QED BY <3>1 DEF RowType
  <2>3. RowsStay /\ Ids' = Ids BY <2>1, <2>2, EditedRowStays DEF RowsStay, Threads
  <2>4. \A u \in Ids : task'[u].at # "gone" => task[u].at # "gone"
    <3>1. NoTask.at = "gone" /\ DOMAIN task = Ids BY <1>0 DEF NoTask
    <3> QED BY <2>1, <3>1
  <2> QED BY <2>1, <2>3, <2>4, PlacedKept
<1>8. CASE CommitTurn
  <2>0. PICK t : t = commit.turn OBVIOUS
  <2>1. t \in Ids /\ task[t].at = "running"
    BY <1>8, <2>0 DEF CommitTurn, IInv, CommitOpen, NoCommit, Answering
  <2>2. /\ UNCHANGED <<selected, source>> /\ turns' = [turns EXCEPT ![t].status = "complete"]
        /\ \A u \in Ids : u # t => task'[u] = task[u]
    BY <1>0, <1>8, <2>0, <2>1 DEF CommitTurn
  <2>3. turns' = [turns EXCEPT ![t] = [turns[t] EXCEPT !.status = "complete"]] BY <2>2
  <2>4. [turns[t] EXCEPT !.status = "complete"].thread = turns[t].thread
    <3>1. turns[t] \in RowType BY <1>0, <2>1
    <3> QED BY <3>1 DEF RowType
  <2>5. RowsStay /\ Ids' = Ids BY <2>1, <2>2, <2>3, <2>4, EditedRowStays DEF RowsStay, Threads
  <2> QED BY <2>1, <2>2, <2>5, PlacedKept
<1>9. ASSUME NEW t \in Ids, TitleAnswered(t) \/ SummaryAnswered(t)
      PROVE  RowsStay /\ Placed'
  <2>1. /\ UNCHANGED <<selected, turns>> /\ task[t].at # "gone"
        /\ source' = source \/ source' = [source EXCEPT ![turns[t].thread] = "generated"]
        /\ \A u \in Ids : u # t => task'[u] = task[u]
    BY <1>0, <1>9 DEF TitleAnswered, WriteTitle, SummaryAnswered
  <2>2. Threads' = Threads BY <2>1, ThreadsStay
  <2>3. RowsStay /\ Ids' = Ids BY <2>1, <2>2 DEF RowsStay, Ids
  <2> QED BY <2>1, <2>3, PlacedKept
<1> QED BY <1>1, <1>2, <1>3, <1>4, <1>5, <1>6, <1>7, <1>8, <1>9 DEF Next
-----------------------------------------------------------------------------
(* The affinity.                                                           *)

\* The affinity is what its events add up to, of which each turn has one at most.
Added ==
  /\ IsFiniteSet(events) /\ affinity \in Int /\ AffinityExact

LEMMA NetNone == Net({}) = 0
<1>1. Steps({}, 1) = {} /\ Steps({}, -1) = {} BY DEF Steps
<1> QED BY <1>1, FS_EmptySet DEF Net

LEMMA StepsAdd ==
  ASSUME NEW es, IsFiniteSet(es), NEW p, p \notin es, NEW d
  PROVE  /\ Cardinality(Steps(es, d)) \in Nat
         /\ Cardinality(Steps(es \cup {p}, d)) =
              Cardinality(Steps(es, d)) + (IF p.delta = d THEN 1 ELSE 0)
<1>1. IsFiniteSet(Steps(es, d)) /\ Cardinality(Steps(es, d)) \in Nat /\ p \notin Steps(es, d)
  BY FS_Subset, FS_CardinalityType DEF Steps
<1>2. CASE p.delta = d
  <2>1. Steps(es \cup {p}, d) = Steps(es, d) \cup {p} BY <1>2 DEF Steps
  <2> QED BY <1>1, <1>2, <2>1, FS_AddElement
<1>3. CASE p.delta # d
  <2>1. Steps(es \cup {p}, d) = Steps(es, d) BY <1>3 DEF Steps
  <2> QED BY <1>1, <1>3, <2>1
<1> QED BY <1>2, <1>3

LEMMA NetAdds ==
  ASSUME NEW es \in SUBSET Delta, IsFiniteSet(es), NEW p \in Delta, p \notin es
  PROVE  Net(es) \in Int /\ Net(es \cup {p}) = Net(es) + p.delta
<1>1. p.delta \in {-1, 1} BY DEF Delta
<1>2. /\ Cardinality(Steps(es, 1)) \in Nat /\ Cardinality(Steps(es, -1)) \in Nat
      /\ Cardinality(Steps(es \cup {p}, 1)) =
           Cardinality(Steps(es, 1)) + (IF p.delta = 1 THEN 1 ELSE 0)
      /\ Cardinality(Steps(es \cup {p}, -1)) =
           Cardinality(Steps(es, -1)) + (IF p.delta = -1 THEN 1 ELSE 0)
  BY StepsAdd
<1> QED BY <1>1, <1>2 DEF Net

\* Rows that stay in their threads leave the sums of the threads alone.
LEMMA AddedKept ==
  ASSUME IInv, Added, Placed, RowsStay, UNCHANGED <<events, affinity>>
  PROVE  Added'
<1>1. \A e \in events : e.turn \in Ids /\ turns'[e.turn].thread = turns[e.turn].thread
  BY DEF IInv, MemoriesEarned, Vouched, RowsStay
<1>2. \A th : Moved(th, events)' = Moved(th, events)
  BY <1>1 DEF Moved
<1>3. \A th : th \notin Threads => Moved(th, events) = 0
  <2>1. \A th : th \notin Threads => {e \in events : turns[e.turn].thread = th} = {}
    BY <1>1 DEF Placed
  <2> QED BY <2>1, NetNone DEF Moved
<1>4. Abs(0) <= SessionLimit BY MemoryBounds DEF Abs
<1>5. \A th \in Threads' : Abs(Moved(th, events)') <= SessionLimit
  BY <1>2, <1>3, <1>4 DEF Added, AffinityExact
<1> QED BY <1>5 DEF Added, AffinityExact

LEMMA AddedStep ==
  ASSUME IInv, Titled, Placed, Added, NEW p \in commit.aff, CommitAffinity(p)
  PROVE  Added'
<1>0. p \in Delta /\ events \in SUBSET Delta BY DEF IInv, Shape, CommitType
<1>1. UNCHANGED <<turns, source>> BY DEF CommitAffinity
<1>2. CASE ~Allowed(p)
  BY <1>1, <1>2, AddedKept DEF CommitAffinity, RowsStay, Ids, Threads
<1>3. CASE Allowed(p)
  <2>1. affinity' = affinity + p.delta /\ events' = events \cup {p} BY <1>3 DEF CommitAffinity
  <2>2. p \notin events /\ \A e \in events : e.turn # p.turn BY <1>3 DEF Allowed
  <2>3. IsFiniteSet(events') /\ p.delta \in {-1, 1}
    BY <1>0, <2>1, FS_AddElement DEF Added, Delta
  <2>4. affinity' = StartAffinity + Net(events')
    <3>1. IsFiniteSet(events) /\ affinity = StartAffinity + Net(events) BY DEF Added, AffinityExact
    <3>2. Net(events) \in Int /\ Net(events \cup {p}) = Net(events) + p.delta
      BY <1>0, <2>2, <3>1, NetAdds
    <3>3. StartAffinity \in Int BY MemoryBounds
    <3> QED BY <2>1, <2>3, <3>1, <3>2, <3>3
  <2>5. ASSUME NEW th \in Threads
        PROVE  Abs(Moved(th, events)') <= SessionLimit
    <3> DEFINE es == {e \in events : turns[e.turn].thread = th}
    <3>1. es \in SUBSET Delta /\ IsFiniteSet(es) /\ p \notin es
      BY <1>0, <2>2, FS_Subset DEF Added
    <3>2. CASE turns[p.turn].thread = th
      <4>1. {e \in events' : turns'[e.turn].thread = th} = es \cup {p} BY <1>1, <2>1, <3>2
      <4>2. Abs(Net(es) + p.delta) <= SessionLimit BY <1>3, <3>2 DEF Allowed, Moved
      <4> HIDE DEF es
      <4>3. Net(es \cup {p}) = Net(es) + p.delta BY <1>0, <3>1, NetAdds
      <4> QED BY <4>1, <4>2, <4>3 DEF Moved
    <3>3. CASE turns[p.turn].thread # th
      <4>1. {e \in events' : turns'[e.turn].thread = th} = es BY <1>1, <2>1, <3>3
      <4> QED BY <4>1 DEF Moved, Added, AffinityExact
    <3> QED BY <3>2, <3>3
  <2>6. Threads' = Threads BY <1>1 DEF Threads
  <2>7. \A e, f \in events' : e.turn = f.turn => e = f BY <2>1, <2>2 DEF Added, AffinityExact
  <2>8. affinity' \in Int BY <2>1, <2>3 DEF Added
  <2> QED BY <2>3, <2>4, <2>5, <2>6, <2>7, <2>8 DEF Added, AffinityExact
<1> QED BY <1>2, <1>3
-----------------------------------------------------------------------------
(* The summaries.  First what Oldest picks of a set.                       *)

\* A non-empty set of natural numbers has a least element: proofs by induction take
\* the least counterexample.
LEMMA LeastElement ==
  ASSUME NEW T \in SUBSET Nat, T # {}
  PROVE  \E n \in T : \A m \in T : n <= m
<1> DEFINE R == OpToRel(<, Nat)
<1>1. IsWellFoundedOn(R, Nat) BY NatLessThanWellFounded
<1>2. \A x, y \in Nat : y < x => <<y, x>> \in R BY DEF OpToRel
<1> HIDE DEF R
<1>3. PICK n \in T : \A m \in T : ~(<<m, n>> \in R) BY <1>1, WFMin
<1>4. ASSUME NEW m \in T PROVE n <= m
  <2>1. n \in Nat /\ m \in Nat OBVIOUS
  <2>2. ~(m < n) BY <1>2, <1>3, <2>1
  <2> QED BY <2>1, <2>2
<1> QED BY <1>3, <1>4

\* The members of a set below a bound, and its first k.
Below(S, t) == {u \in S : u < t}
First(S, k) == {t \in S : Cardinality(Below(S, t)) < k}

LEMMA BelowGrows ==
  ASSUME NEW S \in SUBSET Nat, IsFiniteSet(S), NEW t \in Nat, NEW u \in Nat, t <= u
  PROVE  /\ Cardinality(Below(S, t)) \in Nat /\ Cardinality(Below(S, u)) \in Nat
         /\ Cardinality(Below(S, t)) <= Cardinality(Below(S, u))
         /\ t < u /\ t \in S => Cardinality(Below(S, t)) + 1 <= Cardinality(Below(S, u))
<1>1. IsFiniteSet(Below(S, u)) /\ IsFiniteSet(Below(S, t)) /\ t \notin Below(S, t)
  BY FS_Subset DEF Below
<1>0. \A x \in S : x < t => x < u
  <2> TAKE x \in S
  <2>1. x \in Nat OBVIOUS
  <2> QED BY <2>1
<1>2. Below(S, t) \subseteq Below(S, u) BY <1>0 DEF Below
<1>3. t < u /\ t \in S => Below(S, t) \cup {t} \subseteq Below(S, u) BY <1>0 DEF Below
<1>4. Cardinality(Below(S, t) \cup {t}) = Cardinality(Below(S, t)) + 1 BY <1>1, FS_AddElement
<1>5. Cardinality(Below(S, t)) \in Nat /\ Cardinality(Below(S, u)) \in Nat
  BY <1>1, FS_CardinalityType
<1>6. Cardinality(Below(S, t)) <= Cardinality(Below(S, u)) BY <1>1, <1>2, FS_Subset
<1>7. ASSUME t < u, t \in S
      PROVE  Cardinality(Below(S, t)) + 1 <= Cardinality(Below(S, u))
  BY <1>1, <1>3, <1>4, <1>7, FS_Subset
<1> QED BY <1>5, <1>6, <1>7

\* A smaller element comes first.
LEMMA FirstDown ==
  ASSUME NEW S \in SUBSET Nat, IsFiniteSet(S), NEW k \in Nat, NEW u \in First(S, k),
         NEW t \in S, t <= u
  PROVE  t \in First(S, k)
<1>1. t \in Nat /\ u \in Nat /\ Cardinality(Below(S, u)) < k BY DEF First
<1>2. Cardinality(Below(S, t)) <= Cardinality(Below(S, u)) /\ Cardinality(Below(S, t)) \in Nat
      /\ Cardinality(Below(S, u)) \in Nat
  BY <1>1, BelowGrows
<1> QED BY <1>1, <1>2 DEF First

\* One element more is first when there is one.
LEMMA OneMore ==
  ASSUME NEW S \in SUBSET Nat, IsFiniteSet(S), NEW j \in Nat, Cardinality(First(S, j)) = j,
         j < Cardinality(S)
  PROVE  Cardinality(First(S, j + 1)) = j + 1
<1> DEFINE F == First(S, j)
           Rest == S \ F
<1>1. F \in SUBSET S /\ IsFiniteSet(F) /\ F # S /\ Rest \in SUBSET Nat /\ Rest # {}
  <2>1. F \in SUBSET S BY DEF First
  <2> HIDE DEF F
  <2>2. IsFiniteSet(F) BY <2>1, FS_Subset
  <2>3. F # S BY DEF F
  <2> QED BY <2>1, <2>2, <2>3
<1>2. PICK m \in Rest : \A x \in Rest : m <= x
  <2> HIDE DEF Rest
  <2> QED BY <1>1, LeastElement
<1>3. m \in Nat /\ m \in S /\ m \notin F BY <1>1
<1>4. Below(S, m) = F
  <2>1. ASSUME NEW u \in Below(S, m) PROVE u \in F
    <3>1. u \in S /\ u \in Nat /\ u < m BY DEF Below
    <3>2. u \notin Rest BY <1>2, <1>3, <3>1
    <3> QED BY <3>1, <3>2
  <2>2. ASSUME NEW u \in F PROVE u \in Below(S, m)
    <3>1. u \in S /\ u \in Nat BY <1>1
    <3>2. ~(m <= u) BY <1>3, <2>2, FirstDown
    <3> QED BY <1>3, <3>1, <3>2 DEF Below
  <2> QED BY <2>1, <2>2
<1>5. Cardinality(Below(S, m)) = j BY <1>4
<1>6. First(S, j + 1) = F \cup {m}
  <2>1. m \in First(S, j + 1) BY <1>3, <1>5 DEF First
  <2>2. ASSUME NEW t \in S
        PROVE  t \in First(S, j + 1) <=> t \in F \/ t = m
    <3>1. t \in Nat /\ Cardinality(Below(S, t)) \in Nat BY BelowGrows
    <3>2. CASE t \in F BY <3>1, <3>2 DEF First
    <3>3. CASE t = m BY <2>1, <3>3
    <3>4. CASE t \notin F /\ t # m
      <4>1. m < t BY <1>2, <1>3, <3>1, <3>4
      <4>2. Cardinality(Below(S, m)) + 1 <= Cardinality(Below(S, t)) BY <1>3, <3>1, <4>1, BelowGrows
      <4> QED BY <1>5, <3>1, <3>4, <4>2 DEF First
    <3> QED BY <3>2, <3>3, <3>4
  <2>3. First(S, j + 1) \subseteq S BY DEF First
  <2> HIDE DEF F
  <2> QED BY <1>1, <1>3, <2>2, <2>3
<1>7. Cardinality(F) = j OBVIOUS
<1> HIDE DEF F
<1>8. Cardinality(F \cup {m}) = Cardinality(F) + 1 BY <1>1, <1>3, FS_AddElement
<1> QED BY <1>6, <1>7, <1>8

LEMMA FirstSize ==
  ASSUME NEW S \in SUBSET Nat, IsFiniteSet(S)
  PROVE  \A k \in Nat : k <= Cardinality(S) => Cardinality(First(S, k)) = k
<1> DEFINE Bad == {k \in Nat : k <= Cardinality(S) /\ Cardinality(First(S, k)) # k}
<1> SUFFICES ASSUME Bad # {} PROVE FALSE OBVIOUS
<1>0. Cardinality(S) \in Nat BY FS_CardinalityType
<1>1. PICK k \in Bad : \A m \in Bad : k <= m
  <2>1. Bad \in SUBSET Nat OBVIOUS
  <2> HIDE DEF Bad
  <2> QED BY <2>1, LeastElement
<1>2. k \in Nat /\ k <= Cardinality(S) /\ Cardinality(First(S, k)) # k OBVIOUS
<1>3. CASE k = 0
  <2>1. \A t \in S : Cardinality(Below(S, t)) \in Nat
    <3> TAKE t \in S
    <3> QED BY BelowGrows
  <2>2. First(S, 0) = {}
    <3>1. \A t \in S : ~(Cardinality(Below(S, t)) < 0) BY <2>1
    <3> QED BY <3>1 DEF First
  <2> QED BY <1>2, <1>3, <2>2, FS_EmptySet
<1>4. CASE k # 0
  <2>1. k - 1 \in Nat /\ k - 1 \notin Bad /\ k - 1 < Cardinality(S) BY <1>0, <1>1, <1>2, <1>4
  <2>2. Cardinality(First(S, k - 1)) = k - 1 BY <1>0, <1>2, <2>1
  <2>3. Cardinality(First(S, (k - 1) + 1)) = (k - 1) + 1
    <3> HIDE DEF Bad
    <3> QED BY <2>1, <2>2, OneMore
  <2>4. (k - 1) + 1 = k BY <1>2
  <2> QED BY <1>2, <2>3, <2>4
<1> QED BY <1>3, <1>4

LEMMA Largest ==
  ASSUME NEW n \in Nat, NEW S \in SUBSET (0..n), S # {}
  PROVE  Max(S) \in S /\ \A y \in S : y <= Max(S)
<1> DEFINE Bounds == {x \in Nat : \A y \in S : y <= x}
<1>1. Bounds \in SUBSET Nat /\ n \in Bounds OBVIOUS
<1>2. PICK b \in Bounds : \A x \in Bounds : b <= x
  <2> HIDE DEF Bounds
  <2> QED BY <1>1, LeastElement
<1>3. b \in Nat /\ \A y \in S : y <= b /\ y \in Nat OBVIOUS
<1>4. b \in S
  <2> SUFFICES ASSUME b \notin S PROVE FALSE OBVIOUS
  <2>1. \A y \in S : y < b BY <1>3
  <2>2. b - 1 \in Nat
    <3>1. PICK y \in S : TRUE OBVIOUS
    <3>2. y \in Nat /\ y < b BY <1>3, <2>1
    <3> QED BY <1>3, <3>2
  <2>3. b - 1 \in Bounds BY <1>3, <2>1, <2>2
  <2> QED BY <1>2, <1>3, <2>3
<1>5. \E m \in S : \A y \in S : m >= y BY <1>3, <1>4
<1>6. Max(S) \in S /\ \A y \in S : Max(S) >= y BY <1>5 DEF Max
<1> QED BY <1>3, <1>6
-----------------------------------------------------------------------------
(* The summaries and the tasks that write them.                            *)

\* What of a set does not come before all of a chunk.
From(S, chunk) == {u \in S : \E c \in chunk : c <= u}

\* A task's chunk is of complete turns.  As long as none of it is summarized, what is
\* left from it on is more than the window, whatever completes before it meanwhile.
Chunked(th, chunk) ==
  /\ chunk \subseteq CompleteIn(turns, th) /\ chunk # {}
  /\ chunk \subseteq Unsummarized(turns, th) =>
       Cardinality(From(Unsummarized(turns, th), chunk)) > Window

\* What SummaryExact says of a thread; a summary ends with one of its turns.
ThreadSummed(th) ==
  /\ covered[th] \subseteq CompleteIn(turns, th) /\ \A t \in covered[th] : t <= summary[th].end
  /\ \A t \in CompleteIn(turns, th) \ LeftBehind(th) : t <= summary[th].end => t \in covered[th]
  /\ summary[th].count = Cardinality(covered[th])
  /\ summary[th].count > 0 => Cardinality(Unsummarized(turns, th)) > Window - Chunk
  /\ summary[th].end \in covered[th] \cup {0}

\* Every thread's summary, and the chunks that tasks hold on to during their await.
Summed ==
  /\ summary \in Seq([end : Nat, count : Nat]) /\ covered \in Seq(SUBSET Nat)
  /\ Len(summary) = Len(source) /\ Len(covered) = Len(source)
  /\ \A th \in Threads : ThreadSummed(th)
  /\ \A t \in Ids : task[t].at = "summing" => Chunked(turns[t].thread, task[t].chunk)

LEMMA CompleteSets ==
  ASSUME IInv, NEW th
  PROVE  /\ CompleteIn(turns, th) \in SUBSET (1..Len(turns)) /\ IsFiniteSet(CompleteIn(turns, th))
         /\ CompleteIn(turns, th) \in SUBSET Nat
         /\ Unsummarized(turns, th) \in SUBSET Nat /\ IsFiniteSet(Unsummarized(turns, th))
         /\ Cardinality(Unsummarized(turns, th)) \in Nat
<1>1. Len(turns) \in Nat /\ Ids = 1..Len(turns) BY DEF IInv, Shape, Ids
<1>2. CompleteIn(turns, th) \in SUBSET (1..Len(turns)) BY <1>1 DEF CompleteIn, Ids
<1>3. IsFiniteSet(1..Len(turns)) BY <1>1, FS_Interval
<1>4. IsFiniteSet(CompleteIn(turns, th)) BY <1>2, <1>3, FS_Subset
<1>5. Unsummarized(turns, th) \subseteq CompleteIn(turns, th) BY DEF Unsummarized
<1>6. CompleteIn(turns, th) \in SUBSET Nat BY <1>1, <1>2
<1> QED BY <1>2, <1>4, <1>5, <1>6, FS_Subset, FS_CardinalityType

LEMMA DisjointSizes ==
  ASSUME NEW S, NEW T, IsFiniteSet(S), IsFiniteSet(T), S \cap T = {}
  PROVE  /\ Cardinality(S \cup T) = Cardinality(S) + Cardinality(T)
         /\ Cardinality(S) \in Nat /\ Cardinality(T) \in Nat
<1>1. Cardinality(S \cup T) = Cardinality(S) + Cardinality(T) - Cardinality(S \cap T) BY FS_Union
<1>2. Cardinality(S) \in Nat /\ Cardinality(T) \in Nat BY FS_CardinalityType
<1>3. Cardinality(S \cap T) = 0 BY FS_EmptySet
<1> QED BY <1>1, <1>2, <1>3

LEMMA OldestIsFirst ==
  ASSUME NEW S
  PROVE  Oldest(S) = First(S, Chunk)
BY DEF Oldest, First, Below

\* A turn left behind stays so.
LEMMA LeftBehindGrows ==
  ASSUME NEW th, \A t \in CompleteIn(turns, th) : t \in CompleteIn(turns, th)',
         covered[th] \subseteq covered'[th], Ids \subseteq Ids', peers \subseteq peers'
  PROVE  LeftBehind(th) \subseteq LeftBehind(th)'
<1> SUFFICES ASSUME NEW t \in LeftBehind(th) PROVE t \in LeftBehind(th)' OBVIOUS
<1>1. t \in CompleteIn(turns, th)' BY DEF LeftBehind
<1>2. PICK u \in covered[th] : t < u /\ u \in Peers(t) BY DEF LeftBehind
<1>3. u \in covered'[th] /\ u \in Peers(t)' BY <1>2 DEF Peers
<1> QED BY <1>1, <1>2, <1>3 DEF LeftBehind

\* A thread whose summary stays, and in which at most one turn completes, whose younger
\* ones are its peers.
LEMMA ThreadKept ==
  ASSUME IInv, NEW th, ThreadSummed(th), summary'[th] = summary[th], covered'[th] = covered[th],
         Ids \subseteq Ids', peers \subseteq peers', NEW n \in Nat,
         \/ CompleteIn(turns, th)' = CompleteIn(turns, th)
         \/ /\ CompleteIn(turns, th)' = CompleteIn(turns, th) \cup {n}
            /\ n \notin CompleteIn(turns, th) /\ n # 0
            /\ \A u \in Ids : n < u => u \in Peers(n)
  PROVE  ThreadSummed(th)' /\ \A chunk : Chunked(th, chunk) => Chunked(th, chunk)'
<1>1. PICK C, D, U, V, e, K :
        /\ C = CompleteIn(turns, th) /\ D = CompleteIn(turns, th)' /\ e = summary[th].end
        /\ U = Unsummarized(turns, th) /\ V = Unsummarized(turns, th)' /\ K = covered[th]
  OBVIOUS
<1>2. U = {t \in C : t > e} /\ V = {t \in D : t > e} BY <1>1 DEF Unsummarized, Coverage
<1>3. /\ C \in SUBSET (1..Len(turns)) /\ Len(turns) \in Nat /\ Ids = 1..Len(turns)
      /\ U \in SUBSET Nat /\ IsFiniteSet(U) /\ Cardinality(U) \in Nat
  BY <1>1, CompleteSets DEF IInv, Shape, Ids
<1>4. C \subseteq D /\ D \subseteq C \cup {n} BY <1>1
<1>5. U \subseteq V /\ IsFiniteSet(V) /\ Cardinality(V) \in Nat /\ V \in SUBSET Nat
  <2>1. V \in SUBSET (U \cup {n}) BY <1>2, <1>4
  <2>2. IsFiniteSet(U \cup {n}) BY <1>3, FS_AddElement
  <2>3. IsFiniteSet(V) /\ Cardinality(V) \in Nat BY <2>1, <2>2, FS_Subset, FS_CardinalityType
  <2> QED BY <1>2, <1>3, <1>4, <2>1, <2>3
<1>6. /\ K \subseteq C /\ \A t \in K : t <= e
      /\ \A t \in C \ LeftBehind(th) : t <= e => t \in K
      /\ summary[th].count = Cardinality(K)
      /\ summary[th].count > 0 => Cardinality(U) > Window - Chunk
      /\ e \in K \cup {0}
  BY <1>1 DEF ThreadSummed
<1>7. LeftBehind(th) \subseteq LeftBehind(th)' BY <1>1, <1>4, LeftBehindGrows
<1>8. ThreadSummed(th)'
  <2>1. ASSUME NEW t \in D, t \notin LeftBehind(th)', t <= e
        PROVE  t \in K
    <3>1. CASE t \in C BY <1>6, <1>7, <2>1, <3>1
    <3>2. CASE t \notin C
      <4>1. /\ t = n /\ n \notin C /\ n # 0
            /\ \A u \in Ids : n < u => u \in Peers(n)
        BY <1>1, <1>4, <3>2
      <4>2. e \in K /\ n < e
        <5>1. e # 0 BY <2>1, <4>1, <1>6
        <5>2. e \in K /\ e \in C BY <1>6, <5>1
        <5>3. e \in Nat BY <1>3, <5>2
        <5> QED BY <2>1, <4>1, <5>2, <5>3
      <4>3. e \in Peers(n) BY <1>3, <1>6, <4>1, <4>2
      <4>4. e \in Peers(n)' BY <4>3 DEF Peers
      <4>5. e \in covered'[th] BY <1>1, <4>2
      <4>6. t \in LeftBehind(th)' BY <1>1, <4>1, <4>2, <4>4, <4>5 DEF LeftBehind
      <4> QED BY <2>1, <4>6
    <3> QED BY <3>1, <3>2
  <2>2. Cardinality(U) <= Cardinality(V) BY <1>5, FS_Subset
  <2>3. summary[th].count > 0 => Cardinality(V) > Window - Chunk
    BY <1>3, <1>5, <1>6, <2>2, MemoryBounds
  <2>4. K \subseteq D BY <1>4, <1>6
  <2> QED BY <1>1, <1>6, <2>1, <2>3, <2>4 DEF ThreadSummed
<1>9. ASSUME NEW chunk, Chunked(th, chunk)
      PROVE  Chunked(th, chunk)'
  <2>1. chunk \subseteq C /\ chunk # {} /\ chunk \subseteq D BY <1>1, <1>4, <1>9 DEF Chunked
  <2>2. ASSUME chunk \subseteq V
        PROVE  Cardinality(From(V, chunk)) > Window
    <3>1. chunk \subseteq U BY <1>2, <2>1, <2>2
    <3>2. Cardinality(From(U, chunk)) > Window BY <1>1, <1>9, <3>1 DEF Chunked
    <3>3. From(U, chunk) \in SUBSET From(V, chunk) /\ From(V, chunk) \in SUBSET V BY <1>5 DEF From
    <3>4. IsFiniteSet(From(V, chunk)) BY <1>5, <3>3, FS_Subset
    <3>5. Cardinality(From(U, chunk)) <= Cardinality(From(V, chunk)) /\ IsFiniteSet(From(U, chunk))
      BY <3>3, <3>4, FS_Subset
    <3>6. Cardinality(From(U, chunk)) \in Nat /\ Cardinality(From(V, chunk)) \in Nat
      BY <3>4, <3>5, FS_CardinalityType
    <3> QED BY <3>2, <3>5, <3>6, MemoryBounds
  <2>3. From(Unsummarized(turns, th), chunk)' = From(V, chunk) BY <1>1 DEF From
  <2> QED BY <1>1, <2>1, <2>2, <2>3 DEF Chunked
<1> QED BY <1>8, <1>9

\* The chunk a task takes up is not empty when there is more than the window.
LEMMA ChunkIs ==
  ASSUME NEW S \in SUBSET Nat, IsFiniteSet(S), Cardinality(S) > Window
  PROVE  /\ Oldest(S) \subseteq S /\ Oldest(S) # {} /\ Cardinality(Oldest(S)) = Chunk
         /\ IsFiniteSet(Oldest(S)) /\ From(S, Oldest(S)) = S
<1>1. Cardinality(S) \in Nat /\ Chunk \in Nat /\ Chunk # 0 /\ Chunk <= Cardinality(S)
  BY FS_CardinalityType, MemoryBounds
<1>2. Cardinality(First(S, Chunk)) = Chunk BY <1>1, FirstSize
<1>3. First(S, Chunk) \in SUBSET S BY DEF First
<1>4. IsFiniteSet(First(S, Chunk)) BY <1>3, FS_Subset
<1>5. First(S, Chunk) # {} BY <1>1, <1>2, FS_EmptySet
<1>6. From(S, First(S, Chunk)) = S
  <2>1. PICK c \in First(S, Chunk) : TRUE BY <1>5
  <2>2. ASSUME NEW u \in S PROVE \E d \in First(S, Chunk) : d <= u
    <3>1. CASE c <= u BY <3>1
    <3>2. CASE ~(c <= u)
      <4>1. u \in Nat /\ c \in Nat BY <1>3, <2>1
      <4>2. u <= c BY <3>2, <4>1
      <4>3. u \in First(S, Chunk) BY <1>1, <2>1, <4>2, FirstDown
      <4>4. u <= u BY <4>1
      <4> QED BY <4>3, <4>4
    <3> QED BY <3>1, <3>2
  <2> QED BY <2>2 DEF From
<1> QED BY <1>2, <1>3, <1>4, <1>5, <1>6, OldestIsFirst

\* A chunk is absorbed: every turn up to its last one is summarized now, and enough
\* remain verbatim.  No other task can absorb any of it again.
LEMMA ThreadAdvances ==
  ASSUME IInv, NEW th, ThreadSummed(th), summary[th] \in [end : Nat, count : Nat],
         NEW chunk, Chunked(th, chunk), Continuous(th, chunk), turns' = turns, peers' = peers,
         summary'[th] = [end |-> Max(chunk), count |-> summary[th].count + Chunk],
         covered'[th] = covered[th] \cup chunk
  PROVE  /\ ThreadSummed(th)' /\ \A c : Chunked(th, c) => Chunked(th, c)'
         /\ summary'[th] \in [end : Nat, count : Nat] /\ covered'[th] \in SUBSET Nat
<1>1. PICK C, U, V, e, m :
        /\ C = CompleteIn(turns, th) /\ e = summary[th].end /\ m = Max(chunk)
        /\ U = Unsummarized(turns, th) /\ V = Unsummarized(turns, th)'
  OBVIOUS
<1>2. /\ U = {t \in C : t > e} /\ CompleteIn(turns, th)' = C /\ summary'[th].end = m
      /\ V = {t \in C : t > m}
  BY <1>1 DEF Unsummarized, Coverage, CompleteIn
<1>3. PICK n : n = Len(turns) OBVIOUS
<1>4. /\ n \in Nat /\ C \in SUBSET (1..n) /\ IsFiniteSet(C) /\ e \in Nat
      /\ U \in SUBSET Nat /\ IsFiniteSet(U) /\ Cardinality(U) \in Nat
  BY <1>1, <1>3, CompleteSets DEF IInv, Shape
<1>5. chunk = Oldest(U) /\ chunk \subseteq U /\ Cardinality(U) > Window
  <2>1. chunk = Oldest(U) BY <1>1 DEF Continuous
  <2>2. chunk \subseteq U BY <2>1 DEF Oldest
  <2>3. Cardinality(From(U, chunk)) > Window BY <1>1, <2>2 DEF Chunked
  <2>4. From(U, chunk) \in SUBSET U BY DEF From
  <2>5. /\ Cardinality(From(U, chunk)) <= Cardinality(U)
        /\ Cardinality(From(U, chunk)) \in Nat
    BY <1>4, <2>4, FS_Subset, FS_CardinalityType
  <2>6. Cardinality(U) > Window BY <1>4, <2>3, <2>5, MemoryBounds
  <2> QED BY <2>1, <2>2, <2>6
<1>6. chunk # {} /\ Cardinality(chunk) = Chunk /\ IsFiniteSet(chunk)
  BY <1>4, <1>5, ChunkIs
<1>7. /\ m \in chunk /\ \A y \in chunk : y <= m
  <2>1. \A y \in chunk : y \in 0..n BY <1>2, <1>4, <1>5
  <2>2. chunk \in SUBSET (0..n) BY <2>1
  <2> QED BY <1>1, <1>4, <1>6, <2>2, Largest
<1>8. /\ m \in Nat /\ m \in C /\ e < m /\ \A t \in C : t \in Nat
  BY <1>2, <1>4, <1>5, <1>7
<1>9. \A t \in U : t <= m <=> t \in chunk
  <2> TAKE t \in U
  <2>1. chunk = First(U, Chunk) BY <1>5, OldestIsFirst
  <2>2. t <= m => t \in chunk BY <1>4, <1>7, <2>1, MemoryBounds, FirstDown
  <2> QED BY <1>7, <2>2
<1>a. /\ covered[th] \subseteq C /\ \A t \in covered[th] : t <= e
      /\ \A t \in C \ LeftBehind(th) : t <= e => t \in covered[th]
      /\ summary[th].count = Cardinality(covered[th])
  BY <1>1 DEF ThreadSummed
<1>b. LeftBehind(th) \subseteq LeftBehind(th)'
  <2>1. Ids' = Ids /\ CompleteIn(turns, th)' = CompleteIn(turns, th) BY DEF Ids, CompleteIn
  <2> QED BY <2>1, LeftBehindGrows
<1>10. /\ covered'[th] \subseteq C /\ \A t \in covered'[th] : t <= m
       /\ \A t \in C \ LeftBehind(th)' : t <= m => t \in covered'[th]
  <2>1. chunk \subseteq C BY <1>2, <1>5
  <2>2. \A t \in covered[th] : t <= m
    <3>1. \A t \in covered[th] : t \in Nat /\ t <= e BY <1>8, <1>a
    <3> QED BY <1>4, <1>8, <3>1
  <2>3. ASSUME NEW t \in C \ LeftBehind(th)', t <= m PROVE t \in covered'[th]
    <3>1. t \in Nat BY <1>8
    <3>2. CASE t <= e BY <1>a, <1>b, <3>2
    <3>3. CASE ~(t <= e)
      <4>1. t \in U BY <1>2, <1>4, <3>1, <3>3
      <4> QED BY <1>9, <2>3, <4>1
    <3> QED BY <3>2, <3>3
  <2> QED BY <1>7, <1>a, <2>1, <2>2, <2>3
<1>11. Cardinality(covered'[th]) = summary[th].count + Chunk
  <2>1. covered[th] \subseteq C /\ summary[th].count = Cardinality(covered[th]) BY <1>a
  <2>2. IsFiniteSet(covered[th]) BY <1>4, <2>1, FS_Subset
  <2>3. covered[th] \cap chunk = {}
    <3>1. \A t \in chunk : t > e /\ t \in Nat BY <1>2, <1>4, <1>5
    <3>2. \A t \in chunk : ~(t <= e) BY <1>4, <3>1
    <3> QED BY <1>a, <3>2
  <2>4. Cardinality(covered[th] \cup chunk) = Cardinality(covered[th]) + Cardinality(chunk)
    BY <1>6, <2>2, <2>3, DisjointSizes
  <2> QED BY <1>6, <2>1, <2>4
<1>12. V \cap chunk = {} /\ U = V \cup chunk /\ V \subseteq U
  <2>1. \A t \in C : t > m <=> t > e /\ ~(t <= m) BY <1>4, <1>8
  <2>2. \A t : t \in V <=> t \in U /\ t \notin chunk
    <3> TAKE t
    <3>1. CASE t \in U BY <1>2, <1>9, <2>1, <3>1
    <3>2. CASE t \notin U BY <1>2, <2>1, <3>2
    <3> QED BY <3>1, <3>2
  <2> QED BY <1>5, <2>2
<1>13. Cardinality(V) > Window - Chunk
  <2>1. IsFiniteSet(V) BY <1>4, <1>12, FS_Subset
  <2>2. Cardinality(U) = Cardinality(V) + Cardinality(chunk) /\ Cardinality(V) \in Nat
    BY <1>6, <1>12, <2>1, DisjointSizes
  <2>3. Chunk \in Nat /\ Window \in Nat BY MemoryBounds
  <2> QED BY <1>4, <1>5, <1>6, <2>2, <2>3
<1>14. ThreadSummed(th)'
  <2>1. summary'[th].count = summary[th].count + Chunk OBVIOUS
  <2>2. m \in covered'[th] BY <1>7
  <2> QED BY <1>1, <1>2, <1>10, <1>11, <1>13, <2>1, <2>2 DEF ThreadSummed
<1>15. ASSUME NEW c, Chunked(th, c)
       PROVE  Chunked(th, c)'
  <2>1. c \subseteq C /\ c # {} BY <1>1, <1>15 DEF Chunked
  <2>2. ASSUME c \subseteq V PROVE Cardinality(From(V, c)) > Window
    <3>1. c \subseteq U BY <1>12, <2>2
    <3>2. Cardinality(From(U, c)) > Window BY <1>1, <1>15, <3>1 DEF Chunked
    <3>3. ASSUME NEW u \in U, NEW d \in c, d <= u PROVE u \in V
      <4>1. d > m /\ d \in Nat /\ u \in Nat /\ u \in C BY <1>2, <1>4, <2>2
      <4>2. u > m BY <1>8, <3>3, <4>1
      <4> QED BY <1>2, <4>1, <4>2
    <3>4. From(V, c) = From(U, c) BY <1>12, <3>3 DEF From
    <3> QED BY <3>2, <3>4
  <2>3. From(Unsummarized(turns, th), c)' = From(V, c) BY <1>1 DEF From
  <2> QED BY <1>1, <1>2, <2>1, <2>2, <2>3 DEF Chunked
<1>16. /\ summary'[th] \in [end : Nat, count : Nat] /\ covered'[th] \in SUBSET Nat
  <2>1. Chunk \in Nat /\ summary[th].count \in Nat BY MemoryBounds
  <2>2. summary[th].count + Chunk \in Nat BY <2>1
  <2>3. covered'[th] \subseteq Nat BY <1>8, <1>10
  <2> QED BY <1>1, <1>8, <2>2, <2>3
<1> QED BY <1>14, <1>15, <1>16
-----------------------------------------------------------------------------
\* The threads' summaries stay, and those of a new thread are empty.
SummariesStay ==
  /\ summary' \in Seq([end : Nat, count : Nat]) /\ covered' \in Seq(SUBSET Nat)
  /\ Len(summary') = Len(source') /\ Len(covered') = Len(source')
  /\ \A th \in Threads : summary'[th] = summary[th] /\ covered'[th] = covered[th]
  /\ \A th \in Threads' \ Threads : summary'[th] = NoSummary /\ covered'[th] = {}

LEMMA SummariesUnchanged ==
  ASSUME Titled, Summed, UNCHANGED <<summary, covered>>,
         source' = source \/ \E th, s : source' = [source EXCEPT ![th] = s]
  PROVE  SummariesStay
<1>1. Len(source') = Len(source) /\ Threads' = Threads
  <2>1. CASE source' = source BY <2>1 DEF Threads
  <2>2. ASSUME NEW th, NEW s, source' = [source EXCEPT ![th] = s]
        PROVE  Len(source') = Len(source) /\ Threads' = Threads
    BY <2>2 DEF Titled, Threads
  <2> QED BY <2>1, <2>2
<1> QED BY <1>1 DEF SummariesStay, Summed

LEMMA SummariesStart ==
  ASSUME Titled, Summed, StartThread
  PROVE  SummariesStay
<1>1. /\ summary' = Append(summary, NoSummary) /\ covered' = Append(covered, {})
      /\ source' = Append(source, "default")
  BY DEF StartThread
<1>2. /\ summary \in Seq([end : Nat, count : Nat]) /\ covered \in Seq(SUBSET Nat)
      /\ Len(summary) = Len(source) /\ Len(covered) = Len(source)
      /\ Len(source) \in Nat /\ Threads = 1..Len(source)
      /\ Len(source') = Len(source) + 1 /\ Threads' = 1..(Len(source) + 1)
  BY <1>1 DEF Titled, Summed, Threads
<1>3. NoSummary \in [end : Nat, count : Nat] /\ {} \in SUBSET Nat BY DEF NoSummary
<1>4. /\ summary' \in Seq([end : Nat, count : Nat]) /\ Len(summary') = Len(source) + 1
      /\ \A th \in Threads : summary'[th] = summary[th]
      /\ summary'[Len(source) + 1] = NoSummary
  BY <1>1, <1>2, <1>3
<1>5. /\ covered' \in Seq(SUBSET Nat) /\ Len(covered') = Len(source) + 1
      /\ \A th \in Threads : covered'[th] = covered[th]
      /\ covered'[Len(source) + 1] = {}
  BY <1>1, <1>2, <1>3
<1>6. Threads' \ Threads = {Len(source) + 1} BY <1>2
<1> QED BY <1>2, <1>4, <1>5, <1>6 DEF SummariesStay

LEMMA RowSets ==
  ASSUME NEW rs \in Seq(RowType), NEW th, NEW e
  PROVE  /\ CompleteIn(rs, th) \in SUBSET (1..Len(rs))
         /\ {t \in CompleteIn(rs, th) : t > e} \in SUBSET Nat
         /\ IsFiniteSet({t \in CompleteIn(rs, th) : t > e})
<1>1. Len(rs) \in Nat /\ DOMAIN rs = 1..Len(rs) OBVIOUS
<1>2. CompleteIn(rs, th) \in SUBSET (1..Len(rs)) BY <1>1 DEF CompleteIn
<1>3. {t \in CompleteIn(rs, th) : t > e} \in SUBSET (1..Len(rs)) BY <1>2
<1>4. IsFiniteSet(1..Len(rs)) /\ 1..Len(rs) \in SUBSET Nat BY <1>1, FS_Interval
<1> QED BY <1>2, <1>3, <1>4, FS_Subset

\* A task that starts, after everything else of its step.
Started(t) ==
  /\ summary' = summary /\ turns'[t].thread = selected
  /\ task'[t] = SummaryTask(turns')

LEMMA StartedIsChunked ==
  ASSUME IInv', NEW t, Started(t), task'[t].at = "summing", NEW th, th = selected
  PROVE  Chunked(th, task[t].chunk)'
<1>1. PICK D, V, c : /\ D = CompleteIn(turns', th) /\ V = {u \in D : u > summary[th].end}
                     /\ c = SummaryChunk(turns')
  OBVIOUS
<1>2. V \in SUBSET Nat /\ IsFiniteSet(V) /\ V \subseteq D
  <2>1. turns' \in Seq(RowType) BY DEF IInv, Shape
  <2> QED BY <1>1, <2>1, RowSets
<1>3. c # {} /\ task'[t].chunk = c
  <2>1. c = {} => task'[t] = NoTask BY <1>1 DEF Started, SummaryTask
  <2>2. NoTask.at = "gone" BY DEF NoTask
  <2>3. c # {} BY <2>1, <2>2
  <2>4. task'[t] = [at |-> "summing", gen |-> gen, chunk |-> c]
    BY <1>1, <2>3 DEF Started, SummaryTask
  <2> QED BY <2>3, <2>4
<1>4. c = IF Cardinality(V) > Window THEN Oldest(V) ELSE {}
  BY <1>1 DEF SummaryChunk, Unsummarized, Coverage
<1>5. Cardinality(V) > Window /\ c = Oldest(V) BY <1>3, <1>4
<1>6. c \subseteq V BY <1>5 DEF Oldest
<1>7. /\ CompleteIn(turns, th)' = D /\ Unsummarized(turns, th)' = V
      /\ From(Unsummarized(turns, th), task[t].chunk)' = From(V, c)
  BY <1>1, <1>3 DEF Started, Unsummarized, Coverage, From
<1>8. From(V, c) = V BY <1>2, <1>5, ChunkIs
<1> QED BY <1>2, <1>3, <1>5, <1>6, <1>7, <1>8 DEF Chunked

\* Every step that advances no summary: at most one turn completes, and a task
\* that summarizes has just started or keeps its chunk.
LEMMA SummedKept ==
  ASSUME IInv, IInv', Placed, Placed', RowsStay, Summed, SummariesStay,
         peers \subseteq peers', NEW n \in Nat \ {0},
         n \in Answering \/ \A t \in Ids : turns'[t].status = "complete" => turns[t].status = "complete",
         \A t \in Ids' \ Ids : turns'[t].status # "complete",
         \A t \in Ids : turns[t].status = "complete" => turns'[t].status = "complete",
         \A t \in Ids : turns'[t].status = "complete" =>
                          turns[t].status = "complete" \/ t = n,
         \A t \in Ids' : task'[t].at = "summing" =>
            \/ Started(t)
            \/ t \in Ids /\ task[t].at = "summing" /\ task'[t].chunk = task[t].chunk
  PROVE  Summed'
<1>2. /\ Ids \subseteq Ids' /\ Threads \subseteq Threads'
      /\ \A t \in Ids : turns'[t].thread = turns[t].thread /\ turns[t].thread \in Threads
  BY DEF RowsStay, Placed
<1>3. \A th, t : /\ t \in CompleteIn(turns, th) <=>
                      t \in Ids /\ turns[t].thread = th /\ turns[t].status = "complete"
                 /\ t \in CompleteIn(turns, th)' <=>
                      t \in Ids' /\ turns'[t].thread = th /\ turns'[t].status = "complete"
  BY DEF CompleteIn, Ids
<1>4. ASSUME NEW th \in Threads
      PROVE  ThreadSummed(th)' /\ \A chunk : Chunked(th, chunk) => Chunked(th, chunk)'
  <2>1. PICK C, D : C = CompleteIn(turns, th) /\ D = CompleteIn(turns, th)' OBVIOUS
  <2>2. \A t \in C : t \in D BY <1>2, <1>3, <2>1
  <2>3. \A t \in D : t \in C \/ t = n BY <1>2, <1>3, <2>1
  <2>4. D = C \/ (D = C \cup {n} /\ n \notin C) BY <2>2, <2>3
  <2>5. n \in D /\ n \notin C => \A u \in Ids : n < u => u \in Peers(n)
    <3>1. n \in D /\ n \notin C => n \in Answering BY <1>2, <1>3, <2>1
    <3> QED BY <3>1 DEF IInv, TasksFollowRows
  <2>6. ThreadSummed(th) /\ summary'[th] = summary[th] /\ covered'[th] = covered[th]
    BY DEF Summed, SummariesStay
  <2>7. \/ CompleteIn(turns, th)' = CompleteIn(turns, th)
        \/ /\ CompleteIn(turns, th)' = CompleteIn(turns, th) \cup {n}
           /\ n \notin CompleteIn(turns, th) /\ n # 0
           /\ \A u \in Ids : n < u => u \in Peers(n)
    BY <2>1, <2>4, <2>5
  <2>8. Ids \subseteq Ids' /\ n \in Nat BY <1>2
  <2> QED BY <2>6, <2>7, <2>8, ThreadKept
<1>5. ASSUME NEW th \in Threads' \ Threads
      PROVE  ThreadSummed(th)'
  <2>1. CompleteIn(turns, th)' = {}
    <3>1. PICK D : D = CompleteIn(turns, th)' OBVIOUS
    <3>2. ASSUME NEW t \in D PROVE FALSE
      <4>1. t \in Ids' /\ turns'[t].thread = th /\ turns'[t].status = "complete"
        BY <1>3, <3>1
      <4>2. t \in Ids => turns'[t].thread \in Threads BY <1>2
      <4> QED BY <4>1, <4>2
    <3> QED BY <3>1, <3>2
  <2>2. summary'[th] = NoSummary /\ covered'[th] = {} BY DEF SummariesStay
  <2>3. summary'[th].end = 0 /\ summary'[th].count = 0 BY <2>2 DEF NoSummary
  <2> QED BY <2>1, <2>2, <2>3, FS_EmptySet DEF ThreadSummed
<1>6. ASSUME NEW t \in Ids', task'[t].at = "summing"
      PROVE  Chunked(turns[t].thread, task[t].chunk)'
  <2>1. CASE Started(t)
    <3>1. PICK th : th = selected OBVIOUS
    <3>2. Chunked(th, task[t].chunk)' BY <1>6, <2>1, <3>1, StartedIsChunked
    <3>3. turns'[t].thread = th BY <2>1, <3>1 DEF Started
    <3> QED BY <3>2, <3>3 DEF Chunked
  <2>2. CASE t \in Ids /\ task[t].at = "summing" /\ task'[t].chunk = task[t].chunk
    <3>1. PICK th, c : th = turns[t].thread /\ c = task[t].chunk OBVIOUS
    <3>2. Chunked(th, c) /\ th \in Threads BY <1>2, <2>2, <3>1 DEF Summed
    <3>3. Chunked(th, c)' BY <1>4, <3>2
    <3>4. turns'[t].thread = th /\ task'[t].chunk = c BY <1>2, <2>2, <3>1
    <3> QED BY <3>3, <3>4 DEF Chunked
  <2> QED BY <1>6, <2>1, <2>2
<1> QED BY <1>4, <1>5, <1>6 DEF Summed, SummariesStay
-----------------------------------------------------------------------------
\* A step that completes no turn and starts no summary.
LEMMA SummedUnmoved ==
  ASSUME IInv, IInv', Placed, Placed', RowsStay, Summed, SummariesStay,
         Ids' = Ids, peers' = peers,
         \A t \in Ids : turns'[t].status = "complete" <=> turns[t].status = "complete",
         \A t \in Ids : task'[t].at = "summing" =>
                          task[t].at = "summing" /\ task'[t].chunk = task[t].chunk
  PROVE  Summed'
<1>1. 1 \in Nat \ {0} OBVIOUS
<1> QED BY <1>1, SummedKept

LEMMA SameIds ==
  ASSUME UNCHANGED turns
  PROVE  Ids' = Ids
BY DEF Ids

LEMMA SummaryStep ==
  ASSUME IInv, IInv', Placed, Placed', RowsStay, Titled, Summed,
         NEW t \in Ids, SummaryAnswered(t)
  PROVE  Summed'
<1>0. task \in Seq(TaskType) /\ Len(task) = Len(turns) /\ Ids = 1..Len(turns)
  BY DEF IInv, Shape, Ids
<1>1. /\ task[t].at = "summing" /\ task' = [task EXCEPT ![t] = NoTask]
      /\ UNCHANGED <<turns, source, peers>>
  BY DEF SummaryAnswered
<1>2. /\ Ids' = Ids /\ task'[t].at = "gone"
      /\ \A u \in Ids : u # t => task'[u] = task[u]
  BY <1>0, <1>1 DEF Ids, NoTask
<1>4. CASE UNCHANGED <<summary, covered>>
  <2>1. SummariesStay BY <1>1, <1>4, SummariesUnchanged
  <2>2. \A u \in Ids : task'[u].at = "summing" =>
                          task[u].at = "summing" /\ task'[u].chunk = task[u].chunk
    BY <1>2
  <2> QED BY <1>1, <1>2, <2>1, <2>2, SummedUnmoved
<1>5. PICK th, chunk : th = turns[t].thread /\ chunk = task[t].chunk OBVIOUS
<1>6. CASE /\ Continuous(th, chunk)
           /\ summary' = [summary EXCEPT ![th] = [end |-> Max(chunk), count |-> @.count + Chunk]]
           /\ covered' = [covered EXCEPT ![th] = @ \cup chunk]
  <2>1. /\ th \in Threads /\ Threads = 1..Len(source) /\ Threads' = Threads
        /\ summary \in Seq([end : Nat, count : Nat]) /\ covered \in Seq(SUBSET Nat)
        /\ Len(summary) = Len(source) /\ Len(covered) = Len(source) /\ Len(source) \in Nat
    <3>1. th \in Threads BY <1>5 DEF Placed
    <3>2. Threads = 1..Len(source) /\ Threads' = Threads /\ Len(source) \in Nat
      BY <1>1 DEF Threads, Titled
    <3> QED BY <3>1, <3>2 DEF Summed
  <2>2. PICK s, c : s = [end |-> Max(chunk), count |-> summary[th].count + Chunk]
                    /\ c = covered[th] \cup chunk
    OBVIOUS
  <2>3. summary' = [summary EXCEPT ![th] = s] /\ covered' = [covered EXCEPT ![th] = c]
    BY <1>6, <2>2
  <2>4. /\ summary'[th] = s /\ covered'[th] = c
        /\ \A u \in Threads : u # th => summary'[u] = summary[u] /\ covered'[u] = covered[u]
    BY <2>1, <2>3
  <2>5. ThreadSummed(th) /\ Chunked(th, chunk) BY <1>1, <1>5, <2>1 DEF Summed
  <2>6. summary[th] \in [end : Nat, count : Nat]
    <3>1. PICK T : T = [end : Nat, count : Nat] OBVIOUS
    <3>2. summary \in Seq(T) /\ th \in 1..Len(summary) BY <2>1, <3>1
    <3>3. summary[th] \in T BY <3>2
    <3> QED BY <3>1, <3>3
  <2>7. /\ ThreadSummed(th)' /\ \A d : Chunked(th, d) => Chunked(th, d)'
        /\ s \in [end : Nat, count : Nat] /\ c \in SUBSET Nat
    BY <1>1, <1>6, <2>2, <2>4, <2>5, <2>6, ThreadAdvances
  <2>8. ASSUME NEW u \in Threads
        PROVE  ThreadSummed(u)' /\ \A d : Chunked(u, d) => Chunked(u, d)'
    <3>1. CASE u = th BY <2>7, <3>1
    <3>2. CASE u # th
      <4>1. CompleteIn(turns, u)' = CompleteIn(turns, u) BY <1>1 DEF CompleteIn
      <4>2. ThreadSummed(u) BY DEF Summed
      <4>3. Ids \subseteq Ids' /\ peers \subseteq peers' /\ 0 \in Nat BY <1>1, <1>2
      <4>4. summary'[u] = summary[u] /\ covered'[u] = covered[u] BY <2>4, <3>2
      <4> QED BY <4>1, <4>2, <4>3, <4>4, ThreadKept
    <3> QED BY <3>1, <3>2
  <2>9. ASSUME NEW u \in Ids, task'[u].at = "summing"
        PROVE  Chunked(turns[u].thread, task[u].chunk)'
    <3>1. PICK w, d : w = turns[u].thread /\ d = task[u].chunk OBVIOUS
    <3>2. u # t /\ task'[u] = task[u] BY <1>2, <2>9
    <3>3. Chunked(w, d) /\ w \in Threads BY <2>9, <3>1, <3>2 DEF Summed, Placed
    <3>4. Chunked(w, d)' BY <2>8, <3>3
    <3>5. turns'[u].thread = w /\ task'[u].chunk = d BY <1>1, <3>1, <3>2
    <3> QED BY <3>4, <3>5 DEF Chunked
  <2>10. /\ summary' \in Seq([end : Nat, count : Nat]) /\ covered' \in Seq(SUBSET Nat)
         /\ Len(summary') = Len(source') /\ Len(covered') = Len(source')
    BY <1>1, <2>1, <2>3, <2>7
  <2> QED BY <1>2, <2>1, <2>8, <2>9, <2>10 DEF Summed
<1> QED BY <1>4, <1>5, <1>6 DEF SummaryAnswered

LEMMA SummedStep ==
  ASSUME IInv, IInv', Titled, Placed, Placed', RowsStay, Summed, Next
  PROVE  Summed'
<1>0. /\ turns \in Seq(RowType) /\ Ids = 1..Len(turns) /\ Len(turns) \in Nat
      /\ task \in Seq(TaskType) /\ Len(task) = Len(turns)
      /\ 1..Len(turns') = Ids' /\ Len(turns') \in Nat
  BY DEF IInv, Shape, Ids
<1>1. CASE \/ \E th \in Threads : SwitchThread(th) \/ Rename(th)
           \/ \E m \in memories : Forget(m)
           \/ \E t \in Ids : Propose(t) \/ StartCommit(t)
           \/ \E p \in commit.mem : CommitMemory(p)
           \/ \E p \in commit.aff : CommitAffinity(p)
           \/ CommitLinks
  <2>1. /\ UNCHANGED <<turns, task, summary, covered, peers>>
        /\ source' = source \/ \E th \in Threads : source' = [source EXCEPT ![th] = "manual"]
    BY <1>1 DEF SwitchThread, Rename, Forget, Propose, StartCommit, CommitMemory, CommitAffinity,
         CommitLinks, rows, past
  <2>2. SummariesStay BY <2>1, SummariesUnchanged
  <2> QED BY <2>1, <2>2, SameIds, SummedUnmoved
<1>2. CASE CreateThread
  <2>1. UNCHANGED <<turns, task, peers>> /\ StartThread BY <1>2 DEF CreateThread
  <2>2. SummariesStay BY <2>1, SummariesStart
  <2> QED BY <2>1, <2>2, SameIds, SummedUnmoved
<1>3. CASE Restart
  <2>1. turns' = turns /\ peers' = peers /\ StartThread /\ task' = [t \in Ids |-> NoTask] BY <1>3 DEF Restart
  <2>2. SummariesStay BY <2>1, SummariesStart
  <2>3. Ids' = Ids /\ \A t \in Ids : task'[t].at = "gone" BY <2>1 DEF Ids, NoTask
  <2> QED BY <2>1, <2>2, <2>3, SummedUnmoved
<1>4. CASE Fence
  <2>1. UNCHANGED <<turns, task, source, summary, covered, peers>> BY <1>4 DEF Fence, rows, past
  <2>2. SummariesStay BY <2>1, SummariesUnchanged
  <2> QED BY <2>1, <2>2, SameIds, SummedUnmoved
<1>5. ASSUME NEW t \in Ids, Deliver(t) \/ Discard(t)
      PROVE  Summed'
  <2>0. PICK r, s : /\ r = [turns[t] EXCEPT !.roles = @ \cup {"assistant"}]
                    /\ s = [turns[t] EXCEPT !.status = "cancelled"]
    OBVIOUS
  <2>1. /\ UNCHANGED <<source, summary, covered, peers>>
        /\ task' = task \/ task' = [task EXCEPT ![t] = NoTask]
        /\ turns' = [turns EXCEPT ![t] = r] \/ turns' = [turns EXCEPT ![t] = s]
        /\ turns[t].status = "pending"
    BY <1>5, <2>0 DEF Deliver, Discard, AssistantText, Inserted, Cancelled, RequirePending, past
  <2>2. r.status = "pending" /\ s.status = "cancelled"
    <3>1. turns[t] \in RowType BY <1>0
    <3> QED BY <2>0, <2>1, <3>1 DEF RowType
  <2>3. Ids' = Ids /\ \A u \in Ids : turns'[u].status = "complete" <=> turns[u].status = "complete"
    BY <1>0, <2>1, <2>2 DEF Ids
  <2>6. \A u \in Ids : task'[u] = task[u] \/ task'[u].at = "gone"
    <3>1. NoTask.at = "gone" BY DEF NoTask
    <3> QED BY <1>0, <2>1, <3>1
  <2>8. SummariesStay BY <2>1, SummariesUnchanged
  <2>9. \A u \in Ids : task'[u].at = "summing" =>
                         task[u].at = "summing" /\ task'[u].chunk = task[u].chunk
    BY <2>6
  <2> QED BY <2>1, <2>3, <2>8, <2>9, SummedUnmoved
<1>6. CASE CommitFails
  <2>0. PICK t : t = commit.turn OBVIOUS
  <2>1. /\ UNCHANGED <<turns, source, summary, covered, peers>>
        /\ task' = [task EXCEPT ![t].at = "gone"] /\ t # 0
    BY <1>6, <2>0 DEF CommitFails, rows, Quiet
  <2>2. t \in Ids BY <2>0, <2>1 DEF IInv, CommitOpen, Answering
  <2>3. PICK g : g = [task[t] EXCEPT !.at = "gone"] OBVIOUS
  <2>4. g.at = "gone" /\ task' = [task EXCEPT ![t] = g]
    <3>1. task[t] \in TaskType BY <1>0, <2>2
    <3> QED BY <2>1, <2>3, <3>1 DEF TaskType
  <2>5. Ids' = Ids /\ \A u \in Ids : task'[u] = task[u] \/ task'[u].at = "gone"
    BY <1>0, <2>1, <2>4 DEF Ids
  <2>7. SummariesStay BY <2>1, SummariesUnchanged
  <2>8. \A u \in Ids : task'[u].at = "summing" =>
                         task[u].at = "summing" /\ task'[u].chunk = task[u].chunk
    BY <2>5
  <2> QED BY <2>1, <2>5, <2>7, <2>8, SummedUnmoved
<1>7. ASSUME NEW s \in Enriched, BeginTurn(s)
      PROVE  Summed'
  <2>0. PICK n, q, base, job :
          /\ n = Len(turns) + 1 /\ q = NewTurn(s) /\ base = Append(turns, q)
          /\ job = [at |-> "running", gen |-> gen, chunk |-> {}]
    OBVIOUS
  <2>1. /\ UNCHANGED <<source, summary, covered>> /\ peers \subseteq peers'
        /\ turns' = [base EXCEPT ![n].roles = @ \cup {"user"}] /\ task' = Append(task, job)
    BY <1>7, <2>0 DEF BeginTurn, Inserted, past
  <2>2. q \in RowType /\ q.status = "pending"
    <3>1. selected \in Nat /\ s \in SUBSET Memory BY DEF IInv, Shape, Enriched, Retrievals
    <3> QED BY <2>0, <3>1 DEF NewTurn, RowType
  <2>3. base \in Seq(RowType) /\ DOMAIN base = 1..n /\ base[n] = q /\ \A u \in Ids : base[u] = turns[u]
    BY <1>0, <2>0, <2>2
  <2>4. PICK r : r = [q EXCEPT !.roles = @ \cup {"user"}] OBVIOUS
  <2>5. r.status = "pending" BY <2>2, <2>4 DEF RowType
  <2>6. turns' = [base EXCEPT ![n] = r] BY <2>1, <2>3, <2>4
  <2>7. /\ Ids' = Ids \cup {n} /\ n \notin Ids /\ Len(turns') = n /\ turns'[n].status = "pending"
        /\ \A u \in Ids : turns'[u] = turns[u] /\ task'[u] = task[u]
        /\ task'[n] = job
    <3>1. DOMAIN turns' = 1..n /\ n \in Nat BY <1>0, <2>0, <2>3, <2>6
    <3>2. Ids' = 1..n /\ Len(turns') = n
      <4>1. turns' \in Seq(RowType) BY DEF IInv, Shape
      <4> QED BY <3>1, <4>1 DEF Ids
    <3>3. Ids' = Ids \cup {n} /\ n \notin Ids BY <1>0, <2>0, <3>2
    <3>4. turns'[n] = r /\ \A u \in Ids : turns'[u] = turns[u]
      <4>1. n \in 1..n /\ \A u \in Ids : u \in 1..n /\ u # n BY <3>1, <3>2, <3>3
      <4>2. turns'[n] = r BY <2>3, <2>6, <4>1
      <4>3. \A u \in Ids : turns'[u] = base[u] BY <2>3, <2>6, <4>1
      <4> QED BY <2>3, <4>2, <4>3
    <3>5. job \in TaskType
      <4>1. gen \in Nat BY DEF IInv, Shape
      <4> QED BY <2>0, <4>1 DEF TaskType
    <3>6. task'[n] = job /\ \A u \in Ids : task'[u] = task[u] BY <1>0, <2>0, <2>1, <3>5
    <3> QED BY <2>5, <3>2, <3>3, <3>4, <3>6
  <2>9. SummariesStay BY <2>1, SummariesUnchanged
  <2>10. job.at = "running" BY <2>0
  <2>11. \A u \in Ids' : task'[u].at = "summing" =>
           u \in Ids /\ task[u].at = "summing" /\ task'[u].chunk = task[u].chunk
    BY <2>7, <2>10
  <2>12. /\ \A u \in Ids' \ Ids : turns'[u].status # "complete"
         /\ \A u \in Ids : turns[u].status = "complete" <=> turns'[u].status = "complete"
    BY <2>7
  <2>13. 1 \in Nat \ {0} OBVIOUS
  <2> QED BY <2>1, <2>9, <2>11, <2>12, <2>13, SummedKept
<1>8. CASE CommitTurn
  <2>0. PICK t : t = commit.turn OBVIOUS
  <2>1. t \in Answering /\ t \in Ids /\ task[t].at = "running"
    BY <1>8, <2>0 DEF CommitTurn, IInv, CommitOpen, NoCommit, Answering
  <2>2. PICK r : r = [turns[t] EXCEPT !.status = "complete"] OBVIOUS
  <2>3. /\ UNCHANGED <<source, selected, summary, covered, peers>> /\ turns' = [turns EXCEPT ![t] = r]
        /\ task' = [task EXCEPT ![t] = Afterwards(t, turns')]
    BY <1>8, <2>0, <2>2 DEF CommitTurn, past
  <2>4. r.status = "complete"
    <3>1. turns[t] \in RowType BY <1>0, <2>1
    <3> QED BY <2>2, <3>1 DEF RowType
  <2>5. /\ Ids' = Ids /\ turns'[t].status = "complete"
        /\ \A u \in Ids : u # t => turns'[u] = turns[u] /\ task'[u] = task[u]
        /\ task'[t] = Afterwards(t, turns')
    BY <1>0, <2>1, <2>3, <2>4 DEF Ids
  <2>6. t \in Nat \ {0} BY <1>0, <2>1
  <2>7. turns'[t].thread = selected BY <2>1 DEF Placed, RowsStay
  <2>8. task'[t].at = "titling" \/ Started(t)
    <3>1. task[t] \in TaskType BY <1>0, <2>1
    <3>2. [task[t] EXCEPT !.at = "titling"].at = "titling" BY <3>1 DEF TaskType
    <3> QED BY <2>3, <2>5, <2>7, <3>2 DEF Afterwards, Started
  <2>10. SummariesStay BY <2>3, SummariesUnchanged
  <2>11. \A u \in Ids' : task'[u].at = "summing" =>
           \/ Started(u)
           \/ u \in Ids /\ task[u].at = "summing" /\ task'[u].chunk = task[u].chunk
    BY <2>5, <2>8
  <2>12. /\ \A u \in Ids : turns[u].status = "complete" => turns'[u].status = "complete"
         /\ \A u \in Ids : turns'[u].status = "complete" =>
                             turns[u].status = "complete" \/ u = t
    BY <2>5
  <2> QED BY <2>1, <2>3, <2>5, <2>6, <2>10, <2>11, <2>12, SummedKept
<1>9. ASSUME NEW t \in Ids, TitleAnswered(t)
      PROVE  Summed'
  <2>1. /\ UNCHANGED <<turns, selected, summary, covered, peers>> /\ task[t].at = "titling"
        /\ source' = source \/ source' = [source EXCEPT ![turns[t].thread] = "generated"]
        /\ task' = [task EXCEPT ![t] = SummaryTask(turns)]
    BY <1>9 DEF TitleAnswered, WriteTitle, past
  <2>2. Ids' = Ids /\ task'[t] = SummaryTask(turns') /\ \A u \in Ids : u # t => task'[u] = task[u]
    BY <1>0, <2>1 DEF Ids
  <2>3. turns'[t].thread = selected BY <2>1 DEF Placed
  <2>4. Started(t) BY <2>1, <2>2, <2>3 DEF Started
  <2>8. SummariesStay BY <2>1, SummariesUnchanged
  <2>9. \A u \in Ids' : task'[u].at = "summing" =>
           \/ Started(u)
           \/ u \in Ids /\ task[u].at = "summing" /\ task'[u].chunk = task[u].chunk
    BY <2>2, <2>4
  <2>10. 1 \in Nat \ {0} OBVIOUS
  <2> QED BY <2>1, <2>2, <2>8, <2>9, <2>10, SummedKept
<1>10. ASSUME NEW t \in Ids, SummaryAnswered(t)
       PROVE  Summed'
  BY <1>10, SummaryStep
<1> QED BY <1>1, <1>2, <1>3, <1>4, <1>5, <1>6, <1>7, <1>8, <1>9, <1>10 DEF Next

LEMMA AddedNext ==
  ASSUME IInv, Titled, Placed, RowsStay, Added, Next
  PROVE  Added'
<1>1. CASE \E p \in commit.aff : CommitAffinity(p) BY <1>1, AddedStep
<1>2. CASE ~ \E p \in commit.aff : CommitAffinity(p)
  <2>1. UNCHANGED <<events, affinity>>
    BY <1>2 DEF Next, CreateThread, Fence, Restart, SwitchThread, Rename, Forget, BeginTurn, Deliver,
         Propose, Discard, StartCommit, TitleAnswered, SummaryAnswered, CommitMemory, CommitLinks,
         CommitTurn, CommitFails, rows
  <2> QED BY <2>1, AddedKept
<1> QED BY <1>1, <1>2

\* Where the affinity and the summaries start.
LEMMA Beginnings ==
  ASSUME Init
  PROVE  Placed /\ Added /\ Summed
<1>1. Ids = {} /\ Threads = {1} BY DEF Init, Ids, Threads
<1>2. Placed BY <1>1 DEF Init, Placed
<1>3. Added
  <2>1. StartAffinity \in Int /\ 0 <= SessionLimit BY MemoryBounds
  <2>2. \A th : {e \in events : turns[e.turn].thread = th} = {} BY DEF Init
  <2>3. \A th : Abs(Moved(th, events)) <= SessionLimit
    <3>1. \A th : Moved(th, events) = 0 BY <2>2, NetNone DEF Moved
    <3>2. Abs(0) <= SessionLimit BY <2>1 DEF Abs
    <3> QED BY <3>1, <3>2
  <2>4. IsFiniteSet(events) /\ affinity = StartAffinity + Net(events) /\ affinity \in Int
    BY <2>1, NetNone, FS_EmptySet DEF Init
  <2> QED BY <2>3, <2>4 DEF Init, Added, AffinityExact
<1>4. Summed
  <2>1. /\ summary = <<NoSummary>> /\ covered = <<{}>> /\ source = <<"default">> /\ turns = <<>>
    BY DEF Init
  <2>2. NoSummary \in [end : Nat, count : Nat] /\ NoSummary.end = 0 /\ NoSummary.count = 0
    BY DEF NoSummary
  <2>3. CompleteIn(turns, 1) = {} BY <2>1 DEF CompleteIn
  <2>4. ThreadSummed(1) BY <2>1, <2>2, <2>3, FS_EmptySet DEF ThreadSummed
  <2>5. /\ summary \in Seq([end : Nat, count : Nat]) /\ covered \in Seq(SUBSET Nat)
        /\ Len(summary) = Len(source) /\ Len(covered) = Len(source)
    BY <2>1, <2>2
  <2> QED BY <1>1, <2>4, <2>5 DEF Summed
<1> QED BY <1>2, <1>3, <1>4

\* Affinity and summaries fit the rows in every state: with the invariant above, rows
\* stay in their threads, events add up, and every chunk an await holds on to is either
\* still the oldest of what is not summarized or will be refused.
THEOREM RowsAddUp == Spec => [](IInv /\ Titled /\ Placed /\ Added /\ Summed)
<1>1. Init => IInv /\ Titled /\ Placed /\ Added /\ Summed
  BY InitEstablishes, Beginnings DEF Init, Titled, Titles
<1>2. IInv /\ Titled /\ Placed /\ Added /\ Summed /\ [Next]_vars
        => (IInv /\ Titled /\ Placed /\ Added /\ Summed)'
  <2> SUFFICES ASSUME IInv, Titled, Placed, Added, Summed, [Next]_vars
               PROVE  (IInv /\ Titled /\ Placed /\ Added /\ Summed)'
    OBVIOUS
  <2>1. IInv' /\ Titled' BY StepPreserves, TitleStep
  <2>2. CASE Next
    <3>1. RowsStay /\ Placed' BY <2>2, PlacedStep
    <3> QED BY <2>1, <2>2, <3>1, AddedNext, SummedStep
  <2>3. CASE UNCHANGED vars
    <3>1. UNCHANGED <<turns, selected, task, source, summary, covered, events, affinity, peers>>
      BY <2>3 DEF vars, rows, past
    <3>2. RowsStay /\ Ids' = Ids BY <3>1 DEF RowsStay, Ids, Threads
    <3>3. RowsStay /\ Placed' BY <3>1, <3>2, PlacedKept
    <3>4. SummariesStay BY <3>1, SummariesUnchanged
    <3>5. Summed' BY <2>1, <3>1, <3>3, <3>4, SameIds, SummedUnmoved
    <3>6. Added' BY <3>1, <3>3, AddedKept
    <3> QED BY <2>1, <3>3, <3>5, <3>6
  <2> QED BY <2>2, <2>3
<1> QED BY <1>1, <1>2, PTL DEF Spec

\* The affinity is where the relationship events lead to from its start, one event per
\* turn at most, and no thread moves it further than the limit (store.py,
\* apply_affinity), whatever crashed or failed meanwhile.
THEOREM AffinityAddsUp == Spec => []AffinityExact
<1>1. Added => AffinityExact BY DEF Added
<1> QED BY <1>1, RowsAddUp, PTL

\* A summary covers every complete turn of its thread up to its end, each once, but for
\* a turn that completed after a younger peer had been summarized, and leaves the recent
\* ones verbatim (summary.py, store.py advance_summary), although the chunk is chosen
\* before an await, two tasks may summarize one thread and two turns answer at once.
THEOREM SummariesCoverOnce == Spec => []SummaryExact
<1>1. Summed => SummaryExact BY DEF Summed, ThreadSummed, SummaryExact
<1> QED BY <1>1, RowsAddUp, PTL
=============================================================================
