--------------------------- MODULE VoiceSessionProofs ---------------------------
(***************************************************************************)
(* Machine-checked proofs about VoiceSession, for every bound, any set of  *)
(* devices and any number of turns: a cancelled turn leaves nothing        *)
(* behind, the fences meet when nothing is under way and only ever catch   *)
(* up with the counter, as GenerationFence promises, and, with a local     *)
(* encoder, no row outlives its task.                                      *)
(***************************************************************************)
EXTENDS VoiceSession, TLAPS

\* The turns are well formed and the active one is among them.
TurnsTyped ==
  /\ gen \in Gens
  /\ turns \in Seq(Turn) /\ Len(turns) <= MaxTurns
  /\ active \in 0..Len(turns)

\* A sentence is spoken into a turn of its own generation: _on_llm_frame hands a
\* frame to the active turn only while the generations agree.
IntoOwnGeneration ==
  \A t \in Turns : turns[t].at = "speaking" =>
    turns[t].into \in Turns /\ turns[turns[t].into].gen = turns[t].gen

\* The row of a turn follows its task, until the session is closed.
RowsFollow ==
  closed # "closed" => \A t \in Turns :
    /\ turns[t].at = "scheduled" => turns[t].row = "none"
    /\ turns[t].at = "after" => turns[t].row = "complete"
    /\ turns[t].row = "pending" => Alive(t) \/ ~EncoderReady

\* The inductive invariant.
IInv ==
  /\ TurnsTyped
  /\ IntoOwnGeneration
  /\ RowsFollow

\* What StaleTurnsFrozen says of one step.
StaleKept ==
  \A t \in Turns : ~IsCurrent(turns[t].gen) =>
    /\ turns'[t].spoke => turns[t].spoke
    /\ turns'[t].stored => turns[t].stored
    /\ turns'[t].row \in {turns[t].row, "cancelled"}
-----------------------------------------------------------------------------
LEMMA InitEstablishes == Init => IInv
BY BoundsAssumption
   DEF Init, IInv, TurnsTyped, IntoOwnGeneration, RowsFollow, Turns, Gens

\* Steps that touch no turn.
LEMMA TurnsUntouched ==
  ASSUME IInv, UNCHANGED turns, active' \in {0, active}, gen' \in Gens,
         closed' # "closed" => closed # "closed"
  PROVE  IInv' /\ StaleKept
BY DEF IInv, TurnsTyped, IntoOwnGeneration, RowsFollow, Turns, StaleKept, Alive, InFlight

\* A turn is scheduled behind the others.
LEMMA SchedulePreserves ==
  ASSUME IInv, NEW typed \in BOOLEAN, NEW speak \in BOOLEAN, Schedule(typed, speak),
         UNCHANGED active, gen' \in Gens, UNCHANGED closed
  PROVE  IInv' /\ StaleKept
<1> DEFINE new == [gen |-> gen, typed |-> typed, speak |-> speak, at |-> "scheduled", into |-> 0,
                   left |-> MaxSentences, spoke |-> FALSE, failed |-> FALSE, row |-> "none",
                   stored |-> FALSE]
<1>1. new \in Turn
  BY BoundsAssumption DEF Turn, IInv, TurnsTyped
<1>2. turns' = Append(turns, new) /\ turns \in Seq(Turn)
  BY DEF Schedule, IInv, TurnsTyped
<1>3. new.at = "scheduled" /\ new.row = "none" OBVIOUS
<1> HIDE DEF new
<1>4. /\ Len(turns') = Len(turns) + 1 /\ turns' \in Seq(Turn) /\ Len(turns) \in Nat
      /\ \A t \in Turns : turns'[t] = turns[t]
      /\ turns'[Len(turns) + 1] = new
  BY <1>1, <1>2 DEF Turns
<1>5. Turns' = Turns \cup {Len(turns) + 1}
  BY <1>4 DEF Turns
<1>6. TurnsTyped' BY <1>4, BoundsAssumption DEF IInv, TurnsTyped, Schedule
<1>7. IntoOwnGeneration' BY <1>3, <1>4, <1>5 DEF IInv, IntoOwnGeneration
<1>8. RowsFollow' BY <1>3, <1>4, <1>5 DEF IInv, RowsFollow, Alive, InFlight
<1>9. StaleKept BY <1>4, <1>2 DEF StaleKept, Turn
<1> QED BY <1>6, <1>7, <1>8, <1>9 DEF IInv

\* Turns may change where they are as long as their generation stays, a new
\* sentence goes into a turn of that generation and the row follows.
LEMMA TurnsChanged ==
  ASSUME IInv, turns' \in Seq(Turn), Len(turns') = Len(turns),
         active' \in {0, active} \cup Turns, gen' \in Gens,
         \A t \in Turns :
           /\ turns'[t].gen = turns[t].gen
           /\ turns'[t].at = "speaking" =>
                turns'[t].into \in Turns /\ turns[turns'[t].into].gen = turns[t].gen
           /\ closed' # "closed" =>
                /\ turns'[t].at = "scheduled" => turns'[t].row = "none"
                /\ turns'[t].at = "after" => turns'[t].row = "complete"
                /\ turns'[t].row = "pending" => Alive(t)' \/ ~EncoderReady
  PROVE  IInv'
<1>1. Turns' = Turns /\ Len(turns) \in Nat BY DEF Turns, IInv, TurnsTyped
<1>2. TurnsTyped' BY <1>1 DEF IInv, TurnsTyped, Turns
<1>3. IntoOwnGeneration' BY <1>1 DEF IntoOwnGeneration
<1>4. RowsFollow' BY <1>1 DEF RowsFollow
<1> QED BY <1>2, <1>3, <1>4 DEF IInv

\* The same, when only turn t changes.
LEMMA OneTurnChanged ==
  ASSUME IInv, NEW t \in Turns, NEW new \in Turn, turns' = [turns EXCEPT ![t] = new],
         active' \in {0, active} \cup Turns, gen' \in Gens, closed # "closed", UNCHANGED closed,
         new.gen = turns[t].gen,
         new.at = "speaking" => new.into \in Turns /\ turns[new.into].gen = turns[t].gen,
         new.at = "scheduled" => new.row = "none",
         new.at = "after" => new.row = "complete",
         new.row = "pending" =>
           new.at \in {"scheduled", "generating", "speaking", "overflow", "after"} \/ ~EncoderReady
  PROVE  /\ IInv'
         /\ \/ IsCurrent(turns[t].gen)
            \/ /\ new.spoke => turns[t].spoke
               /\ new.stored => turns[t].stored
               /\ new.row \in {turns[t].row, "cancelled"}
            => StaleKept
<1>1. turns' \in Seq(Turn) /\ Len(turns') = Len(turns) /\ turns'[t] = new
      /\ \A u \in Turns \ {t} : turns'[u] = turns[u]
  BY DEF IInv, TurnsTyped, Turns
<1>2. ASSUME NEW u \in Turns
      PROVE  /\ turns'[u].gen = turns[u].gen
             /\ turns'[u].at = "speaking" =>
                  turns'[u].into \in Turns /\ turns[turns'[u].into].gen = turns[u].gen
             /\ closed' # "closed" =>
                  /\ turns'[u].at = "scheduled" => turns'[u].row = "none"
                  /\ turns'[u].at = "after" => turns'[u].row = "complete"
                  /\ turns'[u].row = "pending" => Alive(u)' \/ ~EncoderReady
  <2>1. CASE u = t BY <1>1, <2>1 DEF Alive, InFlight
  <2>2. CASE u # t BY <1>1, <2>2 DEF IInv, IntoOwnGeneration, RowsFollow, Alive, InFlight
  <2> QED BY <2>1, <2>2
<1>3. IInv' BY <1>1, <1>2, TurnsChanged
<1>4. ASSUME \/ IsCurrent(turns[t].gen)
             \/ /\ new.spoke => turns[t].spoke
                /\ new.stored => turns[t].stored
                /\ new.row \in {turns[t].row, "cancelled"}
      PROVE  StaleKept
  <2> SUFFICES ASSUME NEW u \in Turns, ~IsCurrent(turns[u].gen)
               PROVE  /\ turns'[u].spoke => turns[u].spoke
                      /\ turns'[u].stored => turns[u].stored
                      /\ turns'[u].row \in {turns[u].row, "cancelled"}
    BY DEF StaleKept
  <2>1. CASE u = t BY <1>1, <1>4, <2>1
  <2>2. CASE u # t BY <1>1, <2>2
  <2> QED BY <2>1, <2>2
<1> QED BY <1>3, <1>4
-----------------------------------------------------------------------------
\* The task of a turn ends: nothing but its row and its memories remains.
LEMMA EndedIs ==
  ASSUME NEW turn \in Turn, NEW how \in {"done", "dead"}
  PROVE  /\ Ended(turn, how) \in Turn
         /\ Ended(turn, how).gen = turn.gen /\ Ended(turn, how).at = how
         /\ Ended(turn, how).row = turn.row /\ Ended(turn, how).stored = turn.stored
         /\ Ended(turn, how).spoke = FALSE
<1>1. 0 \in 0..MaxTurns /\ 0 \in 0..MaxSentences BY BoundsAssumption
<1> DEFINE spoken == [turn EXCEPT !.at = how, !.left = 0, !.into = 0, !.spoke = FALSE]
<1>2. /\ spoken \in Turn /\ spoken.gen = turn.gen /\ spoken.at = how /\ spoken.row = turn.row
      /\ spoken.stored = turn.stored /\ spoken.spoke = FALSE
  BY <1>1 DEF Turn
<1>3. Ended(turn, how) = [spoken EXCEPT !.failed = FALSE, !.typed = FALSE, !.speak = FALSE]
  BY DEF Ended, Turn
<1> HIDE DEF spoken
<1> QED BY <1>2, <1>3 DEF Turn

LEMMA TurnSkippedStep ==
  ASSUME IInv, NEW t \in Turns, TurnSkipped(t)
  PROVE  IInv' /\ StaleKept
<1> DEFINE new == Ended(turns[t], "done")
<1>1. turns[t] \in Turn BY DEF IInv, TurnsTyped, Turns
<1>2. turns' = [turns EXCEPT ![t] = new] BY DEF TurnSkipped
<1>3. turns[t].row = "none" BY DEF TurnSkipped, IInv, RowsFollow
<1>4. /\ new \in Turn /\ new.gen = turns[t].gen /\ new.at = "done" /\ new.row = turns[t].row
      /\ new.stored = turns[t].stored /\ new.spoke = FALSE
  BY <1>1, EndedIs
<1> HIDE DEF new
<1> QED BY <1>2, <1>3, <1>4, OneTurnChanged DEF TurnSkipped, IInv, TurnsTyped

LEMMA AfterTurnStep ==
  ASSUME IInv, NEW t \in Turns, AfterTurn(t)
  PROVE  IInv' /\ StaleKept
<1> DEFINE new == Ended(turns[t], "done")
<1>1. turns[t] \in Turn BY DEF IInv, TurnsTyped, Turns
<1>2. turns' = [turns EXCEPT ![t] = new] BY DEF AfterTurn
<1>3. turns[t].row = "complete" BY DEF AfterTurn, IInv, RowsFollow
<1>4. /\ new \in Turn /\ new.gen = turns[t].gen /\ new.at = "done" /\ new.row = turns[t].row
      /\ new.stored = turns[t].stored /\ new.spoke = FALSE
  BY <1>1, EndedIs
<1> HIDE DEF new
<1> QED BY <1>2, <1>3, <1>4, OneTurnChanged DEF AfterTurn, IInv, TurnsTyped

LEMMA TurnStartStep ==
  ASSUME IInv, NEW t \in Turns, TurnStart(t)
  PROVE  IInv' /\ StaleKept
<1> DEFINE new == [turns[t] EXCEPT !.at = "generating", !.row = "pending"]
<1>1. turns[t] \in Turn BY DEF IInv, TurnsTyped, Turns
<1>2. new \in Turn /\ new.gen = turns[t].gen /\ new.at = "generating" BY <1>1 DEF Turn
<1>3. turns' = [turns EXCEPT ![t] = new] BY DEF TurnStart, IInv, TurnsTyped, Turns
<1> HIDE DEF new
<1> QED BY <1>2, <1>3, OneTurnChanged DEF TurnStart, IInv, TurnsTyped

\* Text goes into a turn of the current generation only.
LEMMA StoredIs ==
  ASSUME NEW ts \in Seq(Turn), NEW u \in 1..Len(ts)
  PROVE  /\ Stored(ts, u) \in Seq(Turn) /\ Len(Stored(ts, u)) = Len(ts)
         /\ \A v \in 1..Len(ts) :
              /\ Stored(ts, u)[v].gen = ts[v].gen /\ Stored(ts, u)[v].at = ts[v].at
              /\ Stored(ts, u)[v].into = ts[v].into /\ Stored(ts, u)[v].row = ts[v].row
              /\ Stored(ts, u)[v].stored = ts[v].stored
              /\ v # u => Stored(ts, u)[v] = ts[v]
<1>1. ASSUME NEW new \in Turn, new.gen = ts[u].gen, new.at = ts[u].at, new.into = ts[u].into,
             new.row = ts[u].row, new.stored = ts[u].stored, Stored(ts, u) = [ts EXCEPT ![u] = new]
      PROVE  /\ Stored(ts, u) \in Seq(Turn) /\ Len(Stored(ts, u)) = Len(ts)
             /\ \A v \in 1..Len(ts) :
                  /\ Stored(ts, u)[v].gen = ts[v].gen /\ Stored(ts, u)[v].at = ts[v].at
                  /\ Stored(ts, u)[v].into = ts[v].into /\ Stored(ts, u)[v].row = ts[v].row
                  /\ Stored(ts, u)[v].stored = ts[v].stored
                  /\ v # u => Stored(ts, u)[v] = ts[v]
  BY <1>1
<1>2. CASE ts[u].row = "pending"
  <2> DEFINE new == [ts[u] EXCEPT !.spoke = TRUE]
  <2>a. ts[u] \in Turn OBVIOUS
  <2>0. /\ new \in Turn /\ new.gen = ts[u].gen /\ new.at = ts[u].at /\ new.into = ts[u].into
        /\ new.row = ts[u].row /\ new.stored = ts[u].stored
    BY <2>a DEF Turn
  <2>1. Stored(ts, u) = [ts EXCEPT ![u] = new] BY <1>2 DEF Stored
  <2> HIDE DEF new
  <2> QED BY <1>1, <2>0, <2>1
<1>3. CASE ts[u].row # "pending"
  <2> DEFINE new == [ts[u] EXCEPT !.failed = TRUE]
  <2>a. ts[u] \in Turn OBVIOUS
  <2>0. /\ new \in Turn /\ new.gen = ts[u].gen /\ new.at = ts[u].at /\ new.into = ts[u].into
        /\ new.row = ts[u].row /\ new.stored = ts[u].stored
    BY <2>a DEF Turn
  <2>1. Stored(ts, u) = [ts EXCEPT ![u] = new] BY <1>3 DEF Stored
  <2> HIDE DEF new
  <2> QED BY <1>1, <2>0, <2>1
<1> QED BY <1>2, <1>3

LEMMA SentenceStep ==
  ASSUME IInv, NEW t \in Turns, Sentence(t)
  PROVE  IInv' /\ StaleKept
<1> DEFINE u == Receiver(t)
           less == [turns EXCEPT ![t].left = @ - 1]
<1>1. turns[t] \in Turn /\ turns \in Seq(Turn) /\ turns[t].at = "generating" /\ turns[t].left > 0
  BY DEF IInv, TurnsTyped, Turns, Sentence
<1>2. u \in Turns /\ turns[u].gen = turns[t].gen /\ IsCurrent(turns[t].gen)
  BY DEF Sentence, Receiver, IInv, TurnsTyped, Turns
<1>3. u \in 0..MaxTurns
  BY <1>2, BoundsAssumption DEF IInv, TurnsTyped, Turns
<1>a. turns[t].left - 1 \in 0..MaxSentences
  BY <1>1, BoundsAssumption DEF Turn
<1>4. /\ turns[u].speak => turns' = [less EXCEPT ![t].at = "speaking", ![t].into = u]
      /\ ~turns[u].speak => turns' = Stored(less, u)
      /\ UNCHANGED <<active, gen, closed>> /\ closed # "closed"
  BY DEF Sentence
<1> HIDE DEF u
<1>5. CASE turns[u].speak
  <2> DEFINE new == [turns[t] EXCEPT !.left = @ - 1, !.at = "speaking", !.into = u]
  <2>1. new \in Turn /\ new.gen = turns[t].gen /\ new.at = "speaking" /\ new.into = u
    BY <1>1, <1>a, <1>3 DEF Turn
  <2>2. turns' = [turns EXCEPT ![t] = new] BY <1>1, <1>4, <1>5 DEF Turns
  <2> HIDE DEF new
  <2> QED BY <1>2, <1>4, <2>1, <2>2, OneTurnChanged DEF IInv, TurnsTyped
<1>6. CASE ~turns[u].speak
  <2> DEFINE new == [turns[t] EXCEPT !.left = @ - 1]
  <2>1. /\ new \in Turn /\ new.gen = turns[t].gen /\ new.at = "generating" /\ new.row = turns[t].row
        /\ new.stored = turns[t].stored /\ new.into = turns[t].into
    BY <1>1, <1>a DEF Turn
  <2>2. less = [turns EXCEPT ![t] = new] BY <1>1 DEF Turns
  <2> HIDE DEF new
  <2>3. /\ less \in Seq(Turn) /\ Len(less) = Len(turns) /\ less[t] = new
        /\ \A v \in Turns \ {t} : less[v] = turns[v]
    BY <1>1, <2>1, <2>2 DEF Turns
  <2> HIDE DEF less
  <2>4. /\ turns' \in Seq(Turn) /\ Len(turns') = Len(less)
        /\ \A v \in Turns :
             /\ turns'[v].gen = less[v].gen /\ turns'[v].at = less[v].at
             /\ turns'[v].into = less[v].into /\ turns'[v].row = less[v].row
             /\ turns'[v].stored = less[v].stored
             /\ v # u => turns'[v] = less[v]
    <3>1. u \in 1..Len(less) /\ Turns = 1..Len(less) BY <1>2, <2>3 DEF Turns
    <3>2. turns' = Stored(less, u) BY <1>4, <1>6
    <3> QED BY <2>3, <3>1, <3>2, StoredIs
  <2>5. \A v \in Turns :
          /\ turns'[v].gen = turns[v].gen /\ turns'[v].at = turns[v].at
          /\ turns'[v].into = turns[v].into /\ turns'[v].row = turns[v].row
          /\ turns'[v].stored = turns[v].stored
    BY <1>1, <2>1, <2>3, <2>4
  <2>6. IInv'
    BY <1>4, <2>3, <2>4, <2>5, TurnsChanged
       DEF IInv, TurnsTyped, IntoOwnGeneration, RowsFollow, Alive, InFlight
  <2>7. StaleKept BY <1>2, <2>3, <2>4, <2>5 DEF StaleKept
  <2> QED BY <2>6, <2>7
<1> QED BY <1>5, <1>6

\* A turn's task goes on after its speech: a failed voice marks a turn, and only a
\* sentence played under a current fence adds text.
LEMMA SentenceSpokenStep ==
  ASSUME IInv, NEW t \in Turns, NEW how \in {"played", "failed", "lost"}, SentenceSpoken(t, how)
  PROVE  IInv' /\ StaleKept
<1> DEFINE back == [turns EXCEPT ![t].at = "generating", ![t].into = 0]
           new == [turns[t] EXCEPT !.at = "generating", !.into = 0]
           u == turns[t].into
<1>1. turns[t] \in Turn /\ turns \in Seq(Turn) /\ turns[t].at = "speaking"
  BY DEF IInv, TurnsTyped, Turns, SentenceSpoken
<1>2. u \in Turns /\ turns[u].gen = turns[t].gen
  BY <1>1 DEF IInv, IntoOwnGeneration
<1>3. /\ how = "played" => IsCurrent(turns[t].gen) /\ turns' = Stored(back, u)
      /\ how = "failed" => turns' = [back EXCEPT ![u].failed = TRUE]
      /\ how = "lost" => turns' = back
      /\ UNCHANGED <<active, gen, closed>> /\ closed # "closed"
  BY DEF SentenceSpoken
<1>4. 0 \in 0..MaxTurns BY BoundsAssumption
<1>5. /\ new \in Turn /\ new.gen = turns[t].gen /\ new.at = "generating" /\ new.row = turns[t].row
      /\ new.stored = turns[t].stored /\ new.spoke = turns[t].spoke
  BY <1>1, <1>4 DEF Turn
<1>6. back = [turns EXCEPT ![t] = new] BY <1>1 DEF Turns
<1> HIDE DEF new, back
<1>7. /\ back \in Seq(Turn) /\ Len(back) = Len(turns) /\ back[t] = new
      /\ \A v \in Turns \ {t} : back[v] = turns[v]
  BY <1>1, <1>5, <1>6 DEF Turns
<1> HIDE DEF u
<1>8. CASE how = "lost"
  BY <1>3, <1>5, <1>6, <1>8, OneTurnChanged DEF IInv, TurnsTyped
<1>9. ASSUME turns' \in Seq(Turn), Len(turns') = Len(turns),
             \A v \in Turns :
               /\ turns'[v].gen = back[v].gen /\ turns'[v].at = back[v].at
               /\ turns'[v].into = back[v].into /\ turns'[v].row = back[v].row
               /\ turns'[v].stored = back[v].stored,
             \A v \in Turns :
               turns'[v].spoke = back[v].spoke \/ IsCurrent(turns[v].gen)
      PROVE  IInv' /\ StaleKept
  <2>1. \A v \in Turns :
          /\ turns'[v].gen = turns[v].gen /\ turns'[v].row = turns[v].row
          /\ turns'[v].stored = turns[v].stored
          /\ IF v = t THEN turns'[v].at = "generating"
             ELSE turns'[v].at = turns[v].at /\ turns'[v].into = turns[v].into
          /\ turns'[v].spoke = turns[v].spoke \/ IsCurrent(turns[v].gen)
    BY <1>5, <1>7, <1>9
  <2>2. IInv'
    BY <1>3, <1>9, <2>1, TurnsChanged
       DEF IInv, TurnsTyped, IntoOwnGeneration, RowsFollow, Alive, InFlight
  <2>3. StaleKept BY <2>1 DEF StaleKept
  <2> QED BY <2>2, <2>3
<1>10. CASE how = "played"
  <2>1. u \in 1..Len(back) /\ Turns = 1..Len(back) BY <1>2, <1>7 DEF Turns
  <2>2. turns' = Stored(back, u) /\ IsCurrent(turns[u].gen) BY <1>2, <1>3, <1>10
  <2>3. /\ turns' \in Seq(Turn) /\ Len(turns') = Len(turns)
        /\ \A v \in Turns :
              /\ turns'[v].gen = back[v].gen /\ turns'[v].at = back[v].at
              /\ turns'[v].into = back[v].into /\ turns'[v].row = back[v].row
              /\ turns'[v].stored = back[v].stored
              /\ v # u => turns'[v] = back[v]
    BY <1>7, <2>1, <2>2, StoredIs
  <2> QED BY <1>9, <2>2, <2>3
<1>11. CASE how = "failed"
  <2>1. u \in 1..Len(back) /\ Turns = 1..Len(back) BY <1>2, <1>7 DEF Turns
  <2> DEFINE heard == [back[u] EXCEPT !.failed = TRUE]
  <2>2. back[u] \in Turn BY <1>7, <2>1
  <2>3. /\ heard \in Turn /\ heard.gen = back[u].gen /\ heard.at = back[u].at
        /\ heard.into = back[u].into /\ heard.row = back[u].row
        /\ heard.stored = back[u].stored /\ heard.spoke = back[u].spoke
    BY <2>2 DEF Turn
  <2>4. turns' = [back EXCEPT ![u] = heard] BY <1>3, <1>11
  <2> HIDE DEF heard
  <2>5. /\ turns' \in Seq(Turn) /\ Len(turns') = Len(turns) /\ turns'[u] = heard
        /\ \A v \in Turns : v # u => turns'[v] = back[v]
    BY <1>7, <2>1, <2>3, <2>4
  <2> QED BY <1>9, <2>3, <2>5
<1> QED BY <1>8, <1>10, <1>11

LEMMA OverflowStep ==
  ASSUME IInv, NEW t \in Turns, Overflow(t)
  PROVE  IInv' /\ StaleKept
<1> DEFINE new == [turns[t] EXCEPT !.at = "overflow", !.into = 0]
<1>1. turns[t] \in Turn BY DEF IInv, TurnsTyped, Turns
<1>2. 0 \in 0..MaxTurns BY BoundsAssumption
<1>3. new \in Turn /\ new.gen = turns[t].gen /\ new.at = "overflow" BY <1>1, <1>2 DEF Turn
<1>4. turns' = [turns EXCEPT ![t] = new] BY DEF Overflow, IInv, TurnsTyped, Turns
<1>5. gen' \in Gens BY BoundsAssumption DEF Overflow, Cancel, IInv, TurnsTyped, Gens
<1> HIDE DEF new
<1> QED BY <1>3, <1>4, <1>5, OneTurnChanged DEF Overflow, IInv, TurnsTyped

\* commit_generation touches only turns of the generation that completed.
LEMMA CommittedIs ==
  ASSUME IInv, NEW t \in Turns, turns[t].at = "generating", turns' = Committed(t),
         IsCurrent(turns[t].gen), closed # "closed", UNCHANGED <<gen, closed>>,
         active' \in {0, active}
  PROVE  IInv' /\ StaleKept
<1>1. \A v \in Turns : turns[v] \in Turn BY DEF IInv, TurnsTyped, Turns
<1> DEFINE own == [turns[t] EXCEPT !.row = "complete", !.at = "after",
                                   !.stored = @ \/ t \in staged]
           other(v) == [turns[v] EXCEPT !.stored = TRUE]
<1>2. /\ own \in Turn /\ own.gen = turns[t].gen /\ own.at = "after" /\ own.row = "complete"
  BY <1>1 DEF Turn
<1>3. ASSUME NEW v \in Turns
      PROVE  /\ other(v) \in Turn /\ other(v).gen = turns[v].gen /\ other(v).at = turns[v].at
             /\ other(v).into = turns[v].into /\ other(v).row = turns[v].row
  BY <1>1 DEF Turn
<1>4. /\ turns'[t] = own
      /\ \A v \in Turns \ {t} :
           turns'[v] = IF v \in staged /\ turns[v].gen = turns[t].gen /\ turns[v].row = "pending"
                       THEN other(v) ELSE turns[v]
      /\ turns' = [v \in Turns |-> turns'[v]]
  BY DEF Committed
<1> HIDE DEF own, other
<1>5. /\ \A v \in Turns : turns'[v] \in Turn
      /\ \A v \in Turns : turns'[v].gen = turns[v].gen
      /\ \A v \in Turns \ {t} : /\ turns'[v].at = turns[v].at /\ turns'[v].into = turns[v].into
                                /\ turns'[v].row = turns[v].row
                                /\ turns'[v] = turns[v] \/ IsCurrent(turns[v].gen)
  BY <1>1, <1>2, <1>3, <1>4
<1>6. turns' \in Seq(Turn) /\ Len(turns') = Len(turns)
  <2>1. Len(turns) \in Nat /\ Turns = 1..Len(turns) BY DEF IInv, TurnsTyped, Turns
  <2>2. turns' \in [1..Len(turns) -> Turn] BY <1>4, <1>5, <2>1
  <2> QED BY <2>1, <2>2
<1>7. IInv'
  <2>1. ASSUME NEW v \in Turns
        PROVE  /\ turns'[v].gen = turns[v].gen
               /\ turns'[v].at = "speaking" =>
                    turns'[v].into \in Turns /\ turns[turns'[v].into].gen = turns[v].gen
               /\ closed' # "closed" =>
                    /\ turns'[v].at = "scheduled" => turns'[v].row = "none"
                    /\ turns'[v].at = "after" => turns'[v].row = "complete"
                    /\ turns'[v].row = "pending" => Alive(v)' \/ ~EncoderReady
    <3>1. CASE v = t BY <1>2, <1>4, <1>5, <3>1 DEF Alive, InFlight
    <3>2. CASE v # t
      <4>1. /\ turns'[v].gen = turns[v].gen /\ turns'[v].at = turns[v].at
            /\ turns'[v].into = turns[v].into /\ turns'[v].row = turns[v].row
        <5>1. v \in Turns \ {t} BY <3>2
        <5> QED BY <1>5, <5>1, Zenon
      <4> QED BY <4>1 DEF IInv, IntoOwnGeneration, RowsFollow, Alive, InFlight
    <3> QED BY <3>1, <3>2
  <2> QED BY <1>6, <2>1, TurnsChanged DEF IInv, TurnsTyped
<1>8. StaleKept BY <1>5 DEF StaleKept
<1> QED BY <1>7, <1>8

LEMMA GeneratedStep ==
  ASSUME IInv, NEW t \in Turns, NEW status, Generated(t, status)
  PROVE  IInv' /\ StaleKept
<1>1. turns[t] \in Turn /\ turns[t].at = "generating" /\ closed # "closed" /\ UNCHANGED <<gen, closed>>
  BY DEF IInv, TurnsTyped, Turns, Generated
<1>2. active' \in {0, active} BY DEF Generated
<1>3. CASE turns' = Committed(t) /\ IsCurrent(turns[t].gen)
  BY <1>1, <1>2, <1>3, CommittedIs
<1>4. CASE turns' = [turns EXCEPT ![t] = Ended(@, "dead")] /\ ~EncoderReady
  <2> DEFINE new == Ended(turns[t], "dead")
  <2>1. /\ new \in Turn /\ new.gen = turns[t].gen /\ new.at = "dead" /\ new.row = turns[t].row
        /\ new.stored = turns[t].stored /\ new.spoke = FALSE
    BY <1>1, EndedIs
  <2>2. turns' = [turns EXCEPT ![t] = new] BY <1>4
  <2> HIDE DEF new
  <2> QED BY <1>1, <1>2, <1>4, <2>1, <2>2, OneTurnChanged DEF IInv, TurnsTyped
<1>5. CASE turns' = [turns EXCEPT ![t] = Ended([@ EXCEPT !.row = "cancelled"], "done")]
  <2> DEFINE gone == [turns[t] EXCEPT !.row = "cancelled"]
             new == Ended(gone, "done")
  <2>1. /\ gone \in Turn /\ gone.gen = turns[t].gen /\ gone.row = "cancelled"
        /\ gone.stored = turns[t].stored
    BY <1>1 DEF Turn
  <2>2. turns' = [turns EXCEPT ![t] = new] BY <1>5
  <2> HIDE DEF gone
  <2>3. /\ new \in Turn /\ new.gen = turns[t].gen /\ new.at = "done" /\ new.row = "cancelled"
        /\ new.stored = turns[t].stored /\ new.spoke = FALSE
    BY <2>1, EndedIs
  <2> HIDE DEF new
  <2> QED BY <1>1, <1>2, <2>2, <2>3, OneTurnChanged DEF IInv, TurnsTyped
<1>6. Outcome(t, status) = "completed" => IsCurrent(turns[t].gen)
  BY DEF Outcome
<1> QED BY <1>3, <1>4, <1>5, <1>6 DEF Generated, FinishTurn

\* When a teardown is over its caller resumes: a text is scheduled, an overflowing
\* turn goes on, the session closes, or no turn is touched.
LEMMA FenceGateStep ==
  ASSUME IInv, FenceGate
  PROVE  IInv' /\ StaleKept
<1> DEFINE c == callers[1]
<1>1. Resume(c) /\ UNCHANGED gen /\ closed # "closed" /\ gen \in Gens
  BY DEF FenceGate, IInv, TurnsTyped
<1> HIDE DEF c
<1>2. CASE ScheduleTyped(c.arg = 1) /\ UNCHANGED <<active, closed>>
  <2>1. PICK speak \in BOOLEAN : Schedule(TRUE, speak) BY <1>2 DEF ScheduleTyped
  <2> QED BY <1>1, <1>2, <2>1, SchedulePreserves
<1>3. CASE turns' = [turns EXCEPT ![c.arg].at = "generating"] /\ UNCHANGED <<active, closed>>
  <2>1. CASE c.arg \in Turns
    <3> DEFINE t == c.arg
               new == [turns[t] EXCEPT !.at = "generating"]
    <3>1. turns[t] \in Turn BY <2>1 DEF IInv, TurnsTyped, Turns
    <3>2. /\ new \in Turn /\ new.gen = turns[t].gen /\ new.at = "generating"
          /\ new.row = turns[t].row /\ new.stored = turns[t].stored /\ new.spoke = turns[t].spoke
      BY <3>1 DEF Turn
    <3>3. turns' = [turns EXCEPT ![t] = new] BY <1>3
    <3> HIDE DEF new, t
    <3> QED BY <1>1, <1>3, <2>1, <3>2, <3>3, OneTurnChanged DEF t, IInv, TurnsTyped
  <2>2. CASE c.arg \notin Turns
    <3>1. turns' = turns BY <1>3, <2>2 DEF IInv, TurnsTyped, Turns
    <3> QED BY <1>1, <1>3, <3>1, TurnsUntouched
  <2> QED BY <2>1, <2>2
<1>4. CASE CloseSession
  <2>1. turns' = [t \in Turns |-> IF Alive(t) THEN Ended(turns[t], "dead") ELSE turns[t]]
        /\ active' = 0 /\ closed' = "closed"
    BY <1>4 DEF CloseSession
  <2>2. \A t \in Turns : turns[t] \in Turn BY DEF IInv, TurnsTyped, Turns
  <2>3. \A t \in Turns :
          /\ turns'[t] \in Turn /\ turns'[t].gen = turns[t].gen
          /\ turns'[t].row = turns[t].row /\ turns'[t].stored = turns[t].stored
          /\ turns'[t].at # "speaking" /\ (turns'[t].spoke => turns[t].spoke)
    <3> TAKE t \in Turns
    <3> DEFINE new == Ended(turns[t], "dead")
    <3>1. /\ new \in Turn /\ new.gen = turns[t].gen /\ new.at = "dead" /\ new.row = turns[t].row
          /\ new.stored = turns[t].stored /\ new.spoke = FALSE
      BY <2>2, EndedIs
    <3>2. turns'[t] = IF Alive(t) THEN new ELSE turns[t] BY <2>1
    <3> HIDE DEF new
    <3> QED BY <2>2, <3>1, <3>2 DEF Alive, InFlight
  <2>4. turns' \in Seq(Turn) /\ Len(turns') = Len(turns)
    <3>1. Len(turns) \in Nat /\ Turns = 1..Len(turns) BY DEF IInv, TurnsTyped, Turns
    <3>2. turns' = [t \in Turns |-> turns'[t]] BY <2>1
    <3>3. turns' \in [1..Len(turns) -> Turn] BY <2>3, <3>1, <3>2
    <3> QED BY <3>1, <3>3
  <2>5. IInv' BY <1>1, <2>1, <2>3, <2>4, TurnsChanged
  <2>6. StaleKept BY <2>3 DEF StaleKept
  <2> QED BY <2>5, <2>6
<1>5. CASE UNCHANGED <<turns, active, closed>>
  BY <1>1, <1>5, TurnsUntouched
<1>6. \/ ScheduleTyped(c.arg = 1) /\ UNCHANGED <<active, closed>>
      \/ turns' = [turns EXCEPT ![c.arg].at = "generating"] /\ UNCHANGED <<active, closed>>
      \/ CloseSession
      \/ UNCHANGED <<turns, active, closed>>
  BY <1>1 DEF Resume
<1> QED BY <1>2, <1>3, <1>4, <1>5, <1>6
-----------------------------------------------------------------------------
\* The steps of the microphone, the devices, the watchdog and the teardown that
\* neither schedule nor touch a turn.
LEMMA OtherSteps ==
  ASSUME IInv,
         \/ Onset \/ Utterance \/ SttStart \/ SttStale \/ WatchdogFires \/ Shutdown \/ FenceStt
         \/ \E b \in BOOLEAN : StreamsRebuilt(b) \/ Microphone(b)
         \/ \E new \in Snapshots : PollDevices(new)
         \/ \E t \in Turns : ToolCall(t)
         \/ UNCHANGED vars
  PROVE  IInv' /\ StaleKept
<1>1. gen \in Gens /\ (gen < MaxGen => gen + 1 \in Gens)
  BY BoundsAssumption DEF IInv, TurnsTyped, Gens
<1>2. /\ UNCHANGED <<turns, active>> /\ gen' \in Gens
      /\ closed' # "closed" => closed # "closed"
  <2>1. CASE Onset BY <1>1, <2>1 DEF Onset, Cancel
  <2>2. CASE Utterance \/ SttStart \/ SttStale \/ FenceStt
    BY <1>1, <2>2 DEF Utterance, SttStart, SttStale, FenceStt
  <2>3. CASE WatchdogFires BY <1>1, <2>3 DEF WatchdogFires, Cancel
  <2>4. CASE Shutdown BY <1>1, <2>4 DEF Shutdown, Cancel
  <2>5. ASSUME NEW b \in BOOLEAN, StreamsRebuilt(b) \/ Microphone(b)
        PROVE  /\ UNCHANGED <<turns, active>> /\ gen' \in Gens
               /\ closed' # "closed" => closed # "closed"
    BY <1>1, <2>5 DEF StreamsRebuilt, Microphone, Cancel
  <2>6. ASSUME NEW new \in Snapshots, PollDevices(new)
        PROVE  /\ UNCHANGED <<turns, active>> /\ gen' \in Gens
               /\ closed' # "closed" => closed # "closed"
    BY <1>1, <2>6 DEF PollDevices, Cancel
  <2>7. ASSUME NEW t \in Turns, ToolCall(t)
        PROVE  /\ UNCHANGED <<turns, active>> /\ gen' \in Gens
               /\ closed' # "closed" => closed # "closed"
    BY <1>1, <2>7 DEF ToolCall
  <2>8. CASE UNCHANGED vars BY <1>1, <2>8 DEF vars
  <2> QED BY <2>1, <2>2, <2>3, <2>4, <2>5, <2>6, <2>7, <2>8
<1> QED BY <1>2, TurnsUntouched

LEMMA SttResultStep ==
  ASSUME IInv, NEW ok \in BOOLEAN, SttResult(ok)
  PROVE  IInv' /\ StaleKept
<1>1. UNCHANGED <<gen, active, closed>> /\ gen' \in Gens
  BY DEF SttResult, IInv, TurnsTyped
<1>2. CASE Schedule(FALSE, TRUE) BY <1>1, <1>2, SchedulePreserves
<1>3. CASE UNCHANGED turns BY <1>1, <1>3, TurnsUntouched
<1> QED BY <1>2, <1>3 DEF SttResult

LEMMA SubmitTextStep ==
  ASSUME IInv, NEW speak \in BOOLEAN, SubmitText(speak)
  PROVE  IInv' /\ StaleKept
<1>1. UNCHANGED <<active, closed>> /\ gen' \in Gens
  BY BoundsAssumption DEF SubmitText, Cancel, IInv, TurnsTyped, Gens
<1>2. CASE Schedule(TRUE, speak) BY <1>1, <1>2, SchedulePreserves
<1>3. CASE UNCHANGED turns BY <1>1, <1>3, TurnsUntouched
<1> QED BY <1>2, <1>3 DEF SubmitText, ScheduleTyped

LEMMA StepPreserves == IInv /\ [Next]_vars => IInv' /\ StaleKept
<1> SUFFICES ASSUME IInv, [Next]_vars PROVE IInv' /\ StaleKept OBVIOUS
<1>1. ASSUME NEW t \in Turns, TurnStep(t) PROVE IInv' /\ StaleKept
  BY <1>1, TurnSkippedStep, TurnStartStep, SentenceStep, OverflowStep, AfterTurnStep,
     SentenceSpokenStep, GeneratedStep DEF TurnStep
<1>2. CASE \E ok \in BOOLEAN : SttResult(ok) BY <1>2, SttResultStep
<1>3. CASE \E b \in BOOLEAN : SubmitText(b) BY <1>3, SubmitTextStep
<1>4. CASE FenceGate BY <1>4, FenceGateStep
<1>5. CASE \/ Onset \/ Utterance \/ SttStart \/ SttStale \/ WatchdogFires \/ Shutdown \/ FenceStt
           \/ \E b \in BOOLEAN : StreamsRebuilt(b) \/ Microphone(b)
           \/ \E new \in Snapshots : PollDevices(new)
           \/ \E t \in Turns : ToolCall(t)
           \/ UNCHANGED vars
  BY <1>5, OtherSteps
<1> QED BY <1>1, <1>2, <1>3, <1>4, <1>5 DEF Next, Teardown

\* The turns stay well formed and each is spoken and stored under its own
\* generation, whatever the number of turns, cancels and device changes.
THEOREM Invariance == Spec => []IInv
<1>1. Init => IInv BY InitEstablishes
<1>2. IInv /\ [Next]_vars => IInv' BY StepPreserves
<1> QED BY <1>1, <1>2, PTL DEF Spec

\* "A cancelled turn leaves nothing behind" (session.py): once the generation of a
\* turn is left, no step of any task adds text or memories to it or completes it.
THEOREM CancelledTurnsLeaveNothing == Spec => StaleTurnsFrozen
<1>1. IInv /\ [Next]_vars => [StaleKept]_vars BY StepPreserves
<1>2. Spec => [][StaleKept]_vars BY <1>1, Invariance, PTL DEF Spec
<1> QED BY <1>2 DEF StaleTurnsFrozen, StaleKept

\* With a usable encoder every row a turn task began is settled when the task ends
\* (session.py, _finish_turn and its finally), until shutdown cuts tasks short.
THEOREM RowsAreSettled ==
  ASSUME EncoderReady
  PROVE  Spec => []RowsSettled
<1>1. IInv => RowsSettled BY DEF IInv, RowsFollow, RowsSettled
<1> QED BY <1>1, Invariance, PTL
-----------------------------------------------------------------------------
(* The fences.  Every cancel moves the generation by one and queues a caller, and
   every teardown that ends moves the gate by one and releases the first caller,
   so the callers waiting are exactly the generations the gate has to catch up. *)

\* What coordinator.cancel() knows of a caller.
Callers == {"input", "text", "watchdog", "mic", "devices", "turn", "shutdown"}
Caller  == [cur : Int, who : Callers, arg : Int]

\* The inductive invariant of the fences.
FenceInv ==
  /\ callers \in Seq(Caller)
  /\ gen \in Nat /\ gateGen \in Nat /\ gateGen = gen - Len(callers)
  /\ \A i \in 1..Len(callers) : callers[i].cur = gateGen + i
  /\ \/ stage = "stt" /\ sttGen = gateGen
     \/ stage = "gate" /\ sttGen = gateGen + 1 /\ callers # <<>>
  /\ pending \in Int /\ pending <= gateGen
  /\ running \in Int /\ running <= gateGen

\* Another caller joins the queue of the lock.
LEMMA CancelQueues ==
  ASSUME FenceInv, NEW who \in Callers, NEW arg \in Int, Cancel(who, arg),
         UNCHANGED <<gateGen, stage, sttGen, pending, running>>
  PROVE  FenceInv'
<1> DEFINE c == [cur |-> gen + 1, who |-> who, arg |-> arg]
<1>1. c \in Caller /\ c.cur = gen + 1 BY DEF FenceInv, Caller
<1>2. callers' = Append(callers, c) /\ gen' = gen + 1 BY DEF Cancel
<1> HIDE DEF c
<1>3. /\ callers' \in Seq(Caller)
      /\ Len(callers') = Len(callers) + 1 /\ Len(callers) \in Nat
      /\ \A i \in 1..Len(callers) : callers'[i] = callers[i]
      /\ callers'[Len(callers) + 1] = c
  BY <1>1, <1>2 DEF FenceInv
<1>4. \A i \in 1..Len(callers') : callers'[i].cur = gateGen + i
  <2> TAKE i \in 1..Len(callers')
  <2>1. CASE i \in 1..Len(callers) BY <1>3, <2>1 DEF FenceInv
  <2>2. CASE i = Len(callers) + 1 BY <1>1, <1>3, <2>2 DEF FenceInv
  <2> QED BY <1>3, <2>1, <2>2
<1>5. gen' \in Nat /\ gateGen' = gen' - Len(callers')
  BY <1>2, <1>3 DEF FenceInv
<1>7. callers' # <<>> BY <1>3
<1>6. \/ stage' = "stt" /\ sttGen' = gateGen'
      \/ stage' = "gate" /\ sttGen' = gateGen' + 1
  BY DEF FenceInv
<1> QED BY <1>3, <1>4, <1>5, <1>6, <1>7 DEF FenceInv

\* A step that leaves lock and fences alone may drop what STT holds, or replace it
\* by work of a generation the gate has reached.
LEMMA FencesUntouched ==
  ASSUME FenceInv, UNCHANGED <<gen, callers, stage, sttGen, gateGen>>,
         pending' \in {pending, None, gateGen}, running' \in {running, None, pending}
  PROVE  FenceInv'
BY DEF FenceInv, None

\* Disarming when nobody is tearing anything down changes nothing.
LEMMA DisarmIdle ==
  ASSUME callers = <<>>, Disarm
  PROVE  UNCHANGED <<callers, stage>>
BY DEF Disarm

\* Only a result or an utterance of the current generation disarms, and then the
\* gate has caught up, so nobody is inside cancel().
LEMMA CaughtUp ==
  ASSUME FenceInv, gateGen = gen
  PROVE  callers = <<>>
BY DEF FenceInv

LEMMA InitFenced == Init => FenceInv
<1> SUFFICES ASSUME Init PROVE FenceInv OBVIOUS
<1>0. callers = <<>> BY DEF Init
<1>1. callers \in Seq(Caller) /\ Len(callers) = 0 BY <1>0
<1>2. gen = 0 /\ gateGen = 0 /\ sttGen = 0 /\ stage = "stt" /\ pending = -1 /\ running = -1
  BY DEF Init, None
<1>3. \A i \in 1..Len(callers) : callers[i].cur = gateGen + i
  <2>1. \A i \in 1..Len(callers) : FALSE BY <1>1
  <2> QED BY <2>1
<1>4. gateGen = gen - Len(callers) BY <1>1, <1>2
<1> QED BY <1>1, <1>2, <1>3, <1>4 DEF FenceInv

\* The steps of the microphone and of STT.
LEMMA SpeechFenced ==
  ASSUME FenceInv,
         \/ Onset \/ Utterance \/ SttStart \/ SttStale \/ WatchdogFires
         \/ \E ok \in BOOLEAN : SttResult(ok)
  PROVE  FenceInv'
<1>1. CASE Onset
  <2>1. CASE Cancel("input", 0) BY <1>1, <2>1, CancelQueues DEF Onset, Callers, fences, stt
  <2>2. CASE UNCHANGED <<gen, callers>>
    BY <1>1, <2>2, FencesUntouched DEF Onset, fences, stt
  <2> QED BY <1>1, <2>1, <2>2 DEF Onset
<1>2. CASE Utterance
  <2>1. CASE IsCurrent(gateGen) /\ SttAccepts(gateGen)
    <3>1. callers = <<>> BY <2>1, CaughtUp DEF IsCurrent
    <3>2. UNCHANGED <<callers, stage>> BY <1>2, <2>1, <3>1, DisarmIdle DEF Utterance
    <3> QED BY <1>2, <2>1, <3>2, FencesUntouched DEF Utterance
  <2>2. CASE ~(IsCurrent(gateGen) /\ SttAccepts(gateGen))
    BY <1>2, <2>2, FencesUntouched DEF Utterance
  <2> QED BY <2>1, <2>2
<1>3. CASE SttStart BY <1>3, FencesUntouched DEF SttStart, fences
<1>4. CASE SttStale BY <1>4, FencesUntouched DEF SttStale, fences
<1>5. CASE WatchdogFires
  <2>1. CASE Cancel("watchdog", 0)
    BY <1>5, <2>1, CancelQueues DEF WatchdogFires, Callers, fences, stt
  <2>2. CASE UNCHANGED <<gen, callers>>
    BY <1>5, <2>2, FencesUntouched DEF WatchdogFires, fences, stt
  <2> QED BY <1>5, <2>1, <2>2 DEF WatchdogFires
<1>6. ASSUME NEW ok \in BOOLEAN, SttResult(ok) PROVE FenceInv'
  <2>1. running = gen /\ running <= gateGen /\ gateGen \in Nat /\ gen \in Nat
        /\ gateGen = gen - Len(callers) /\ Len(callers) \in Nat
    BY <1>6 DEF SttResult, IsCurrent, FenceInv
  <2>2. callers = <<>> BY <2>1, CaughtUp
  <2>3. UNCHANGED <<callers, stage>> BY <1>6, <2>2, DisarmIdle DEF SttResult
  <2> QED BY <1>6, <2>3, FencesUntouched DEF SttResult, fences
<1> QED BY <1>1, <1>2, <1>3, <1>4, <1>5, <1>6

\* The commands of the page, the device poll and the shutdown.
LEMMA CommandsFenced ==
  ASSUME FenceInv,
         \/ Shutdown
         \/ \E b \in BOOLEAN : SubmitText(b) \/ Microphone(b) \/ StreamsRebuilt(b)
         \/ \E new \in Snapshots : PollDevices(new)
  PROVE  FenceInv'
<1>1. CASE Shutdown BY <1>1, CancelQueues DEF Shutdown, Callers, fences, stt
<1>2. ASSUME NEW b \in BOOLEAN, SubmitText(b) PROVE FenceInv'
  <2>1. CASE Cancel("text", IF b THEN 1 ELSE 0)
    BY <1>2, <2>1, CancelQueues DEF SubmitText, Callers, fences, stt
  <2>2. CASE UNCHANGED <<gen, callers>>
    BY <1>2, <2>2, FencesUntouched DEF SubmitText, fences, stt
  <2> QED BY <1>2, <2>1, <2>2 DEF SubmitText
<1>3. ASSUME NEW b \in BOOLEAN, Microphone(b) PROVE FenceInv'
  <2>1. CASE Cancel("mic", 0)
    BY <1>3, <2>1, CancelQueues DEF Microphone, Callers, fences, stt
  <2>2. CASE UNCHANGED <<gen, callers>>
    BY <1>3, <2>2, FencesUntouched DEF Microphone, fences, stt
  <2> QED BY <1>3, <2>1, <2>2 DEF Microphone
<1>4. ASSUME NEW b \in BOOLEAN, StreamsRebuilt(b) PROVE FenceInv'
  BY <1>4, FencesUntouched DEF StreamsRebuilt, fences, stt
<1>5. ASSUME NEW new \in Snapshots, PollDevices(new) PROVE FenceInv'
  <2>1. CASE Cancel("devices", 0)
    BY <1>5, <2>1, CancelQueues DEF PollDevices, Callers, fences, stt
  <2>2. CASE UNCHANGED <<gen, callers>>
    BY <1>5, <2>2, FencesUntouched DEF PollDevices, fences, stt
  <2> QED BY <1>5, <2>1, <2>2 DEF PollDevices
<1> QED BY <1>1, <1>2, <1>3, <1>4, <1>5

\* The teardown: STT moves to the holder's generation, then the gate.
LEMMA TeardownFenced ==
  ASSUME FenceInv, Teardown
  PROVE  FenceInv'
<1>1. CASE FenceStt
  <2>1. callers # <<>> => callers[1].cur = gateGen + 1 BY DEF FenceInv
  <2> QED BY <1>1, <2>1 DEF FenceStt, FenceInv, None
<1>2. CASE FenceGate
  <2>1. /\ callers # <<>> /\ Len(callers) \in Nat \ {0} /\ callers[1].cur = gateGen + 1
        /\ stage = "gate" /\ sttGen = gateGen + 1
    BY <1>2 DEF FenceGate, FenceInv
  <2>2. /\ callers' = Tail(callers) /\ gateGen' = gateGen + 1 /\ stage' = "stt"
        /\ UNCHANGED <<gen, sttGen, running>>
    BY <1>2, <2>1 DEF FenceGate
  <2>3. pending' \in {pending, None}
    BY <1>2 DEF FenceGate, Resume, CloseSession, SttClosed
  <2>4. /\ callers' \in Seq(Caller)
        /\ Len(callers') = Len(callers) - 1
        /\ \A i \in 1..Len(callers') : callers'[i] = callers[i + 1] /\ i + 1 \in 1..Len(callers)
    BY <2>1, <2>2 DEF FenceInv
  <2>5. \A i \in 1..Len(callers') : callers'[i].cur = gateGen' + i
    BY <2>2, <2>4 DEF FenceInv
  <2>6. gateGen' \in Nat /\ gateGen' = gen' - Len(callers') /\ gen' \in Nat
    BY <2>1, <2>2, <2>4 DEF FenceInv
  <2>7. /\ pending' \in Int /\ pending' <= gateGen' /\ running' \in Int /\ running' <= gateGen'
    BY <2>2, <2>3 DEF FenceInv, None
  <2> QED BY <2>1, <2>2, <2>4, <2>5, <2>6, <2>7 DEF FenceInv
<1> QED BY <1>1, <1>2 DEF Teardown

\* The turn tasks touch the lock only to give up their own generation.
LEMMA TurnsFenced ==
  ASSUME FenceInv, NEW t \in Turns, t \in Int, TurnStep(t) \/ ToolCall(t)
  PROVE  FenceInv'
<1>1. CASE Overflow(t) BY <1>1, CancelQueues DEF Overflow, Callers, fences, stt
<1>2. CASE ~Overflow(t)
  <2>1. UNCHANGED <<gen, callers, stage, sttGen, gateGen, pending, running>>
    BY <1>2 DEF TurnStep, TurnSkipped, TurnStart, Sentence, AfterTurn, SentenceSpoken,
                Generated, ToolCall, fences, stt
  <2> QED BY <2>1, FencesUntouched
<1> QED BY <1>1, <1>2

LEMMA StepFenced == FenceInv /\ [Next]_vars => FenceInv'
<1> SUFFICES ASSUME FenceInv, [Next]_vars PROVE FenceInv' OBVIOUS
<1>1. ASSUME NEW t \in Turns, TurnStep(t) \/ ToolCall(t) PROVE FenceInv'
  BY <1>1, TurnsFenced DEF Turns
<1>2. CASE UNCHANGED vars
  BY <1>2, FencesUntouched DEF vars, fences, stt
<1> QED BY <1>1, <1>2, SpeechFenced, CommandsFenced, TeardownFenced DEF Next

\* No disarming kills a watchdog inside its own cancel() (session.py,
\* _cancel_watchdog): when nobody is tearing down, STT and gate have the current
\* generation, however many callers have queued on the lock before.
THEOREM FencesMeet == Spec => []FencesSettled
<1>1. FenceInv => FencesSettled BY DEF FenceInv, FencesSettled
<1> QED BY <1>1, InitFenced, StepFenced, PTL DEF Spec
-----------------------------------------------------------------------------
(* The two fences of this module keep what the coordinator promises of one *)
(* counter, whatever order its callers, turns and watchdog run in.         *)

\* A step advances the counter, or one fence by one towards it, or neither.
LEMMA OneFenceMoves ==
  ASSUME FenceInv, [Next]_vars
  PROVE  \/ gen' = gen + 1 /\ UNCHANGED <<sttGen, gateGen>>
         \/ UNCHANGED <<gen, gateGen>> /\ sttGen' = sttGen + 1 /\ sttGen' <= gen
         \/ UNCHANGED <<gen, sttGen>> /\ gateGen' = gateGen + 1 /\ gateGen' <= gen
         \/ UNCHANGED <<gen, sttGen, gateGen>>
<1>1. CASE Teardown
  <2>1. /\ callers # <<>> /\ callers \in Seq(Caller)
        /\ \A i \in 1..Len(callers) : callers[i].cur = gateGen + i
        /\ gen \in Nat /\ gateGen \in Nat /\ gateGen = gen - Len(callers)
        /\ stage = "stt" => sttGen = gateGen
    BY <1>1 DEF Teardown, FenceStt, FenceGate, FenceInv
  <2>2. Len(callers) \in Nat \ {0} /\ callers[1].cur = gateGen + 1 /\ gateGen + 1 <= gen
    BY <2>1
  <2>3. CASE FenceStt
    BY <2>1, <2>2, <2>3 DEF FenceStt
  <2>4. CASE FenceGate
    BY <2>1, <2>2, <2>4 DEF FenceGate
  <2> QED BY <1>1, <2>3, <2>4 DEF Teardown
<1>2. CASE Onset \/ WatchdogFires \/ Shutdown \/ \E b \in BOOLEAN : SubmitText(b) \/ Microphone(b)
  BY <1>2 DEF Onset, WatchdogFires, Shutdown, SubmitText, Microphone, Cancel, fences
<1>3. CASE \E new \in Snapshots : PollDevices(new)
  BY <1>3 DEF PollDevices, Cancel, fences
<1>4. CASE \/ Utterance \/ SttStart \/ SttStale
           \/ \E ok \in BOOLEAN : SttResult(ok) \/ StreamsRebuilt(ok)
  BY <1>4 DEF Utterance, SttStart, SttStale, SttResult, StreamsRebuilt, fences
<1>5. CASE \E t \in Turns : TurnStep(t) \/ ToolCall(t)
  BY <1>5 DEF TurnStep, TurnSkipped, TurnStart, Sentence, Overflow, AfterTurn, SentenceSpoken,
              Generated, ToolCall, Cancel, fences
<1>6. CASE UNCHANGED vars
  BY <1>6 DEF vars, fences
<1> QED BY <1>1, <1>2, <1>3, <1>4, <1>5, <1>6 DEF Next

\* The teardown this module reduces to two fences is one GenerationFence lets happen, as
\* the coordinator's own is: STT and turn gate only ever catch up with the counter
\* (coordinator.py:108-123), for every number of callers waiting on the lock.
THEOREM ImplementsFence == Spec => FenceSpec
<1>1. Init => SttFence!Init /\ GateFence!Init
  BY DEF Init, SttFence!Init, GateFence!Init
<1>2. FenceInv /\ [Next]_vars => /\ [SttFence!Next]_(SttFence!fenceVars)
                                /\ [GateFence!Next]_(GateFence!fenceVars)
  <2> SUFFICES ASSUME FenceInv, [Next]_vars
               PROVE  /\ [SttFence!Next]_(SttFence!fenceVars)
                      /\ [GateFence!Next]_(GateFence!fenceVars)
    OBVIOUS
  <2>1. gen \in Nat /\ sttGen \in Nat /\ gateGen \in Nat
    BY DEF FenceInv
  <2> QED
    BY <2>1, OneFenceMoves
       DEF SttFence!Next, SttFence!Advance, SttFence!Adopt, SttFence!fenceVars,
           GateFence!Next, GateFence!Advance, GateFence!Adopt, GateFence!fenceVars
<1>3. FenceInv /\ [Next]_vars => FenceInv'
  BY StepFenced
<1> QED
  BY <1>1, <1>2, <1>3, InitFenced, PTL DEF Spec, FenceSpec, SttFence!Spec, GateFence!Spec
=============================================================================
