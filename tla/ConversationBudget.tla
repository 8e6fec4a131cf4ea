------------------------- MODULE ConversationBudget -------------------------
(***************************************************************************)
(* llm/streaming.py's ConversationGenerator over llm/budget.py's ledger:   *)
(* every provider attempt reserves its worst case, streams under the       *)
(* generation fence, may be retried once on the cheap model, and settles   *)
(* what it cost into memory and SQLite.  Costs are small integers.         *)
(***************************************************************************)
EXTENDS Integers, FiniteSets, Functions

CONSTANTS
  Turns,        \* turn tasks; they may overlap
  Months,       \* bound on the Asia/Taipei months, 1..Months
  MaxSentences, \* SentenceGate(max_sentences=3)
  WorstTerra, WorstLuna, \* worst-case reservation of each model
  Fallback,     \* fallback_at_twd: from here on Luna is chosen
  Lock,         \* lock_at_twd: reservations never reach it
  MaxBill,      \* bound on what an attempt costs, reserved or billed
  Deviations,   \* what a bill may be above or below the reservation of its attempt
  MaxFailures   \* bound on the settlements SQLite refuses

ASSUME CostAssumption ==
  /\ WorstTerra \in Nat \ {0} /\ WorstLuna \in Nat \ {0}
  /\ Fallback \in Nat /\ Lock \in Nat \ {0} /\ MaxFailures \in Nat
  /\ MaxBill \in Nat /\ WorstTerra <= MaxBill /\ WorstLuna <= MaxBill
  /\ Deviations \subseteq Int
  /\ Months \in Nat \ {0} /\ MaxSentences \in Nat \ {0}

VARIABLES
  month,     \* the current budget period
  primary,   \* primary_model of this process: the on-device model, or none
  stale,     \* turns whose generation is no longer current
  turn,      \* what generate() of each turn is doing
  active,    \* ledger._active: attempts reserved and not settled
  confirmed, \* ledger._confirmed, by period
  rows,      \* SQLite llm_usage: attempts recorded, with their charge
  made,      \* history variable: every attempt ever reserved
  lost,      \* history variable: attempts a restart forgot
  failures   \* settlements SQLite has refused

vars == <<month, primary, stale, turn, active, confirmed, rows, made, lost, failures>>

Terra   == "gpt-5.6-terra"
Luna    == "gpt-5.6-luna"
Local   == "on-device"
Periods == 1..Months

\* The worst case of one attempt; inference on the device is free.
Worst(model) ==
  CASE model = Terra -> WorstTerra [] model = Luna -> WorstLuna [] model = Local -> 0

Amounts == 0..MaxBill

\* What the provider may bill for an attempt.  The session's input estimate leaves
\* out the persona and the tool schemas and is clipped at max_input_tokens, so the
\* bill of a model that is not free may exceed the reservation.
Bills(model) ==
  IF Worst(model) = 0 THEN {0} ELSE {c \in Amounts : c - Worst(model) \in Deviations}

\* An attempt: its turn and try, the reservation's model and period, and what
\* the provider will bill for it.
Attempt == [turn : Turns, try : {1, 2}, model : {Terra, Luna, Local}, period : Periods,
            cost : Amounts]

\* What stands for the attempt of a turn that reserved none yet.
NoAttempt(t) == [turn |-> t, try |-> 0, model |-> Luna, period |-> 1, cost |-> 0]
Running   == {"streaming", "emitting", "draining"}
Idle(t) == [at |-> "idle", attempt |-> NoAttempt(t), usage |-> FALSE, terminal |-> "none",
         said |-> 0, then |-> "none", voiced |-> {}, result |-> "none"]

Init ==
  /\ month = 1 /\ primary \in {"none", Local} /\ stale = {} /\ failures = 0
  /\ turn = [t \in Turns |-> Idle(t)]
  /\ active = {} /\ confirmed = [p \in Periods |-> 0] /\ rows = {}
  /\ made = {} /\ lost = {}
-----------------------------------------------------------------------------
\* What each attempt has reserved, and the part of its bill within the reservation.
Reserved == [a \in Attempt |-> Worst(a.model)]
Foreseen == [a \in Attempt |-> IF a.cost <= Worst(a.model) THEN a.cost ELSE Worst(a.model)]

In(p, attempts) == {a \in attempts : a.period = p}

\* total_with_reservations, over given confirmed costs and reservations.
Total(p, conf, act) == conf[p] + SumFunctionOnSet(Reserved, In(p, act))

Ended(r, result) == [r EXCEPT !.at = "ended", !.result = result, !.usage = FALSE,
                              !.terminal = "none", !.said = 0, !.then = "none"]

Streaming(r, a) == [r EXCEPT !.at = "streaming", !.attempt = a, !.usage = FALSE,
                             !.terminal = "none", !.said = 0]

\* Mutant: the retry is reserved without looking at the lock.
ReserveUnlocked(t, try, model, p, conf, act, r) ==
  \E cost \in Bills(model) :
    LET a == [turn |-> t, try |-> try, model |-> model, period |-> p, cost |-> cost] IN
    /\ active' = act \cup {a}
    /\ made' = made \cup {a}
    /\ turn' = [turn EXCEPT ![t] = Streaming(r, a)]

\* The lock stops what costs money, never a free attempt.
Locked(model, p, conf, act) ==
  Worst(model) > 0 /\ Total(p, conf, act) + Worst(model) >= Lock

\* reserve_model, then the attempt's stream; or the budget lock ends the turn.
Reserve(t, try, model, p, conf, act, r) ==
  IF Locked(model, p, conf, act)
  THEN /\ turn' = [turn EXCEPT ![t] = Ended(r, "budget_locked")]
       /\ active' = act
       /\ UNCHANGED made
  ELSE \E cost \in Bills(model) :
         LET a == [turn |-> t, try |-> try, model |-> model, period |-> p, cost |-> cost] IN
         /\ active' = act \cup {a}
         /\ made' = made \cup {a}
         /\ turn' = [turn EXCEPT ![t] = Streaming(r, a)]

\* reserve_conversation: the cheap model once Terra would cross the threshold.
CloudModel == IF Total(month, confirmed, active) + WorstTerra >= Fallback THEN Luna ELSE Terra

\* generate() up to its first attempt: a pinned model skips the selection.
Generate(t) ==
  /\ turn[t].at = "idle"
  /\ Reserve(t, 1, IF primary = Local THEN Local ELSE CloudModel, month, confirmed, active, turn[t])
  /\ UNCHANGED <<month, primary, stale, confirmed, rows, lost, failures>>

\* Mutant: an attempt without usage is charged nothing.
ChargeNothing(a, usage) == IF usage THEN a.cost ELSE 0

\* The charge of an attempt: what it reported, or all that was reserved.
Charge(a, usage) == IF usage THEN a.cost ELSE Worst(a.model)

\* llm_usage: an attempt with its charge, and the column of the charges.
UsageRow == [attempt : Attempt, charge : Amounts]
Charges  == [r \in UsageRow |-> r.charge]

\* What a recorded charge has beyond the reservation of its attempt, per period.
Excess == [r \in UsageRow |->
             IF r.charge <= Worst(r.attempt.model) THEN 0 ELSE r.charge - Worst(r.attempt.model)]
Overrun(p, rws) == SumFunctionOnSet(Excess, {r \in rws : r.attempt.period = p})

\* record_usage: the row that outlives the process.
Row(a, usage) == [attempt |-> a, charge |-> Charge(a, usage)]

\* ledger.settle: the row is written first; then the cost is confirmed.
Settle(a, usage) ==
  /\ confirmed' = [confirmed EXCEPT ![a.period] = @ + Charge(a, usage)]
  /\ rows' = rows \cup {Row(a, usage)}
  /\ UNCHANGED failures

\* Mutant: the cost is confirmed before a row that SQLite then refuses.
SettleRefusedConfirms(t) ==
  /\ failures < MaxFailures
  /\ failures' = failures + 1
  /\ turn' = [turn EXCEPT ![t] = Ended(@, "error")]
  /\ confirmed' = [confirmed EXCEPT ![turn[t].attempt.period] = @ + Worst(turn[t].attempt.model)]
  /\ UNCHANGED <<active, rows, made>>

\* The settlement sink raised: the reservation is put back and generate()
\* raises with it.
SettleRefused(t) ==
  /\ failures < MaxFailures
  /\ failures' = failures + 1
  /\ turn' = [turn EXCEPT ![t] = Ended(@, "error")]
  /\ UNCHANGED <<active, confirmed, rows, made>>

\* The attempt settles with the usage it has, and its turn goes on as r.
SettleThen(t, usage, r) ==
  \/ /\ Settle(turn[t].attempt, usage)
     /\ active' = active \ {turn[t].attempt}
     /\ turn' = [turn EXCEPT ![t] = r]
     /\ UNCHANGED made
  \/ SettleRefused(t)
-----------------------------------------------------------------------------
\* The next frame of the stream reaches a loop whose fence is still current.
Reading(t) == turn[t].at = "streaming" /\ t \notin stale

UsageFrame(t) ==
  /\ Reading(t) /\ ~turn[t].usage
  /\ turn' = [turn EXCEPT ![t].usage = TRUE]
  /\ UNCHANGED <<month, primary, stale, active, confirmed, rows, made, lost, failures>>

TerminalFrame(t, kind) ==
  /\ Reading(t) /\ turn[t].terminal = "none"
  /\ turn' = [turn EXCEPT ![t].terminal = kind]
  /\ UNCHANGED <<month, primary, stale, active, confirmed, rows, made, lost, failures>>

\* The sentence gate releases a sentence and emit() is awaited.
Speak(t, then) ==
  /\ turn[t].said < MaxSentences
  /\ turn' = [turn EXCEPT ![t].at = "emitting", ![t].then = then, ![t].said = @ + 1,
                          ![t].voiced = @ \cup {turn[t].attempt.try}]

\* A text frame completes a sentence, the last one of the limit included; one
\* frame may release several, with no fence check between.
TextFrame(t) ==
  /\ \/ Reading(t) /\ turn[t].terminal = "none"
     \/ turn[t].at = "emitting" /\ turn[t].then = "stream"
  /\ Speak(t, IF turn[t].said + 1 = MaxSentences THEN "limit" ELSE "stream")
  /\ UNCHANGED <<month, primary, stale, active, confirmed, rows, made, lost, failures>>

\* emit() returned: the sentence was played, or dropped by the session.
Emitted(t) ==
  /\ turn[t].at = "emitting"
  /\ CASE turn[t].then = "stream" ->
            turn' = [turn EXCEPT ![t].at = "streaming"] /\ UNCHANGED <<active, confirmed, rows, made, failures>>
       [] turn[t].then = "limit" ->
            /\ turn' = [turn EXCEPT ![t].at = "draining", ![t].then = "completed"]
            /\ UNCHANGED <<active, confirmed, rows, made, failures>>
       [] turn[t].then = "finish" ->
            SettleThen(t, turn[t].usage, Ended(turn[t], "completed"))
       [] turn[t].then = "apology" ->
            /\ turn' = [turn EXCEPT ![t] = Ended(@, "error")]
            /\ UNCHANGED <<active, confirmed, rows, made, failures>>
  /\ UNCHANGED <<month, primary, stale, lost>>

\* A frame arrives after the fence moved: cancel_and_drain is awaited.
FenceSeen(t) ==
  /\ turn[t].at = "streaming" /\ t \in stale
  /\ turn' = [turn EXCEPT ![t].at = "draining", ![t].then = "cancelled"]
  /\ UNCHANGED <<month, primary, stale, active, confirmed, rows, made, lost, failures>>

\* cancel_and_drain returned, perhaps with the attempt's usage.
Drained(t, reported) ==
  /\ turn[t].at = "draining"
  /\ SettleThen(t, turn[t].usage \/ reported, Ended(turn[t], turn[t].then))
  /\ UNCHANGED <<month, primary, stale, lost>>

\* The stream is over and its terminal frame said "completed": what is left in
\* the sentence gate is released, then the attempt settles.
StreamCompleted(t) ==
  /\ turn[t].at = "streaming" /\ turn[t].terminal = "completed"
  /\ \/ Speak(t, "finish") /\ UNCHANGED <<active, confirmed, rows, made, failures>>
     \/ SettleThen(t, turn[t].usage, Ended(turn[t], "completed"))
  /\ UNCHANGED <<month, primary, stale, lost>>

\* A stream that ended without a terminal frame is transiently incomplete.
Transient(t) == turn[t].terminal \in {"none", "transient"}
Voiced(t)    == turn[t].attempt.try \in turn[t].voiced

\* retry_luna: only before the first playback frame, under a current fence.
Retryable(t) ==
  Transient(t) /\ ~Voiced(t) /\ turn[t].attempt.model = Terra /\ t \notin stale

\* The stream failed: the attempt settles, then Luna is tried in its place.
StreamRetried(t) ==
  LET a    == turn[t].attempt
      conf == [confirmed EXCEPT ![a.period] = @ + Charge(a, turn[t].usage)] IN
  /\ turn[t].at = "streaming" /\ turn[t].terminal # "completed" /\ Retryable(t)
  /\ \/ /\ Settle(a, turn[t].usage)
        /\ Reserve(t, 2, Luna, a.period, conf, active \ {a}, turn[t])
     \/ SettleRefused(t)
  /\ UNCHANGED <<month, primary, stale, lost>>

\* The stream failed for good: an apology follows what was already heard.
StreamFailed(t) ==
  /\ turn[t].at = "streaming" /\ turn[t].terminal # "completed" /\ ~Retryable(t)
  /\ SettleThen(t, turn[t].usage,
       IF Voiced(t) THEN [turn[t] EXCEPT !.at = "emitting", !.then = "apology"]
       ELSE Ended(turn[t], "error"))
  /\ UNCHANGED <<month, primary, stale, lost>>

\* The provider or a sink raised, or the task was cancelled, at an await.
Fault(t) ==
  /\ turn[t].at \in Running
  /\ turn' = [turn EXCEPT ![t] = Ended(@, "fault")]
  /\ UNCHANGED <<month, primary, stale, active, confirmed, rows, made, lost, failures>>

\* coordinator.cancel: every turn under way is stale from now on.
MoveFence ==
  /\ stale' = {t \in Turns : turn[t].at # "idle"}
  /\ stale' # stale
  /\ UNCHANGED <<month, primary, turn, active, confirmed, rows, made, lost, failures>>

NextMonth ==
  /\ month < Months
  /\ month' = month + 1
  /\ UNCHANGED <<primary, stale, turn, active, confirmed, rows, made, lost, failures>>

\* confirmed_usage_totals
Recorded(p) == SumFunctionOnSet(Charges, {r \in rows : r.attempt.period = p})

\* The process stops and persistent_budget_ledger starts a new ledger, perhaps
\* with the other composition.
Restart ==
  /\ \E t \in Turns : turn[t].at # "idle"
  /\ turn' = [t \in Turns |-> IF turn[t].at \in Running THEN Ended(turn[t], "fault") ELSE turn[t]]
  /\ active' = {} /\ primary' \in {"none", Local}
  /\ lost' = lost \cup active
  /\ confirmed' = [p \in Periods |-> Recorded(p)]
  /\ UNCHANGED <<month, stale, rows, made, failures>>

TurnStep(t) ==
  \/ Generate(t)
  \/ UsageFrame(t) \/ TextFrame(t)
  \/ \E kind \in {"completed", "transient", "permanent"} : TerminalFrame(t, kind)
  \/ Emitted(t) \/ FenceSeen(t)
  \/ \E reported \in BOOLEAN : Drained(t, reported)
  \/ StreamCompleted(t) \/ StreamRetried(t) \/ StreamFailed(t)
  \/ Fault(t)

Next ==
  \/ \E t \in Turns : TurnStep(t)
  \/ MoveFence \/ NextMonth \/ Restart

Spec == Init /\ [][Next]_vars
-----------------------------------------------------------------------------
\* The types of the generator's and the ledger's state.
TypeOK ==
  /\ month \in Periods /\ primary \in {"none", Local} /\ stale \subseteq Turns /\ failures \in 0..MaxFailures
  /\ \A t \in Turns :
       /\ turn[t].at \in {"idle", "ended"} \cup Running
       /\ turn[t].attempt \in Attempt \cup {NoAttempt(t)}
       /\ turn[t].said \in 0..MaxSentences
       /\ turn[t].voiced \subseteq {1, 2}
  /\ active \subseteq Attempt /\ made \subseteq Attempt /\ lost \subseteq made
  /\ confirmed \in [Periods -> Nat]
  /\ rows \subseteq UsageRow

\* The monthly lock is reached by no admission, only by bills that turn out above
\* their reservation, and passed by no more than these exceed it: not by
\* overlapping turns, retries, a month that ends between reservation and
\* settlement, or a restart.
BelowLock == \A p \in Periods : Total(p, confirmed, active) < Lock + Overrun(p, rows)

\* The ledger's total of a period covers the bill of every attempt of that period
\* as far as it was foreseen, whichever way the attempt ended, and besides all that
\* reported bills have beyond it.  (A restart forgets attempts that had not settled,
\* also those that ended without settling; what an attempt without a usage report
\* is billed beyond its reservation nothing in the program knows of.)
SpendCovered ==
  \A p \in Periods :
    SumFunctionOnSet(Foreseen, In(p, made \ lost)) + Overrun(p, rows) <= Total(p, confirmed, active)

\* Memory and SQLite agree on what is confirmed, each attempt counted once,
\* also after SQLite refused a settlement.
DurableExact ==
  /\ \A p \in Periods : confirmed[p] = Recorded(p)
  /\ \A r, q \in rows : r.attempt = q.attempt => r = q
  /\ \A r \in rows : r.attempt \notin active

=============================================================================
