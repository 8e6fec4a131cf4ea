------------------------------ MODULE TurnGate ------------------------------
(***************************************************************************)
(* pipeline/turn_gate.py with the two primitives it owns, audio/vad.py     *)
(* (TurnPolicy) and audio/preroll.py: how microphone spans become one      *)
(* captured utterance.  Positions are absolute samples; of the PCM only    *)
(* how much is held matters, of the detector only its verdict.  A span is  *)
(* one analysis window, which is what the CoreAudio owner delivers (512    *)
(* frames, the size Silero asks for).  Feed, Reset and CarryOver are the   *)
(* gate's handlers; VoiceInput schedules them as the engine does.          *)
(***************************************************************************)
EXTENDS Integers, FiniteSets

CONSTANTS
  Window,        \* detector.frames_required
  IdleStart,     \* voiced samples that start a turn while Lune is silent
  BargeIn,       \* voiced samples that interrupt Lune
  EndSilence,    \* unvoiced samples that end a turn
  PreRoll,       \* required_pre_roll_ms
  RingCapacity,  \* capacity_ms
  MaxUtterance,  \* max_utterance_ms
  MaxGen,        \* bound on generations
  MaxSample      \* bound on the sample cursor

ASSUME WindowAssumption == Window \in Nat \ {0} /\ MaxGen \in Nat /\ MaxSample \in Nat
\* config.py fixes 100 ms and 300 ms for the two thresholds.
ASSUME PolicyAssumption ==
  /\ {IdleStart, BargeIn, EndSilence} \subseteq Nat \ {0}
  /\ IdleStart <= BargeIn
\* The ring is built with CONFIRMATION_MARGIN_MS, 50 ms, to spare, and a window is 32 ms
\* (pipeline/factory.py); the constructors refuse a smaller ring and utterance bound.
ASSUME CapacityAssumption ==
  /\ {PreRoll, RingCapacity, MaxUtterance} \subseteq Nat
  /\ RingCapacity >= PreRoll + BargeIn + Window
  /\ MaxUtterance > PreRoll

None == -1

VARIABLES
  gateGen,      \* _generation_id
  carried,      \* _carried_generation
  nextStart,    \* _window_start: where the next window must start
  policy,       \* TurnPolicy: next sample, onsets, whether a turn is active
  ring,         \* PreRollBuffer: the samples held, [start, end)
  utterance,    \* _utterance and its range; held counts the samples it contains
  capture,      \* the UtteranceCaptured the last window produced, if any
  outcome,      \* what the last window produced or raised
  interrupting, \* the caller awaits coordinator.cancel("barge_in")
  fencedFrom,   \* history variable: first sample accepted after the last reset
  lastVoiced,   \* history variable: end of the last voiced window
  sawActive,    \* history variable: Lune was active while this speech was confirmed
  slack         \* history variable: samples missing from the utterance because Lune fell
                \* silent while its first words were being confirmed

gateVars == <<gateGen, carried, nextStart, policy, ring, utterance, capture, outcome,
              interrupting, fencedFrom, lastVoiced, sawActive, slack>>

Larger(a, b) == IF a > b THEN a ELSE b
Smaller(a, b) == IF a < b THEN a ELSE b

FreshPolicy == [next |-> None, onset |-> None, silence |-> None, active |-> FALSE]
EmptyRing   == [start |-> None, end |-> None]
NoUtterance == [start |-> None, end |-> 0, held |-> 0]
NoCapture   == [start |-> None, end |-> 0, held |-> 0, last |-> 0, bounded |-> FALSE]

GateInit ==
  /\ gateGen = 0
  /\ carried = None
  /\ nextStart = None
  /\ policy = FreshPolicy
  /\ ring = EmptyRing
  /\ utterance = NoUtterance
  /\ capture = NoCapture
  /\ outcome = "none"
  /\ interrupting = FALSE
  /\ fencedFrom = 0
  /\ lastVoiced = None
  /\ sawActive = FALSE
  /\ slack = 0
-----------------------------------------------------------------------------
(* TurnPolicy.feed of one window [s, e): the policy after it and its event. *)

\* Mutant: an unvoiced window does not end the run of speech being confirmed.
WaitingKeepsOnset(p, s, e, voiced, ai) ==
  LET onset == IF p.onset = None /\ voiced THEN s ELSE p.onset
      at    == onset + (IF ai THEN BargeIn ELSE IdleStart)
      fires == onset # None /\ voiced /\ e >= at
  IN  [policy |-> [next |-> e, onset |-> onset, silence |-> None, active |-> fires],
       kind   |-> IF ~fires THEN "none" ELSE IF ai THEN "barge_in" ELSE "started",
       at     |-> at, onset |-> onset]

\* _feed_waiting: speech must last through the threshold of the moment.
Waiting(p, s, e, voiced, ai) ==
  LET onset == IF ~voiced THEN None ELSE IF p.onset = None THEN s ELSE p.onset
      at    == onset + (IF ai THEN BargeIn ELSE IdleStart)
      fires == voiced /\ e >= at
  IN  [policy |-> [next |-> e, onset |-> onset,
                   silence |-> IF fires THEN None ELSE p.silence, active |-> fires],
       kind   |-> IF ~fires THEN "none" ELSE IF ai THEN "barge_in" ELSE "started",
       at     |-> at, onset |-> onset]

\* Mutant: a voiced window does not restart the silence that ends the turn.
ActiveKeepsSilence(p, s, e, voiced) ==
  LET silence == IF p.silence = None /\ ~voiced THEN s ELSE p.silence
      at      == silence + EndSilence
      ends    == ~voiced /\ e >= at
  IN  [policy |-> IF ends THEN [FreshPolicy EXCEPT !.next = e]
                  ELSE [p EXCEPT !.next = e, !.silence = silence],
       kind   |-> IF ends THEN "ended" ELSE "none", at |-> at, onset |-> None]

\* _feed_active: only an unbroken silence ends the turn.
Active(p, s, e, voiced) ==
  LET silence == IF voiced THEN None ELSE IF p.silence = None THEN s ELSE p.silence
      at      == silence + EndSilence
      ends    == ~voiced /\ e >= at
  IN  [policy |-> IF ends THEN [FreshPolicy EXCEPT !.next = e]
                  ELSE [p EXCEPT !.next = e, !.silence = silence],
       kind   |-> IF ends THEN "ended" ELSE "none", at |-> at, onset |-> None]

PolicyFeed(p, s, e, voiced, ai) ==
  IF p.active THEN Active(p, s, e, voiced) ELSE Waiting(p, s, e, voiced, ai)
-----------------------------------------------------------------------------
(* PreRollBuffer. *)

\* append and _trim_to_capacity.
RingAppend(r, s, e) ==
  [start |-> Larger(IF r.start = None THEN s ELSE r.start, e - RingCapacity), end |-> e]

\* capture() raises unless the requested range is buffered.
Buffered(r, onset, at) == r.start # None /\ r.start <= onset /\ onset <= at /\ at <= r.end

\* capture: the pre-roll before the onset, or what the ring has of it, and the
\* speech up to the confirmation.
PreRollCapture(r, onset, at) ==
  [start |-> Larger(Larger(0, onset - PreRoll), r.start), end |-> at]

\* _open_utterance with that audio.
Opened(r, onset, at) ==
  LET audio == PreRollCapture(r, onset, at)
  IN  [start |-> audio.start, end |-> audio.end, held |-> audio.end - audio.start]

\* _extend_utterance with the part of the window not held yet.
Extended(u, s, until) ==
  LET from == Larger(u.end, s)
  IN  IF from >= until THEN u
      ELSE [u EXCEPT !.end = until, !.held = @ + (until - from)]

\* _build_capture: cut at the utterance bound; last is last_voiced_sample.
Captured(u, bounded) ==
  LET end == Smaller(u.end, u.start + MaxUtterance)
  IN  [start |-> u.start, end |-> end, held |-> Smaller(u.held, end - u.start),
       last |-> IF bounded THEN end ELSE Larger(u.start, end - EndSilence),
       bounded |-> bounded]

\* AudioSpan refuses PCM whose length does not match its range.
Whole(c) == c.held = c.end - c.start
-----------------------------------------------------------------------------
\* _restart_timeline: a span that is not adjacent starts everything afresh.
Restarts(s) == nextStart # None /\ s # nextStart

\* One window through _drain_windows: what the ring, the policy and the
\* utterance become, what was captured and whether assembling it raised.
Analysed(s, voiced, ai) ==
  LET e        == s + Window
      ring1    == RingAppend(IF Restarts(s) THEN EmptyRing ELSE ring, s, e)
      fed      == PolicyFeed(IF Restarts(s) THEN FreshPolicy ELSE policy, s, e, voiced, ai)
      before   == IF Restarts(s) THEN NoUtterance ELSE utterance
      opens    == fed.kind \in {"started", "barge_in"}
      u1       == IF opens THEN Opened(ring1, fed.onset, fed.at) ELSE before
      u2       == IF u1.start = None THEN u1
                  ELSE Extended(u1, s, IF fed.kind = "ended" THEN fed.at ELSE e)
      bounded  == fed.kind # "ended" /\ u2.start # None /\ u2.end - u2.start >= MaxUtterance
      captures == bounded \/ fed.kind = "ended"
      made     == Captured(u2, bounded)
  IN  [ring |-> ring1, fed |-> fed, opens |-> opens, utterance |-> u2, bounded |-> bounded,
       captures |-> captures, made |-> made,
       lost |-> \/ opens /\ ~Buffered(ring1, fed.onset, fed.at)
                \/ captures /\ ~Whole(made)]

\* feed() of an accepted span.  old: stamped with the carried generation.
Feed(s, old, voiced, ai) ==
  \E w \in {Analysed(s, voiced, ai)} :
    /\ ~interrupting
    /\ old => carried # None
    /\ carried' = IF old THEN carried ELSE None
    /\ nextStart' = s + Window
    /\ ring' = w.ring
    /\ policy' = IF w.bounded /\ ~w.lost THEN FreshPolicy ELSE w.fed.policy
    /\ utterance' = IF w.captures /\ ~w.lost THEN NoUtterance ELSE w.utterance
    /\ capture' = IF w.captures /\ ~w.lost THEN w.made ELSE NoCapture
    /\ outcome' = IF w.lost THEN "lost" ELSE IF w.captures THEN "captured" ELSE w.fed.kind
    /\ interrupting' = (w.fed.kind = "barge_in" /\ ~w.lost)
    /\ fencedFrom' = IF fencedFrom = None \/ (Restarts(s) /\ s < fencedFrom) THEN s
                     ELSE fencedFrom
    /\ lastVoiced' = IF voiced THEN s + Window ELSE IF Restarts(s) THEN None ELSE lastVoiced
    /\ sawActive' = CASE w.opens -> sawActive /\ w.fed.onset < s /\ ~ai
                      [] w.fed.onset # None /\ ~w.opens ->
                           ai \/ (sawActive /\ w.fed.onset < s)
                      [] OTHER -> sawActive
    /\ slack' = IF w.opens
                THEN IF sawActive /\ w.fed.onset < s /\ ~ai THEN Larger(0, s - w.fed.at) ELSE 0
                ELSE IF utterance.start = None \/ Restarts(s) THEN 0 ELSE slack
    /\ UNCHANGED gateGen

\* Mutant: a reset does not restart the timeline.
ResetKeepsTimeline ==
  /\ gateGen < MaxGen
  /\ gateGen' = gateGen + 1
  /\ carried' = None
  /\ policy' = FreshPolicy
  /\ ring' = EmptyRing
  /\ utterance' = NoUtterance
  /\ capture' = NoCapture
  /\ outcome' = "none"
  /\ fencedFrom' = None
  /\ lastVoiced' = None
  /\ sawActive' = FALSE
  /\ slack' = 0
  /\ UNCHANGED <<nextStart, interrupting>>

\* reset_generation: nothing crosses this fence.  A caller that awaits its own
\* barge-in cancel goes on waiting for it.
Reset ==
  /\ gateGen < MaxGen
  /\ gateGen' = gateGen + 1
  /\ carried' = None
  /\ policy' = FreshPolicy
  /\ ring' = EmptyRing
  /\ nextStart' = None
  /\ utterance' = NoUtterance
  /\ capture' = NoCapture
  /\ outcome' = "none"
  /\ fencedFrom' = None
  /\ lastVoiced' = None
  /\ sawActive' = FALSE
  /\ slack' = 0
  /\ UNCHANGED interrupting

\* Mutant: a barge-in does not remember which generation it interrupted.
CarryOverForgets ==
  /\ interrupting
  /\ gateGen < MaxGen
  /\ gateGen' = gateGen + 1
  /\ carried' = None
  /\ ring' = EmptyRing
  /\ interrupting' = FALSE
  /\ UNCHANGED <<nextStart, policy, utterance, capture, outcome, fencedFrom, lastVoiced,
                 sawActive, slack>>

\* carry_over_generation: the utterance and the policy survive, the ring restarts.
CarryOver ==
  /\ interrupting
  /\ gateGen < MaxGen
  /\ gateGen' = gateGen + 1
  /\ carried' = gateGen
  /\ ring' = EmptyRing
  /\ interrupting' = FALSE
  /\ UNCHANGED <<nextStart, policy, utterance, capture, outcome, fencedFrom, lastVoiced,
                 sawActive, slack>>

-----------------------------------------------------------------------------
Position == Nat \cup {None}

\* The types of the gate's state.
GateTypeOK ==
  /\ gateGen \in 0..MaxGen
  /\ carried \in -1..MaxGen
  /\ nextStart \in Position
  /\ policy \in [next : Position, onset : Position, silence : Position, active : BOOLEAN]
  /\ ring \in [start : Position, end : Position]
  /\ utterance \in [start : Position, end : Position, held : Nat]
  /\ capture \in [start : Position, end : Position, held : Nat, last : Position,
                  bounded : BOOLEAN]
  /\ outcome \in {"none", "started", "barge_in", "captured", "lost"}
  /\ interrupting \in BOOLEAN
  /\ fencedFrom \in Position
  /\ lastVoiced \in Position
  /\ sawActive \in BOOLEAN
  /\ slack \in Nat

\* An utterance is lost only when Lune fell silent while speech was still being
\* confirmed against the longer barge-in threshold: nothing else leaves a hole in the
\* samples, and no window finds its onset trimmed from the ring (turn_gate.py:194-235).
OnlyThresholdDropLoses == outcome = "lost" => slack > 0

\* The end-to-end clock starts at the true end of speech: last_voiced_sample of
\* a capture that ended in silence is where the last voiced window ended (up to
\* a window earlier if that window also crossed the utterance bound).  No capture
\* is empty, longer than the bound, or reaches back before the last reset:
\* "Discard every buffered sample; nothing crosses this fence".  Samples may be missing
\* only from an utterance cut at the bound: there the cut hides the hole.
CaptureHonest ==
  outcome = "captured" =>
    /\ slack > 0 => capture.end = capture.start + MaxUtterance
    /\ fencedFrom # None /\ fencedFrom <= capture.start
    /\ capture.start < capture.end
    /\ capture.end - capture.start <= MaxUtterance
    /\ capture.start <= capture.last /\ capture.last <= capture.end
    /\ ~capture.bounded =>
         \/ capture.last = Larger(capture.start, lastVoiced)
         \/ /\ capture.end = capture.start + MaxUtterance
            /\ capture.last \in (lastVoiced - Window)..lastVoiced
=============================================================================
