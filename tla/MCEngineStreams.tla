--------------------------- MODULE MCEngineStreams ---------------------------
\* EngineStreams with headphones and the unsafe built-in speaker, from a cold
\* start and from the middle of a call.
EXTENDS EngineStreams

InCall ==
  /\ default \in Devices \ BuiltIn /\ resolved = default /\ snapshot = default
  /\ micRequested = TRUE /\ capturing = TRUE /\ permission = "authorized"
  /\ input = default /\ output = Nothing /\ failed = FALSE /\ flush = FALSE /\ refused = FALSE
  /\ jobs = <<>> /\ done = <<>> /\ task = [t \in Tasks \cup {"writer"} |-> Idle]
  /\ closed = "open"
  /\ used = 0

MCSpec == (StreamsInit \/ InCall) /\ [][StreamsNext]_streamsVars /\ Fairness
=============================================================================
