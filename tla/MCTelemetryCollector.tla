--------------------------- MODULE MCTelemetryCollector ---------------------------
(* Instantiates TelemetryCollector for TLC: two extension handlers, so that  *)
(* the listdir order of their directories matters to the cleanup, three     *)
(* event files, extension files of up to two events and a quota of two, so   *)
(* that the quota can cut a file in the middle, a queue of two events.      *)
EXTENDS TelemetryCollector

CONSTANTS h1, h2, agentEvents

MCHandlers == {h1, h2}
\* One extension handler, for the liveness and refinement checks.
MCOneHandler == {h1}
===================================================================================
