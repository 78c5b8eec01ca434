------------------------ MODULE MCTelemetryHandoff --------------------------
(* Model-checking instance of TelemetryHandoff, with the sizes of the frames  *)
(* packed from its batches (TelemetryFrame has no state).                     *)
EXTENDS TelemetryHandoff, TelemetryFrame
=============================================================================
