---------------------------- MODULE MCTelemetry ----------------------------
(* Values for model checking Telemetry: a short window with one bucket per *)
(* tick, a long one whose buckets it cuts.                                 *)
EXTENDS Telemetry, TLC

CONSTANTS t1, t2

Hours == "day" :> 1 @@ "month" :> 3
Widths == "day" :> 1 @@ "month" :> 2

ByName == t1 :> 1 @@ t2 :> 2

Row(t, at, status, latency) ==
  [target |-> t, at |-> at, status |-> status, latencyMs |-> latency]

\* Some checks on their way out of the windows.
MCHistories ==
  { {Row(t1, 1, "SUCCESS", 3), Row(t1, 2, "SUCCESS", 1), Row(t1, 3, "SUCCESS", 2),
     Row(t2, 3, "FAILURE", 9)} }
=============================================================================
