----------------------------- MODULE MCMonitor -----------------------------
(* Values for model checking Monitor: one process or two, each with one    *)
(* tick slot, and sessions and acknowledgers placed in them.               *)
EXTENDS Monitor, TLC

CONSTANTS t1, k1, k2, s1, s2, a1, p1, p2

OneProcess == k1 :> p1 @@ s1 :> p1 @@ s2 :> p1 @@ a1 :> p1
TwoProcesses == k1 :> p1 @@ k2 :> p2 @@ s1 :> p2 @@ s2 :> p1 @@ a1 :> p1
=============================================================================
