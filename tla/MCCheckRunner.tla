--------------------------- MODULE MCCheckRunner ---------------------------
(* Values for model checking CheckRunner: which process each job runs in.  *)
EXTENDS CheckRunner, TLC

CONSTANTS t1, t2, j1, j2, p1, p2

OneProcess == j1 :> p1 @@ j2 :> p1
TwoProcesses == j1 :> p1 @@ j2 :> p2

=============================================================================
