---------------------------- MODULE MCScheduler ----------------------------
(* Values for model checking Scheduler: one process, tick slots, a manual  *)
(* check.                                                                  *)
EXTENDS DueQueue, TLC

CONSTANTS t1, t2, k1, k2, m1, p1

OneProcess == k1 :> p1 @@ k2 :> p1 @@ m1 :> p1
=============================================================================
