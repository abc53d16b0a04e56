---------------------------- MODULE HealthModel ----------------------------
(***************************************************************************)
(* What the check runner promises, without tables, snapshots, locks or     *)
(* transactions: the checks of a target happen one after the other, and    *)
(* after each its verdict and its incident are the ones the results        *)
(* recorded so far call for.                                               *)
(*                                                                         *)
(*   streak   the newest run of equal results of each target               *)
(*   open     does the target have an incident that is not resolved        *)
(*   verdict  the status shown for the target                              *)
(***************************************************************************)
EXTENDS Integers

CONSTANTS Targets, FailureThreshold, RecoveryThreshold, CounterCap

VARIABLES streak, open, verdict

abstractVars == <<streak, open, verdict>>

FailuresNeeded  == IF FailureThreshold < 1 THEN 1 ELSE FailureThreshold
SuccessesNeeded == IF RecoveryThreshold < 1 THEN 1 ELSE RecoveryThreshold

Longer(n) == IF n < CounterCap THEN n + 1 ELSE CounterCap

Extend(s, outcome) ==
  [last |-> outcome, run |-> IF s.last = outcome THEN Longer(s.run) ELSE 1]

AbstractInit ==
  /\ streak = [t \in Targets |-> [last |-> "NONE", run |-> 0]]
  /\ open = [t \in Targets |-> FALSE]
  /\ verdict \in [Targets -> {"UNKNOWN", "PAUSED"}]

\* A failed check: the incident is open from the FailuresNeeded-th failure in
\* a row on, and stays open if it was.
Fail(t) ==
  /\ verdict[t] # "PAUSED"
  /\ streak' = [streak EXCEPT ![t] = Extend(@, "FAILURE")]
  /\ LET reached == streak'[t].run >= FailuresNeeded
     IN  /\ open' = [open EXCEPT ![t] = @ \/ reached]
         /\ verdict' = [verdict EXCEPT ![t] = IF reached THEN "DOWN" ELSE "DEGRADED"]

\* A successful check: an open incident is resolved by SuccessesNeeded
\* successes in a row, and until then the target stays DOWN.
Succeed(t) ==
  /\ verdict[t] # "PAUSED"
  /\ streak' = [streak EXCEPT ![t] = Extend(@, "SUCCESS")]
  /\ open' = [open EXCEPT ![t] = @ /\ streak'[t].run < SuccessesNeeded]
  /\ verdict' = [verdict EXCEPT ![t] = IF open'[t] THEN "DOWN" ELSE "UP"]

AbstractNext == \E t \in Targets : Fail(t) \/ Succeed(t)

AbstractSpec == AbstractInit /\ [][AbstractNext]_abstractVars
=============================================================================
